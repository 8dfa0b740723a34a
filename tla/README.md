# link-r: a TLA+ verification

link-r keeps a searchable index of links: it crawls pages, embeds them, stores
vectors, BM25 terms and link edges in one image, keeps the image fresh with
conditional fetches, and shares it between machines through an object store.
This directory models that system: what the code does to its state, in which
orders, and what stays true whatever fails or overlaps. TLC checks the models
on small instances, and TLAPS proves the main theorems for every instance.

Paths below are relative to the crate (`src/src/...` in `PROJECT.json`, which
maps every definition to the lines it stands for).

- [1. The system](#1-the-system): inventory of the parts
- [2. The modules](#2-the-modules) and how they correspond to the code
- [3. What is checked](#3-what-is-checked), with bounds and fairness
- [4. What is proved](#4-what-is-proved)
- [5. Where code and documentation differ](#5-where-code-and-documentation-differ)
- [6. What is not modelled](#6-what-is-not-modelled)
- [7. Plan](#7-plan)

To run: `tlc -config crawl.cfg MCCrawl`, and so on (the table in section 3
names the module of every configuration); `tlapm Crawl_proofs.tla`, and so on
for `IndexBuilder_proofs`, `LinkIndex_proofs`, `Index_proofs`, `Remote_proofs`,
`GitHubSync_proofs`, `KnowledgeBase_proofs` and `Induction` (one to ten minutes
each, `Index_proofs` about seventeen).

## 1. The system

| Part | State it keeps | Operations | What is hard | What makes it correct |
|---|---|---|---|---|
| `CrawlSource::discover` (`source/crawl.rs`) | locals of a stream body: visited set, FIFO frontier, `FuturesUnordered` of fetches, successes; the shared failure and 304 counters; robots cache | fill loop, completion, retry, redirect, 304, failure, end | completions in any order, budget with fetches in flight, redirects, children of a page that has no body | budget and concurrency kept, no URL asked for twice, scope and robots.txt honoured as far as a redirect leaves them, every fetch accounted for, the crawl ends |
| `Pacer` and fetch timers (`source/crawl.rs`) | next free slot per host; a delay per fetch | reserve at launch, sleep at first poll, send, back off, resend | a delay is computed in one place and slept in another; the stream is suspended while the consumer works | first attempts that are polled in time at least the interval apart, and never more of them than one each interval |
| `IndexBuilder` (`index/builder.rs`) | four parallel arrays (metadata, vectors, terms, edges) and a map from URL to position | `upsert`, `remove`, `touch`, `set_pinned` | swap-remove in four arrays plus one map entry | arrays and map agree, a row belongs to its document, pins survive |
| `LinkIndex` (`facade.rs`) | `opened` image or `builder`, cached search snapshot | pin, freeze, reload, read, `ingest_from`, `refresh_with` | lazy representations, batches, answers in any order, an error or a dropped future at every await | a search sees the current documents, a 304 confirms what is held, reports are so, no link lost without reason |
| `UpdateBuilder`, `RefreshBuilder` (`facade.rs`) | none: they collect options, validators and known edges | `run` | what is handed to a re-crawl of an unchanged site | coverage is kept |
| `Remote` (`remote.rs`) | cached HEAD; in the store, HEAD and one image per generation | `load`, `load_if_changed`, `publish` | races between publishers and with deletes, lost responses, restarts | HEAD names a complete image, no lost update, replicas catch up |
| `KnowledgeBase` (`kb.rs`) and `bridge.rs` | a `LinkIndex` and a graph, each with a remote, a lease | `sync`, `sync_crawl`, `refresh`, `refresh_due`, `publish`, `release`, `lookup` | two halves published separately, validators of one used for the other | the halves agree, or come to agree |
| `GitHubSource` (`source/github.rs`) | the parsed spelling; per sync: listing with blob SHAs, files to fetch, fetches in flight | `parse`, `discover` | blobs are fetched by branch name after the listing, and the branch moves; many spellings of one subdirectory | exactly the files meant are reported, once; after a sync of an unmoved repository the index holds its content |
| `HttpFetcher`, OAuth and token auth (`fetch/http.rs`, `auth/`) | token, its expiry, the lock of the refresh | `fetch`, `needs_refresh`, `refresh` | concurrent requests find the token stale at once; the one refreshing may be dropped; the token's life is counted from when its answer arrives | one refresh per expiry, no expired token on the wire |
| Index image (`index/mod.rs`, `format.rs`, `meta.rs`, `graph.rs`) | sections of a file; the opened index | `serialize`, `parse`, `freeze`, `thaw` | optional sections and flags, columns older files lack | what went in comes out, for any sequence of saves, openings and changes |
| Retrieval (`index/sparse.rs`, `dense.rs`, `fuse.rs`, `quant.rs`, `metric.rs`, `query.rs`) | postings, resolved graph, quantised rows | search, related, fusion, two-tier search | candidates cut and filtered in several places, ties, saturating counts | results equal their definition over the documents |
| Extraction (`extract/`, `text/`) | none | HTML, Markdown, code and plain readers; page to document | quotes, comments, raw text, references and images around a link; caps in page order | edges, outline, title and terms are those the page states |
| URL keys, payloads (`url_key.rs`, `payload.rs`, `resource.rs`) | none | canonical URL, key, kind of a page | slashes, queries, fragments, ports | one key for each page |
| `FsSource`, embedding, bindings, benches | none over time | pure functions, thin wrappers | none over time | out of scope here |

How they interact. A source is a stream of pages; the facade pulls it, so a
crawl makes progress only while `ingest_from` awaits the next page. Embedding
happens between pulls and therefore suspends the crawl, timers included.
`ingest_from` and `refresh_with` hold the `LinkIndex` by `&mut`, so nothing else
touches it meanwhile, but every await may fail or be the last one. `Remote`
serialises a `LinkIndex` and shares it through an object store, the only place
where processes interact: there, and among the fetches of a crawl, are the
interleavings of this system. `KnowledgeBase` ties one `LinkIndex` and one graph
to one remote location each.

The hazards these interactions bring are listed in `PROJECT.json` under
`hazards`, each at its line and with the properties that would show it.

## 2. The modules

Every module names its source definitions; helpers keep the names of the code.
Actions are whole handlers between two awaits: code between two awaits is
atomic, because each task is single-threaded and holds its state exclusively.
`..._Something` definitions marked "Mutant" are plausible bugs, each kept to
show that a property would notice it; no specification uses them.

### Crawl (`source/crawl.rs`, with `fetch_one` and `RobotsCache`)

A page is a canonical URL key. A *site* (links, redirects, hosts, what
robots.txt forbids) and a *configuration* are chosen at the start from the
constant `Crawls` and never change; the web's answers to each request are
nondeterministic: a body, a 304 if the page is known from an earlier crawl, a
retriable error, a final error. A redirect is followed by the client, inside one
fetch: `launches` counts the fetches of a page, which the code decides on, and
not the requests a redirect makes of it.

| Code | Model |
|---|---|
| fill loop: slot, budget and frontier tests | `CanFill`, `BudgetLeft` |
| `robots.check` before a launch | `FetchRobots`, `SkipDisallowed`, `RootDisallowed` |
| push onto `FuturesUnordered` | `Launch` |
| retry loop of `fetch_one` | `Retry` |
| `in_flight.next().await` | any `Complete(f)`; guarded by `~CanFill`, as fetches are polled only there |
| 304 with `known_edges` | `Revalidated` |
| error of a child, of the root | `ChildFailed`, `RootFailed` |
| redirect out of scope, body | `Escaped`, `Accepted` with `Expand` |
| nothing in flight | `Finish` |

`launches` and `yielded` are history variables.

### CrawlPacing (`Pacer`, timers of `fetch_one`)

Time is discrete. A fetch reserves a slot while the stream body fills, starts
its timer when it is first polled, sends, and may back off and send again.
Fetches are polled only while the body awaits. It is held up, for any time, while
the consumer works on a page (`suspended`) and, where `AsksRobots`, while the fill
loop fetches the robots.txt of the next page's host (`AskRobots`): `Tick` is
possible then whatever is due, and while the body awaits only when nothing is.
`sent_at` and `overdue` are history: when a first attempt was sent, and which of
them were not sent at their slot. One `Interval` stands for all hosts; the crawl
delay of a host only widens it. The initial states, steps and types are named
after the pacer (`PacerInit`, `PacerNext`, `PacerTypeOK`), because the proofs about
it share a module with those about the crawl.

### IndexBuilder, LinkMap (`index/builder.rs`)

`IndexBuilder` is the concrete structure: four sequences and a partial function
from keys to positions, with one action per method. `LinkMap` is the abstract
specification: one map from keys to whole entries, where an entry's vector,
terms and edges are those of that page in that version. `IndexBuilder` implements
`LinkMap` under the mapping that reads an entry off the four arrays at the
position the map gives (`MapSpec`, checked and proved).

### LinkIndex (`facade.rs`)

The documents are held by `opened` or by `builder` (never both), and `cached`
is the search snapshot. Documents are what the properties tell apart: content
hash, entity tag, last check, pin. `ingest_from` is `StartIngest`, `Receive` per
page, `FlushFull`, `FinishIngest`. `refresh_with` is `StartRefresh` (planning and
age eviction), `LaunchFetch`, one of `NotModified`, `Changed`, `ChangedBlank`,
`Failed` per answer, in any order, then `UpsertChunk` per embedding batch, then
`FinishRefresh`. `Abort` is an error or a dropped future at any await of
either. The builder below is used through its abstract form, a map, which
`IndexBuilder` is proved to implement. A page is a key here: `refresh_with` parses
the stored URL again and keys it anew, which leads back to the page unless its
path ends in two slashes. That case is `Pages`' (section 5).

### Remote, Register (`remote.rs`)

Each request to the store is a step: a process's `pc` names the request it
awaits. The object store (`objstore_r`) is external, modelled from how
`remote.rs` uses it: create-only `put` that accepts an identical object already
there, and `cas` on the token of HEAD. A request may fail, may take effect and
lose its response, its future may be dropped, and a process may restart with an
empty `Remote` (`RequestFails`, `Dropped`, `Restart`). The image stands for its
length and checksum. `base` (the generation an index derives from) and
`retried` are history.

`Register` is the abstract specification: a register that holds a version and a
whole image, read and written in single steps. A process takes a version it has
noted, never one older than it had, and writes only over the current version,
which it must have noted. It knows no HEAD, no tokens, no images by key and no
requests. `Remote` implements it (`RegisterSpec`) under the mapping that reads
the register's value *through* HEAD out of the stored images (`Content`), so
that an upload, a lost response, a fenced publish or a removal must not be seen
in it, and takes the HEADs a process remembers or works from as its notes.

### KnowledgeBase (`kb.rs`, `bridge.rs`)

One writer's graph and index side by side, the published pair, and the lease.
What the facade and `Remote` do in many steps is taken here as what their own
modules promise: an answer updates the index and adds an outcome, a publish of
the links half is one conditional swap of HEAD.

| Code | Model |
|---|---|
| `writer`: lease, then `try_join` of pull and load | `Acquire`, then `PullGraph` and `LoadLinks` in either order |
| `sync`, `sync_crawl` with `crawl_seed` | `StartSync`, `Answer` per page with the graph's validator, `Absorb` |
| `refresh_due` | `StartRefresh` on due pages the index holds, `Answer` with the index's validator, `Absorb` |
| `ingest_update`, `ingest_refresh` | `Ingested`, in `Absorb`, which goes on to publish |
| `publish`: `try_join` of both halves | `StartPublish`, then `ShipGraph` and `ShipLinks` in either order |
| the first half to fail drops the other at its await | `GraphFenced`, `LinksFenced`, `PublishFails`, with `InFlight` for a request that was sent |
| an error or a drop before the bridge | `Abort`: the index keeps what it has, the graph hears nothing |
| end of a process, its `dir` gone with it | `Crash`; `release` then drop is `Release` |

The graph store, its mirror and the lease (`graph_r`, `objstore_r`) are external:
a graph is published by the holder of the lease, and the lease may be taken when
it is free, expired or one's own. A graph that is committed is in the next pull.
Left out: freshness intervals (any live page may be due at any time), `max`,
pins and pages without text (module `LinkIndex` has them), and
replicas, which write nothing. `agreed` is history: the writer opened a pair
that agrees and no operation was cut off between index and graph.

### Ranking, IndexImage, Index, Search, Lookup (`index/`, `metric.rs`, `query.rs`)

`Ranking` has the algorithms as operators: the dense scan with its bounded heap,
the postings and their BM25 scores, rank fusion, the resolved graph with related
pages and boost, and the two quantised tiers. `IndexImage` has the file: which
sections an image has and with which flags, the columns of the metadata and
what stands for them in files that lack them, every reader and its ways to
refuse, and how far a compressed section may expand (`Decompresses`). `Index` is the state machine on top: a builder or an opened index, and a
file, with `Upsert`, `Evict`, `Freeze`, `Thaw`, `Save`, `Open`; `held` and `filed`
are history, the documents that went in. `Thaw` takes the terms back from the
postings (`ToDocTerms`), so they are in the order of the dictionary afterwards;
`Open` leaves memory alone when the file does not parse. `Search` adds filters and searches and
the definition they are compared with. A filter, a tree in the code, is here the
sequence of its nodes, each after its parts (`Matches` keeps what the parts say on
a stack), so that no recursive operator stands beside the proofs. `Lookup` adds
the facade's and the knowledge base's queries, which fuse the link index with the
graph store. Hits are sorted by counting, as every list here is: the place of a hit
is the number of those ahead of it, and ties keep their order, as `sort_by` does.

The arrays of the builder are one sequence of documents here; that the four
stay aligned is what `IndexBuilder` shows. Scores are integers: the BM25 weight
is a constant function, fused scores are exact multiples (`Scale`), and rounding
is left out. The container around the sections and zstd are external.

### LinkScan, Extract, PageKeys, Pages (`extract/`, `url_key.rs`, `payload.rs`)

`LinkScan` has the two scanners, token by token: the HTML scanner with quoted
and bare values, comments, raw text and entities, and the Markdown scanner with
front matter, fences, inline links, images and references. `Extract` selects
the reader from the header and the path and has the four readers. `PageKeys` is
the canonical form of a URL. `Pages` is the state machine: an author writes a
page fragment by fragment, it is indexed under any of its URLs (`Index`), fetched
again under the stored one (`Refetch`) and removed by it (`Gone`). An entry is keyed
by the URL that was read and stores the canonical form of it, as `upsert` does, so
the two can part.

A page is written from *fragments* of which each says what it means, so that
`ReadAsWritten` compares the scanners with the author's intent and not with
another scanner. `scraper`'s DOM and `Url::join` are external: the DOM of a page
and the result of a join are data of the fragments and URLs.

### HttpFetch, GitHubSpec, GitHubSync (`fetch/http.rs`, `auth/`, `source/github.rs`)

`HttpFetch` is the fetcher with its token: a request is idle, waiting for the
lock, minting, or sent. All requests are polled by one task, so what stands
between two awaits is one step. `GitHubSpec` parses the spellings of a repository
and admits tree entries. `GitHubSync` composes both with the index:

| Code | Model |
|---|---|
| `discover`: default branch, tree | `Start`, `Resolved`, `AskTree`, `Listed` |
| known SHAs of `run`'s validators | `Known` |
| `FuturesUnordered` of blobs | `Fill`, then any of `Arrive`, `BlobFailed` |
| `ingest_from`: unchanged, blank, batch | `Arrive` with `Flush` |
| end of the stream; error or drop | `Finish`; `Abort` |
| token: cached, lock, refresh, dropped holder | `Begin`, `Acquire`, `Minted`, `Over` (`HttpFetch`) |
| the branch moves; a refresh between two syncs | `Push`; `Refresh` |

A content is a number, its SHA the same number, and the tag a raw HTTP answer
brings another one, so that a stale SHA can be told from a current one. A push
brings a new content, deletes the file, or puts back one it had before. The
segments of a spelling given as a URL are percent-encoded, as the parser leaves
them (`Encoded`), the paths of the tree are not. `told`, `complete`, `past`,
`moved` (changed since the sync began), `returned` (put back) and `unsettled`
(stored by a sync in which it changed) are history.

## 3. What is checked

| Run | Module | Question | Distinct states |
|---|---|---|---|
| `crawl` | `MCCrawl` | do budget, dedup, scope, robots, accounting and reach hold in every order of completions, and does every crawl use up its work and end? | 53 k |
| `pacing` | `MCCrawlPacing` | are first attempts that are polled in time spaced, and is no host sent more than the interval allows, with any consumer? | 1.9 M |
| `pacing_held` | `MCCrawlPacing` | are all first attempts spaced, as the pacer says? No: finding | |
| `builder` | `MCIndexBuilder` | do arrays and map agree, does it implement `LinkMap`, pins included? | 7 k |
| `linkindex` | `MCLinkIndex` | does the facade keep snapshot, tags, reports and links right through failures and cancellations? | 590 k |
| `remote` | `MCRemote` | do races, faults and restarts keep HEAD whole, updates ordered and replicas current, and is the whole a register? | 736 k |
| `remote_first` | `MCRemote` | does exactly one of two publishers win from any state, as the module says? No: finding | |
| `kb` | `MCKnowledgeBase` | do graph and index agree, and does a publish leave both, through faults and takeovers? | 3.9 M |
| `kb_torn` | `MCKnowledgeBase` | is a page counted as unchanged one the index holds, as `UpdateReport` says? No: finding | |
| `index` | `MCIndex` | does every document survive freezing, saving, opening and thawing, and is every result the one its definition gives? | 3 k |
| `pages` | `MCPages` | does each page have one entry, with the edges, outline, title and terms it was written with? | 67 k |
| `sync` | `MCGitHubSync` | does a sync report the files meant, keep the index true to the branch, send live tokens, and end? | 173 k |

### The properties

*Crawl.* `BudgetHeld`: bodies received plus fetches in flight never exceed
`max_pages`. `RequestedOnce`: no fetch is launched twice for a URL. `NoEscape`: no
fetch is launched out of scope, and nothing out of scope is yielded, although the
client follows redirects wherever they lead. `RobotsHonoured`: no fetch is launched
for a page its host forbids, and such a page is yielded only where a fetch that was
allowed was redirected to it. (That it is never yielded, `ForbiddenNotYielded`,
fails: section 5.)
`Accounting`: every fetch ends in exactly one count. `WithinReach`: every queued
depth is the length of a real path. `SameSetWhenShallow`: with one fetch at a
time, or a depth of at most two, the pages yielded depend on the links alone
(not beyond that: section 5). `WorkShrinks`: no step brings back work that was
done (pages to launch, attempts to make, hosts to ask) and each but the last does
some, so that no cycle of links or retries keeps a crawl going. `Terminates`.

*Pacing.* A consumer that takes its time is the normal case: `ingest_from` embeds
between two pages. `SpacedUnlessOverdue`: two first attempts to one host are an
interval apart unless one of them was itself held past its slot, whatever was late
or retried around them. `AtTheRate`: since the crawl began a host has been sent no
more first attempts than one each interval; what comes in a burst came late.
(`FirstAttemptsSpaced`, without the exception, is the finding `pacing_held`.)

*Builder.* `Consistent`, and `MapSpec`: the arrays are one map of whole documents,
in which a pin outlives the content it was set on (`PinsSurvive` follows).

*Facade.* `ReadsCurrent`: exactly one representation, and a search shows what it
holds. `NotModifiedConfirms`: a stored tag names the stored content, and the
record a conditional fetch was planned for is still that one when the answer
comes. `Accounted`: evicted + refreshed + unchanged + failed is what was planned.
`ReportedIsSo`: a page reported as checked carries the stamp of this refresh, so
it is not stale again at once; a page reported removed is gone.
`EvictionJustified`: no step but a reload loses a link unless it is unpinned and
aged out or dead.

*Remote.* `HeadHasImage`: HEAD names an image that is there. `SeenIsHeld`: the
HEAD a process remembers is one its index derives from. `LoadedOneWins`: a
loaded index replaces only the generation it was loaded from. `RegisterSpec`:
with all its requests, faults and fences the store is one register of whole
images, in which no write is over a version its writer does not know and no load
goes back behind what a process had. `ReplicasCatchUp`:
once publishing stops, every replica shows the current image.

*Knowledge base.* `HalvesAgree`: between calls both halves of a writer hold the
same pages with the same content, so that the graph's validators ask about what
the index holds; through evictions, tombstones and pages that come back.
`UnchangedIsHeldWhenAgreed`: then a page counted as unchanged is one the index
holds (`UnchangedIsHeld`, without that condition, fails). `PublishCompletes`: a
publish that returns to the holder of the lease left both halves in the bucket,
whatever earlier ones failed at. `NothingForgotten`: no page is ever lost from
the published graph, not even to a writer whose lease was taken over.

*Index.* `Faithful`: after any sequence of calls the live index and the file are
exactly what the documents that went in say, the file's layout included, so that
thawing, changing and freezing again loses nothing. `SearchExact`: a search
returns the first k documents by the fused score that a definition over all
documents gives, under every filter, although candidates are cut and filtered
before they are fused. `RelatedExact`: related pages have two points for
each link of the page to them and one for each pair of links that a third page has
to both, and come in the order of their points. `TiersExact`: a two-tier search whose shortlist is long enough
equals the exact one, a shorter shortlist gives the exact order of the documents
nearest in sign, and a product with the stored bytes is within half a step per
component. `LookupFused`: each hit of a knowledge-base lookup stands
for one URL, has the ranks of both halves in its score, and none that belongs to
the first k is missing.

*Pages.* `OneEntryPerPage`: however a page's URL is spelled, it has one entry, two
pages never share one, and an entry is found again by the URL it stores, unless
the page's path ends in two slashes (without that exception,
`StoredUrlLeadsBack`, it fails: section 5). `ReadAsWritten`: the edges of an entry are the first
distinct targets its author linked to, its outline, title and terms those of the
text, and the reader is the one its kind calls for.

*Sync.* `Accounted`: the files reported and those counted as failed are the files
the caller meant, each once, and no more than `concurrency` are asked for at a
time. `HeldIsCurrent`: after a sync that ran to its end without a failure while
the branch stood still, the index holds the branch's content of every file
meant, although earlier syncs may have stored bytes newer than the SHA they
carry; excepted is a file that was put back to an earlier content *and* whose entry
came in a sync in which it changed (without that exception,
`ShaIsChangeToken`, it fails: section 5). `MintedWhenStale`: a token is asked for only when the one before is within
the buffer of its end. `SentUnexpired`: no request carries a token the server has
stopped taking. `SyncEnds`.

### Bounds, and why they are enough

- *Crawl.* All link graphs on a root and three pages with two and three fetches
  at a time (a race needs two fetches that find a third page, a budget race
  needs one more than the budget); all sub-graphs of eight links on six pages
  with depth three (a page found on a longer path first needs a path of three);
  and a family with redirects, scopes, filters, two hosts, robots.txt and
  validators, with four pages to request. `max_retries` is 0 or 1: a retry
  changes only its own counter.
- *Pacing.* Three fetches to one host, so that a slot depends on a slot that
  depends on a slot, and one to another; an interval of two ticks and a horizon
  of five, which three slots just fill; back-offs up to `MaxBackoff` = 2; pauses
  of the stream at any point and of any length within the horizon.
- *Builder.* Three keys: swap-remove needs a removed, a moved and an untouched
  document. The versions are interchangeable, and so are the two keys that no
  prefix tells apart: `Alike` is a symmetry.
- *Facade.* Two pages in two versions with and without a tag, `MaxYields` = 3
  pages per run so that a batch of two fills and a page repeats, refresh
  batches of one so that a refresh has two chunks, clock up to `Horizon` = 2,
  and an image whose stamps lie ahead of the clock.
- *Remote.* Two publishers and a replica, `MaxGeneration` = 2 generations from
  an empty store or from one image, `MaxFaults` = 1 fault. The second
  generation is the first that deletes an image and the first contested one.
  A publisher stops at the bound, so the run allows deadlock.

- *Knowledge base.* Two writers, because a lease is taken over from one; they
  are interchangeable (`AnyWriter` is a symmetry). One page in two contents, one
  edit of the site: pages meet only in what a publish ships, and each of the
  properties is about one page. `MaxPublished` = 2 versions of each half, so that
  a stale HEAD and a torn pair of two publishes exist, and `MaxFaults` = 1.
  A publish that would exceed the bound waits, so the run allows deadlock.
  `kb_torn` needs one writer only.

- *Index.* Three keys, one of them in two versions, vectors of two components,
  terms that occur twice, and a document without terms and a version
  without edges, so that each optional section comes and goes; queries
  whose candidate list is shorter than the index (`CandidateFloor` = 1). Of the
  corpora one has a metadata section over `MaxDecompressed` and does not open.
- *Pages.* Pages of up to two fragments (a link in the reach of what stands before
  it is the case that matters), each cap small enough to be hit: two edges, one
  heading, two tags, five terms. Five URLs, two of which mean one page and one ends
  in two slashes; each way of serving has four of them, so that any two of the four
  pages meet in the index of one.
- *Sync.* A tree with one file for each reason to leave a file out, under eight
  spellings and limits that stand still; one file that moves at most `MaxPushes` =
  3 times under three syncs (a sync that stores newer bytes under an older SHA, a
  refresh or a revert between, a sync that must notice), or two under two; one to three files with tokens of
  life 3, buffer 1 and a source that takes up to 1, over five ticks.

`CHECK_DEADLOCK FALSE` is set where the system really stops: a finished crawl,
the pacing horizon, publishers and writers at their version bounds, a repository
that has made its last sync. The builder and the
facade always have a next call, and their runs check it.

### Fairness

- *Crawl*: `WF_vars(Next)`. The consumer polls the stream until it ends and
  every request ends (the client has a timeout), so some step is taken while one
  is possible. No particular fetch is preferred: `Terminates` holds because each
  step consumes a page, an attempt or a host's policy, which `WorkRunsOut` proves for
  every crawl. Without the weak fairness only a consumer that drops the stream
  would be left.
- *Knowledge base*: none; nothing forces a writer to go on.
- *Remote*: weak fairness of each replica's polling and of the answers to its
  requests. Publishers get none: nothing forces them to publish. A fetch may
  still find its image deleted and fail; the replica then polls again.
- *Sync*: `WF_vars(SyncStep)`. The caller polls the future until it is ready, every
  request has a timeout of 30 seconds, and the token source is assumed to answer
  (`Latency`; `OAuthRefreshAuth` itself sets no limit). Neither pushes nor new
  syncs nor cancellations are assumed.

## 4. What is proved

`IndexBuilder_proofs`, for any finite set of keys and any hashes, tags, times
and prefixes (`BuilderAssumption`):

- `Types` and `Consistency`: `Spec => []Consistent`. `Consistent` alone is not
  inductive without the types, since a position outside the arrays would make `upsert`
  write nowhere: the invariant is `Inv == TypeOK /\ Consistent`. The argument is
  by action. `UpsertAdded` appends to all four arrays and maps the new key to
  the new position, which no other key has. `UpsertUpdated` overwrites one row
  in all four. `Remove` is the core: a lemma says what swap-remove leaves at
  each position; the last document moves into the hole, the map entry of
  exactly that document moves with it, and since the map is a bijection no
  other entry pointed to the last position.
- `PinsAreSticky`: `Spec => PinsSurvive`, from the same invariant. No run checks
  `PinsSurvive` by itself: a step of `LinkMap` cannot break it.
- `Refinement`: `Spec => MapSpec`. Each method maps to the operation of
  `LinkMap` with the same result. For `SetPinned` it needs that the number of
  changed records equals the number of changed keys, which is where the
  bijection is used again (a cardinality argument).

`Crawl_proofs`, for any finite site, configuration and answers
(`CrawlAssumption`), has a theorem for each safety property of the `crawl` run,
and for its types.
`Types`, `Budget`, `Once`, `Confined`, `Polite` and `Accounted` lean on each other,
so one invariant `Inv` carries them all, strengthened by what relates the three
places a page can be in:

- `QueueOK`: a queued page has been seen, was not launched and is queued once,
  so a launch is the first of its page (`RequestedOnce`), and what is queued
  passed the link filters (`NoEscape`);
- `FlightOK`: a fetch in flight was launched and is the only one of its page, so
  taking it out lowers their number by one, which `BudgetHeld` and `Accounting`
  need (both are cardinality arguments);
- `LaunchedOK`: a launched page has been seen, so no link queues it again, and
  the policy of its host was known, so robots.txt cannot forbid it afterwards
  (`AllowedOnly`).

`Polite` (`RobotsHonoured`) adds `YieldedLaunched` to it: every page yielded is where
a launched fetch ended. So a forbidden page that is yielded was reached by a
redirect, and nothing stronger is true of the code (section 5).

The one step that takes work is `Expand`: it appends the unseen links to the
frontier, and a lemma shows that they are new, distinct and filtered.

`WorkRunsOut` (`WorkShrinks`) follows from the same `Inv`, action by action. What a
crawl can still do is three sets: pages not seen or queued, attempts not answered,
hosts not asked. They are finite, no step adds to one, and each step but the last
takes something out of one: a launch its page (queued once, `QueueOK`), an answer
or a retry its attempt (the only fetch of its page, `FlightOK`, whose page is not
queued, `LaunchedOK`). This is the part of `Terminates` that needs no fairness, and
it holds for any site; that the next step is taken is left to the run.

`ReachedByLinks` (`WithinReach`) and `SamePages` (`SameSetWhenShallow`) are about
paths, and `Within`, the pages that so many links reach, is a recursive function.
`Induction` makes it available to the prover (below); the lemmas `WithinSteps`,
`WithinGrows`, `Farther` and `Levels` are what the proof knows of it. On top of
`Inv` there is a second invariant, `ReachInv`:

- every page queued or in flight is reached by as many links as its depth says,
  and every page yielded is where one within reach ended (`Reachable`,
  `YieldedReached`), which gives `WithinReach`;
- while the root is to come nothing else is (`RootFirst`); with one fetch at a time
  depths never fall along the frontier and differ by at most one among all that
  is to come (`OneAtATime`);
- if nothing cut the crawl short (`Uncut`: no failure, no 304, no page robots.txt
  forbids) and either fetches go one at a time or the depth is at most two
  (`Shallow`), each page is queued at the *least* depth at which it can be reached
  (`Shortest`), a page that was dealt with above the last depth has all its links
  in the visited set (`Expanded`), and one that was served was yielded unless the
  index filter refuses it (`YieldedAll`).

At the end nothing is queued or in flight, so by induction on the number of links
every page within reach was queued, answered and yielded, and no other was.
Two facts of the code are part of this: a page where redirects end does not
itself redirect (`Site.final` is idempotent: what the client was led to answered
with a body), and the links of a page that answered 304 are the `known_edges`
handed over for it, if there are any.

`Remote_proofs`, for any numbers of publishers, replicas, images, generations
and faults (`RemoteAssumption`): `Types`, `Complete` (`HeadHasImage`),
`Remembered` (`SeenIsHeld`) and `OneLoadedWins` (`LoadedOneWins`). None of them is
inductive alone. The invariant adds, for each process:

- `Known`: a HEAD read or written earlier is the current one or has a smaller
  token, so a swap that succeeds works from the current HEAD (`SwapFacts`);
- `CallOK`: the image behind a pending swap is in the store *as long as that swap
  can succeed*, and a pending delete is of an older generation. This is what
  keeps HEAD whole when a delete of one publisher overlaps an upload of another;
- `Derives`: an index that was loaded, whose owner has not published again after
  an error, derives from the HEAD its call works from.

Every action splits the same way: what it does to the store (`StoreStep`) keeps
the facts of every other process (`OthersOK`), and what it does to the locals of
its own process is checked there. The four ways a call can end in an error share
one lemma (`FaultInv`), whose only delicate case is a swap that took effect
although its response was lost. The invariant was checked with TLC before it was
proved, on the instance of the `remote` run.

`PublishIsOneWrite`: `Spec => RegisterSpec`, so that all of the above hangs together
as one statement. The refinement needs one more fact, `NotAhead`: what an index
derives from is not ahead of HEAD, nor of the HEAD whose image is being fetched
(generations only grow, `StoreGrows`); hence no load goes back. Each action has a
lemma that names the step of the register it is. Most are `Note`: what a process
may come to remember is something it knew or what is or was current
(`KnowsStep`), and an upload or a removal leaves what HEAD names as it is
(`RegisterStands`, which rests on `HeadHasImage`). A swap that takes effect,
answered or not, is the one `Write` (`SwapWrites`): `SwapFacts` says that it is
over the current HEAD, and that its image is complete. The four ways to fail are
a note, a restart or a write nobody learns of (`FaultRefines`).

The pacing, in `Crawl_proofs` too, for any fetches, hosts, intervals, back-offs and
pauses of the stream: `Spaced` (`SpacedUnlessOverdue`) and `Rate` (`AtTheRate`). The
invariant `PacerInv` follows a slot from where it is handed out to where it is
used. `SlotsAhead`: the slot of a fetch that is not overdue has not passed, and the
next free one of its host is an interval later. `SlotsApart`: two such slots are an
interval apart. A pause breaks neither: what it makes late becomes overdue, and
leaves the two. `Rationed` is what pauses cannot break: every slot handed out, kept
or not, moved the next one, so the slots that come due by any instant are no more
than one each interval (a cardinality argument), and none is sent before it is due.

`GitHubSync_proofs`, for any tree, concurrency, batch size, token lifetimes and
number of pushes and syncs (`FetchAssumption`, `SyncAssumption`):

- `SingleFlight` (`MintedWhenStale`) and `NeverExpired` (`SentUnexpired`), from one
  invariant of the fetcher: whoever holds the lock found the token stale when it
  took it, and the time since it asked is at most `Latency`, so the end the
  provider believes in is late by no more than that, which the buffer covers.
- `SyncedIsCurrent` (`HeldIsCurrent`), for any history of pushes, reverts among
  them. The invariant `SyncInv` has four parts besides types. `PastOK`: what the
  listing and the tags of the index name are contents the file has had. `TagsTrue`:
  *if* a SHA that is the tag of a file is also the branch's, the bytes held are
  those of that SHA, in either of two cases: the file was not put back, since
  bytes that came after the listing are stored under an older SHA, which the branch
  has left; or the entry came in a sync in which the file did not change, since
  then the listing and the blob were of one content. A page of a batch is followed
  to where it is stored by `PageOK`. `FlightOK`: what is queued or in flight was
  listed. `QuietOK`: while the branch stands still, each file meant is queued, in
  flight, in the pending batch or current. What neither case of `TagsTrue` covers
  is the exception of the property, and there the code is wrong (section 5). The
  hypothesis `Understood`, that a spelling admits the files its author meant, is
  what the configurations of the `sync` run test.
- `EveryFileOnce` (`Accounted`). The invariant `CountInv` says where a listed file
  is: queued, in flight, in the pending batch, reported, or failed. The first four
  are disjoint (`Apart`), and the files in them (`Present`) with the number of
  failures are as many as were listed. A step moves a file from one place to the
  next and keeps the sum; only a failure takes one out, and raises the number. A
  flush reports each file once since no file is in a batch twice (`FlushTold`).
  The hypothesis is `UnderstoodExactly`: a spelling admits the files its author
  meant and no other.

`KnowledgeBase_proofs`, for any writers, pages, contents and bounds
(`KnowledgeBaseAssumption`, `RecordAssumption`: nothing is not a node or a
HEAD): `Agreement` (`HalvesAgree`), `UnchangedHeld`
(`UnchangedIsHeldWhenAgreed`), `GraphGrows` (`NothingForgotten`) and
`PublishedWhole` (`PublishCompletes`). The invariant `Inv` is `TypeOK` and, for
each writer, two parts:

- `LocalOK`: `HalvesAgree` speaks of a writer between calls only. While a crawl or
  a refresh is under way its halves differ, and they differ *exactly in the
  outcomes not yet folded in* (`OutcomeOK`, `AgreedOK`): a page told as stored is
  in the index and not yet in the graph, one told as removed has left the index,
  of any other page both say the same. Folding in the outcomes then restores
  agreement, whatever mixture of answers came before. Outside a call there are
  none, and a publish whose links half is through remembers a HEAD that is the
  writer's index.
- `OwnerOK`: the holder of the lease, once it has pulled, knows every page of the
  published graph, and after shipping the graph the published one is its own.
  Nobody else replaces the graph, so no page is lost in takeovers and crashes.

There is one lemma per action; `Kept` says once why a step of one writer leaves
the facts of the others alone. The work is in a publish that is cut off while
its links half is in flight (`InFlightFacts`, `EndedInv`), which may or may not
take effect. `Inv` was checked with TLC on the instance of the `kb` run before it
was proved.

`LinkIndex_proofs`, for any finite set of pages and any contents, images, options
and batch sizes (`LinkIndexAssumption`): `SearchesReadTheIndex` (`ReadsCurrent`),
`ConfirmsWhatIsHeld` (`NotModifiedConfirms`), `EveryLinkAccounted` (`Accounted`),
`ReportsAreTrue` (`ReportedIsSo`) and `NoLinkLost` (`EvictionJustified`). The invariant
has, besides the types and the properties themselves, these parts:

- `RepsOK`: exactly one of the two representations holds the documents, during a
  call it is the builder, and a snapshot is of the builder and never outlives the
  start of a call that changes it;
- `PlanOK` and `OnceOK`: the links of a plan still to be answered are of pages
  the builder has, with the tags it has for them; and a page of a refresh is in
  one place, to be answered, in the batch or in the report, never twice. So an
  answer moves one link from the plan into one count, and what a chunk reports is
  not undone by a later one;
- `TagsOK`: a tag names the content it came with, in the index and in a batch.
  That the images opened have this too is the hypothesis of `ConfirmsWhatIsHeld`
  (`TagsNameContents`): the index cannot know it of a file somebody else wrote;
- `LocalsOK`: only a refresh has links to fetch, and a call that is over leaves
  neither a batch nor a report behind.

A batch is one step of the model that upserts any number of pages, written as a
recursive function over the batch (`FlushedUpTo`, `RefreshedUpTo`): what is true
of the documents before it is shown to pass from each upsert to the next
(`FlushedSteps`, `RefreshedSteps`).

`Index_proofs`, for any documents, dimension, metric and queries
(`IndexAssumption`, `SearchAssumption`, `LookupAssumption`), in six parts:

- *Results.* A result is a sequence of scored documents, and the model sorts by
  counting: the place of a document is the number of those ahead of it
  (`Positions`). `DenseScan`: the scan that offers one row after another to a heap
  of k returns the k best rows the filter allows, in order. The invariant of the
  scan is `Best`: the heap has the k best of the rows seen, and since ids ascend, a
  row that ties with the worst of them is rightly turned away (`Offered`).
- *Tiers.* `TwoTiers`: the shortlist is the k nearest in sign (`FirstIds`), all
  documents when it is as long as the corpus, and rescoring it gives the exact
  order. `EightBits`: a code is its component within half a step (`Rounded`) and
  never needs the clamp (`CodeClose`), so products are as close (`SumsClose`).
- *Life.* `AlwaysFaithful` (`Faithful`) from the invariant `Inv` (`DocumentsKept`): the
  builder has an entry for each document put (`Entered`: its metadata, vector and
  links, and its terms in any order), an index in memory *is* the one assembled
  from the documents, and an image, in memory or saved, *is* their serialization
  (`Filed`). `Faithful` alone is not inductive: it says what a file opens to, not
  what is in it, and an index that was opened is saved again as the image it came
  from. There is a lemma per action; three facts carry them.
  `FileBack`: a file opens exactly when its compressed sections keep to the two limits of their expansion, and
  then to the documents. Each reader is shown to give back what was written and to
  leave what follows (`FieldBack`, `DocBack`, `PostingBack`, `RowsBack`), and what is
  read n times collects n values (`ReadingAdds`). `MetaFramed`: a metadata section
  that lost its end is refused wherever it was cut, because the cut lies in one
  document, in one field of it, and the reader of that field fails (`CutEarly`,
  `FieldShort`, `StoppingStops`); TLC checks this for one document only.
  `TermsBack`: the postings give back how often each document has each term
  (`TimesOften`, `RepeatedOften`). That is where `IndexAssumption` is needed:
  extraction hands over at most `MaxExtracted` terms (`MAX_BM25_TERMS`), which is
  below `MaxTf`, the largest frequency; a longer document would come back with
  fewer. That terms come back in another order is harmless, since `Build` depends
  on how often they occur only (`SameBuild`).
  `TiersAlwaysExact` (`TiersExact`) follows from `Inv` and `TwoTiers`. `Inv` was
  checked with TLC on the instance of the `index` run before it was proved.
- *Related pages.* `RelatedAlwaysExact` (`RelatedExact`), for any links, dangling,
  repeated and to the page itself. `Inv` does not carry it: a record whose key an
  earlier one has would draw that one's links. `KeysInv` adds that no key is there
  twice (`KeysDistinct`), since `upsert` replaces what has the key and `remove` moves
  one document only; so the URL map leads from every key to its document
  (`UrlsLead`). Then each resolved list has a page as often as the links of the
  documents say (`OutOften`, `InOften`, `Resolved`), a tally over a list counts each
  page as often as it is there (`TallyCounts`), and the tallies over the parents add
  up, parent by parent, to the sum over all documents of the definition
  (`SharedNext`, `ParentsTallied`, `ScoresCounted`).
- *Searches.* `SearchAlwaysExact` (`SearchExact`), for any queries, filters, weights of
  the arms, candidate pools and boosts. Of the words of a query each counts once
  (`TermsOnce`), each finds its posting if it has one (`TermAdded`), and a
  posting adds a word's weight to every document that has it and is allowed
  (`Accumulated`): so the postings give each document the sum of the definition,
  and every document that has one of the words (`SparseScan`). A filter that admits
  all is not evaluated, and one that is gives the documents it says
  (`Prefiltered`). `AmongRank` turns places in a list into the ranks of the
  definition, so that the fusion of two lists gives each document what its two
  ranks earn (`TwoLists`), and `PoolLeads` says that the first n of a ranking are the
  ranking of the n first, so a list that is cut is the ranking of the documents the
  definition keeps. `BoostCounted` counts a
  neighbour as often as links lead to and from it, with the resolved lists of
  `Resolved`, although the code walks the neighbours. The steps of a search are then
  those of its definition (`ArmsLead`, `FusedIs`, `FusedExpected`).
- *Lookups.* `LookupAlwaysFused` (`LookupFused`), for any ranked lists of the graph
  store that have no page twice (`LookupAssumption`; the store is external). The
  link half's list has every page once because a search returns a document once
  (`ExpectedDrawn`, from `SearchExact`'s lemmas) and no two documents have one key
  (`KeysInv`): with two records of one URL the later one would overwrite the link
  rank of the earlier, and the score would no longer be what the ranks earn. The
  invariant of the loop over the link half is `Fused`: the hits are the pages of the
  graph's list and of the links so far, each once, each with its places in both and
  the score these earn (`GraphFused`, `LinkAdded`, `LinksAdded`). Sorting and cutting
  neither loses a hit nor repeats one, since every place is taken once (`PagePlaces`,
  `BestPicked`), and the number of hits is that of the pages (`FusedCount`).

  `SparseScan`, `SearchAlwaysExact` and `LookupAlwaysFused` have a hypothesis, `WeightType`: the weight BM25 gives a word in a
  document is a number. It is a hypothesis and not an assumption of `Ranking`
  because it speaks of all corpora and lengths, over which TLC cannot run; the
  weights of the `index` run (`MCWeight`) are quotients of numbers that are not
  zero. Nothing else is asked of the weights: a weight of zero or below leaves a
  document found.

`Induction` is what these proofs and those of `Crawl` use for recursion and
induction. The library's theorems take the predicate as an operator, which the
provers cannot instantiate. Here the predicate is a *set* of numbers and the step
of a recursion a *function*: `LeastOf` gets a least element from the
well-foundedness of `<`, `UpTo` and `Always` are induction, and `Recursion` and
`RecursionOnNat` say that a recursive function exists, so that its defining
equation may be used. `FoldExists` and `Parts` are the same for a function that
folds a finite set and for induction over its subsets: what a sum or a heap is
after any part of the corpus. The second half of the module is about sequences (how
they are cut and joined, how often and where a value occurs in them) and about sums.

Only model-checked: the pages family (`OneEntryPerPage`, `ReadAsWritten`), whose
scanners are recursive operators, which cost the prover its SMT backend, and whose
texts are read with `SelectSeq`, an operator of the library it knows nothing of; and
liveness (`Terminates`, `ReplicasCatchUp`, `SyncEnds`), which is beyond it.

## 5. Where code and documentation differ

The first three are runs that find the difference (`findings` in `PROJECT.json`
quotes the text). For the next five the modules state the property that the text
asks for; TLC finds it violated when it takes the place of the properties of the
configuration named.

1. `remote_first`: of two publishers starting from the same state exactly one
   is said to win. Two that found nothing published both do, because no HEAD is
   remembered for "nothing there" and `publish` reads it afresh.
2. `kb_torn`: pages counted as unchanged are said to be existing links. When the
   graph half of a publish goes through, the links half does not, and the writer
   restarts, the next crawl sends validators for pages its index does not hold;
   they answer 304, are counted as unchanged and stay out of the index for as
   long as the site does not change them. (`refresh_due` does not help: it
   refreshes only pages the index holds.)
3. `pacing_held`: request starts are said to be at least the interval apart
   (`crawl.rs:432`). The delay is slept inside the fetch, and while the consumer
   holds the stream (the facade's own embeds there) or the fill loop fetches a
   robots.txt, nobody polls it: requests that became due meanwhile are sent
   together.
4. `ForbiddenNotYielded` (`crawl.cfg`): `respect_robots` is said to honour the
   rules of a host (`crawl.rs:152`). The verdict is on the URL that was queued;
   where a redirect ends, only the scope is looked at again (`crawl.rs:716`), so a
   page that a crawl has just skipped as forbidden is requested by the client,
   and yielded, when another page redirects to it.
5. `StoredUrlLeadsBack` (`pages.cfg`): canonicalization is said to be idempotent,
   lest a URL that round-trips through the index acquire another key
   (`tests/regression.rs:79`, which tries three URLs without this case). `/a//` is
   stored as `/a/` under the key of that string; a refresh parses `/a/` and gets
   the key of `/a`. A 304 then touches the entry of `/a`, or none, a 404 removes
   that one, and changed bytes are added as another entry. The bridge keys the
   graph's node by the stored URL too (`bridge.rs:153`), so the two halves disagree
   about that page.
6. `ShaIsChangeToken` (`sync.cfg`): an entry whose SHA matches is said to be
   unchanged (`github.rs:8`). Blobs are fetched by the name of the branch and stored
   under the SHA of the listing (`github.rs:526`); when a file changes in between
   and is put back later (a reset, a revert to the same bytes), the other content
   is held and not fetched again until the file changes anew.
7. `MeantIsListed` (`sync.cfg` with `Configs <- MCSpaced`): both spellings of a
   repository are said to normalise to one (`github.rs:46`). The segments of the URL
   form stay percent-encoded and are compared with the plain paths of the tree: a
   subdirectory with a space in its name lists nothing, and the sync succeeds.
8. `DeadIsEvicted` (`linkindex.cfg`): 404 and 410 are said to be eviction
   candidates (`facade.rs:965`). The HTTP fetcher reports them as `Error::Http`
   (`http.rs:190`), which is filed as transient.

Seen while modelling, without a run of their own:

*Crawl*

- A test says the result set is independent of concurrency. With several
  fetches in flight a page may be queued first on a longer path, keeps that
  depth, and its links can fall past `max_depth`.
- `known_edges` are said to keep coverage on a 304. Only edges to indexed pages
  are handed over, so a page behind a crawled but unindexed one is not reached.
- `max_pages` is called a hard cap on pages fetched; failures and 304 answers
  give their budget back, so it bounds bodies, not requests.
- Two links that redirect to one page yield that page twice; the upsert makes
  the second harmless.
- A retry sleeps for its back-off without a slot and may coincide with another
  request to the host.

*Facade, remote, knowledge base*

- A link past the retention cap is removed without a page outcome, although
  `PageChange::Removed` covers "aged out".
- `update` does not advance `fetched_at` of a page it finds unchanged.
- After an upload whose swap never happened, the key of the next generation is
  taken by an orphan image; a restarted publisher with other contents cannot
  create it.
- `materialize_builder` takes the opened index before the conversion can fail;
  on such an error neither representation is left.
- After any failure of `publish` the cached HEAD is forgotten, so calling it again
  without a reload wins over whatever was published meanwhile.
- A refresh resolves relative links against the stored URL, which has lost a
  trailing slash, and not against where a redirect led: they may become other
  pages than in the crawl.
- When the graph half of a publish fails, `try_join` drops the links half at an
  await. If its swap had been sent, `Remote` does not learn of it and does not
  forget HEAD either: the next publish is fenced although there is no other
  writer, or, should the index be again what the remembered HEAD names, returns
  without an upload while the bucket holds the dropped one.
- A crawl that fails or is dropped after a batch leaves pages in the index that
  the graph never hears of: the next crawl finds them unchanged, and touching
  a node the graph does not have does nothing.
- A page that is due but fails, or that the index does not hold, is not touched in
  the graph and stays due.
- A writer whose lease was taken over fails on the graph half, but its links half
  may still go through, if the new writer has not published yet.
- `KnowledgeBase::related` does not fill in a missing title from the other half, as
  `lookup` does.

*Sources and fetching*

- The module says a sync costs one request when nothing changed. A file fetched
  after the branch moved, one that a refresh has given an HTTP tag, and one
  without a word to index are fetched again by every sync until their SHA changes.
- A file deleted from the repository is never removed from the index.
- A `/blob/` URL of a file is taken, its path becomes the subdirectory, and since
  only paths below it are admitted, nothing is.
- An answer 401 does not make the provider drop its token.
- PDF and unknown kinds fetched over HTTP are read as plain text.

*Index and retrieval*

- "NaN scores sort as smallest" (`dense.rs`) does not hold for `total_cmp`'s order.
- The postings are said to seed a rebuild without loss: that holds only because
  extraction caps a page at 4096 terms.
- A section that compresses by more than 1024 is written and then refused.

*Pages*

- Linked images lose the outer link. Text in nested content elements is counted
  several times, text outside content elements (`div`, `pre`) not at all.
- `path_tags` strips an extension from every segment, not only the last.
- A Markdown page served as text/plain under a path with a trailing slash is read
  as plain text.
- The first line of a plain text is cut at byte 120, which may not be a character
  boundary.

## 6. What is not modelled

- Byte layouts, checksums, alignment and compression of the image; the container
  is a crate of its own. Tokenising characters into words, parsing the DOM,
  joining URLs and robots.txt syntax: data that the properties treat as values.
- Language detection, snippets, keywords and the text handed to the embedder.
- Floating point: scores are exact here, rounding and NaN left out. Embedding
  (`embed/`) is numeric throughout.
- `FsSource`: a sequential directory walk with no state. Python bindings, benches,
  fuzz targets, example and scripts: wrappers and drivers.
- How a status code becomes an `Error` in `HttpFetcher` is data of its callers'
  models.
- Freshness intervals, `max` and replicas of the knowledge base; the due list is
  any set of live pages.
- The request a redirect leads to is the client's: models see where it ended, not
  the hops, and neither the pacer nor the visited set of the code does.
- File names with `#` or `?`: `raw_url` writes them into a URL unencoded, and the
  blob asked for is another one. Names in the model have no such character.
- In `UpdateBuilder::run`, folding 304 answers into the report.
- A token source that never answers: nothing in the code bounds the wait.

## 7. Plan

Done, in order of importance: Crawl, CrawlPacing, IndexBuilder with LinkMap,
LinkIndex, Remote, KnowledgeBase; the index family; the sync family; the pages
family; proofs of Crawl, CrawlPacing, IndexBuilder, LinkIndex, Remote with its
refinement of Register, GitHubSync, KnowledgeBase and Index. Left:

1. `KnowledgeBase`: the due list with its intervals and `max` (does a page that
   never answers keep others from being refreshed?), and replicas that show one
   half newer than the other.
2. Proofs about the pages family, first `OneEntryPerPage`, which needs its URL
   spellings without recursion.
