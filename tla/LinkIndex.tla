------------------------------ MODULE LinkIndex ------------------------------
(***************************************************************************)
(* The facade: one set of documents in one of two representations (the     *)
(* image it was opened from, or a mutable builder with a cached search     *)
(* snapshot), and the two long operations that change it, ingest_from and  *)
(* refresh_with.                                                           *)
(*                                                                         *)
(* Both operations hold the index by &mut: no reader and no other          *)
(* operation runs in between.  But each awaits fetches and the embedder,   *)
(* fails on an error there, and can be dropped at any await, and what it   *)
(* did so far stays done.                                                  *)
(*                                                                         *)
(* A document is what the properties tell apart: content (its hash),       *)
(* entity tag, time of the last check, pin.  A tag names the content it    *)
(* was sent with.  `planned', `checked', `dead' and `yields' are history.  *)
(***************************************************************************)
EXTENDS Naturals, Sequences, FiniteSets

CONSTANTS
  Pages,        \* canonical URL keys
  Contents,     \* content hashes of pages with something to extract
  NoTag,        \* "the server sent no ETag"
  Blank,        \* the content of a page with nothing to extract
  NoIndex,      \* None, for a representation
  Images,       \* what an image to open or reload may hold
  Options,      \* the RefreshOptions a refresh may be run with
  EmbedBatch,   \* ingest: pages embedded per model call
  RefreshBatch, \* refresh: the same, DEFAULT_EMBED_BATCH
  MaxYields,    \* bound on the pages one source yields
  Horizon       \* bound on the clock

Tags == Contents \cup {NoTag}

Document == [content_hash : Contents, etag : Tags, fetched_at : 0..Horizon,
             pinned : BOOLEAN]
Documents == UNION {[urls -> Document] : urls \in SUBSET Pages}

\* None for max_age is a number no age exceeds.
RefreshOptions == [urls : SUBSET Pages, ttl : Nat, max_age : Nat,
                   evict_unreachable : BOOLEAN, concurrency : Nat]

ASSUME LinkIndexAssumption ==
  /\ IsFiniteSet(Pages)
  /\ Blank \notin Contents /\ NoTag \notin Contents
  /\ NoIndex \notin Documents
  /\ Images \subseteq Documents
  /\ Options \subseteq RefreshOptions /\ Options # {}
  /\ EmbedBatch \in Nat \ {0} /\ RefreshBatch \in Nat \ {0} /\ MaxYields \in Nat /\ Horizon \in Nat

VARIABLES
  now,         \* the clock
  opened,      \* LinkIndex::opened
  builder,     \* LinkIndex::builder
  cached,      \* LinkIndex::cached, the search snapshot
  task,        \* "idle", "ingest" or "refresh"
  pin,         \* ingest: the pin argument
  opts,        \* refresh: its options
  started,     \* refresh: now_ms() at its start
  stale,       \* refresh: planned links not launched yet, [url, etag]
  in_flight,   \* refresh: conditional fetches in flight, [url, etag]
  pending,     \* pages extracted and waiting for the embedder
  report,      \* the counts and per-page outcomes so far
  planned,     \* history: how many links this refresh set out to act on
  dead,        \* history: unpinned links that answered gone or denied
  yields       \* history: how many pages this ingest received

index == <<opened, builder, cached>>
work  == <<pin, opts, started, stale, in_flight, pending>>
history == <<planned, dead, yields>>
vars == <<now, index, task, work, report, history>>

EmptyReport ==
  [added |-> 0, updated |-> 0, unchanged |-> 0, skipped |-> 0, removed |-> 0,
   failed |-> 0, pages |-> {}]

NoDocuments == [p \in {} |-> p]
AnyOptions == CHOOSE o \in Options : TRUE

\* Opened from an image, or created empty.
Init ==
  /\ now = 0
  /\ \/ /\ opened \in Images
        /\ builder = NoIndex
     \/ /\ opened = NoIndex
        /\ builder = NoDocuments
  /\ cached = NoIndex
  /\ task = "idle"
  /\ pin = FALSE
  /\ opts = AnyOptions
  /\ started = 0
  /\ stale = {} /\ in_flight = {}
  /\ pending = <<>>
  /\ report = EmptyReport
  /\ planned = 0 /\ dead = {} /\ yields = 0

\* An operation is over: its locals are gone, its report is the caller's.
Return ==
  /\ task' = "idle"
  /\ pin' = FALSE
  /\ opts' = AnyOptions
  /\ started' = 0
  /\ stale' = {} /\ in_flight' = {}
  /\ pending' = <<>>
  /\ report' = EmptyReport
  /\ planned' = 0 /\ dead' = {} /\ yields' = 0

\* The documents the index holds.
Held == IF opened # NoIndex THEN opened ELSE builder

\* The documents a search runs against.
Searched == IF opened # NoIndex THEN opened
            ELSE IF cached # NoIndex THEN cached ELSE builder

Put(docs, url, doc) ==
  [p \in DOMAIN docs \cup {url} |-> IF p = url THEN doc ELSE docs[p]]

Without(docs, urls) == [p \in DOMAIN docs \ urls |-> docs[p]]

TouchAt(docs, url, time) ==
  IF url \in DOMAIN docs THEN [docs EXCEPT ![url].fetched_at = time] ELSE docs

\* An outcome counted under one field, and reported for its page.
Counted(rep, field, url) ==
  [rep EXCEPT ![field] = @ + 1, !.pages = @ \cup {<<url, field>>}]

-----------------------------------------------------------------------------
(***************************************************************************)
(* The representations.                                                    *)
(***************************************************************************)

\* Mutant: the snapshot outlives the call that is about to change the builder.
Invalidated_Kept == cached

Invalidated == NoIndex

\* materialize_builder, leaving docs in the builder.
Materialize(docs) ==
  /\ builder' = docs
  /\ opened' = NoIndex
  /\ cached' = Invalidated

\* read_index, for a search, related or export: builds the snapshot.
Read ==
  /\ task = "idle"
  /\ opened = NoIndex
  /\ cached = NoIndex
  /\ cached' = builder
  /\ UNCHANGED <<now, opened, builder, task, work, report, history>>

\* Mutant: the builder stays beside the image made from it.
FreezeLeaves_Builder == builder

FreezeLeaves == NoIndex

Freeze ==
  /\ task = "idle"
  /\ builder # NoIndex
  /\ opened' = builder
  /\ builder' = FreezeLeaves
  /\ cached' = NoIndex
  /\ UNCHANGED <<now, task, work, report, history>>

\* reload_from_bytes with a valid, compatible image; any other changes nothing.
Reload ==
  /\ task = "idle"
  /\ opened' \in Images
  /\ builder' = NoIndex
  /\ cached' = NoIndex
  /\ UNCHANGED <<now, task, work, report, history>>

\* pin and unpin, over the links a prefix selects.
SetPinned(prefix, pinned) ==
  /\ task = "idle"
  /\ Materialize([p \in DOMAIN Held |->
       IF p \in prefix THEN [Held[p] EXCEPT !.pinned = pinned] ELSE Held[p]])
  /\ UNCHANGED <<now, task, work, report, history>>

-----------------------------------------------------------------------------
(***************************************************************************)
(* ingest_from.                                                            *)
(***************************************************************************)

StartIngest ==
  /\ task = "idle"
  /\ task' = "ingest"
  /\ Materialize(Held)
  /\ pin' \in BOOLEAN
  /\ UNCHANGED <<now, opts, started, stale, in_flight, pending, report, history>>

Extracted(url, content, tag) ==
  [url |-> url, content_hash |-> content, etag |-> tag]

IsUnchanged(url, content) ==
  url \in DOMAIN builder /\ builder[url].content_hash = content

IsEmpty(content) == content = Blank

\* The source yields a page: unchanged, without content, or to be embedded.
Receive(url, content, tag) ==
  /\ task = "ingest"
  /\ Len(pending) < EmbedBatch
  /\ yields < MaxYields
  /\ yields' = yields + 1
  /\ \/ /\ IsUnchanged(url, content)
        /\ report' = Counted(report, "unchanged", url)
        /\ UNCHANGED pending
     \/ /\ ~IsUnchanged(url, content)
        /\ IsEmpty(content)
        /\ report' = Counted(report, "skipped", url)
        /\ UNCHANGED pending
     \/ /\ ~IsUnchanged(url, content)
        /\ ~IsEmpty(content)
        /\ pending' = Append(pending, Extracted(url, content, tag))
        /\ UNCHANGED report
  /\ UNCHANGED <<now, index, task, pin, opts, started, stale, in_flight,
                 planned, dead>>

\* IndexBuilder::upsert, as LinkMap has it: new content replaces the record,
\* but a pin outlives it; the same content leaves the record alone.
UpsertOutcome(docs, page) ==
  IF page.url \notin DOMAIN docs THEN "added"
  ELSE IF docs[page.url].content_hash = page.content_hash THEN "unchanged"
  ELSE "updated"

\* Mutant: the entity tag of an indexed page is never replaced.
TagOf_First(docs, page) ==
  IF page.url \in DOMAIN docs THEN docs[page.url].etag ELSE page.etag

TagOf(docs, page) == page.etag

Upserted(docs, page, time, pinned) ==
  IF UpsertOutcome(docs, page) = "unchanged" THEN docs
  ELSE Put(docs, page.url,
           [ content_hash |-> page.content_hash, etag |-> TagOf(docs, page),
             fetched_at |-> time,
             pinned |-> \/ pinned
                        \/ page.url \in DOMAIN docs /\ docs[page.url].pinned ])

\* What one page of a batch does to the documents and the report.
FlushPage(acc, page) ==
  [ docs |-> Upserted(acc.docs, page, now, pin),
    report |-> Counted(acc.report, UpsertOutcome(acc.docs, page), page.url) ]

\* flush_batch: once the embedder answered, every pending page is upserted,
\* one after the other.
FlushedUpTo[n \in 0..Len(pending)] ==
  IF n = 0 THEN [docs |-> builder, report |-> report]
           ELSE FlushPage(FlushedUpTo[n - 1], pending[n])

Flushed == FlushedUpTo[Len(pending)]

FlushFull ==
  /\ task = "ingest"
  /\ Len(pending) = EmbedBatch
  /\ builder' = Flushed.docs
  /\ report' = Flushed.report
  /\ pending' = <<>>
  /\ UNCHANGED <<now, opened, cached, task, pin, opts, started, stale,
                 in_flight, history>>

\* The source ended: the last batch, then the report.
FinishIngest ==
  /\ task = "ingest"
  /\ Len(pending) < EmbedBatch
  /\ builder' = Flushed.docs
  /\ Return
  /\ cached' = IF Flushed.report.added + Flushed.report.updated > 0
                 THEN NoIndex ELSE cached
  /\ UNCHANGED <<now, opened>>

-----------------------------------------------------------------------------
(***************************************************************************)
(* refresh_with.                                                           *)
(***************************************************************************)

\* Saturating: a stamp may lie ahead of this machine's clock.
Age(docs, p) ==
  IF docs[p].fetched_at > now THEN 0 ELSE now - docs[p].fetched_at

\* Mutant: a pin does not protect from the retention cap.
AgedOut_Pinned(docs, o) == {p \in DOMAIN docs \cap o.urls : Age(docs, p) > o.max_age}

AgedOut(docs, o) ==
  {p \in DOMAIN docs \cap o.urls : ~docs[p].pinned /\ Age(docs, p) > o.max_age}

StaleLinks(docs, o) ==
  {p \in (DOMAIN docs \cap o.urls) \ AgedOut(docs, o) : Age(docs, p) >= o.ttl}

\* The plan, and the evictions that need no fetch: counted, but without an
\* outcome of their own.  refresh_with reads the stored URL again and keys every
\* answer by that; pages here are those whose stored URL leads back to their
\* key, and Pages has the ones whose does not.
StartRefresh(o) ==
  LET docs == Held
  IN /\ task = "idle"
     /\ task' = "refresh"
     /\ opts' = o
     /\ started' = now
     /\ Materialize(Without(docs, AgedOut(docs, o)))
     /\ stale' = {[url |-> p, etag |-> docs[p].etag] : p \in StaleLinks(docs, o)}
     /\ report' = [EmptyReport EXCEPT !.removed = Cardinality(AgedOut(docs, o))]
     /\ planned' = Cardinality(AgedOut(docs, o) \cup StaleLinks(docs, o))
     /\ UNCHANGED <<now, pin, in_flight, pending, dead, yields>>

Slots == IF opts.concurrency = 0 THEN 1 ELSE opts.concurrency

CanLaunch == Cardinality(in_flight) < Slots /\ stale # {}

LaunchFetch(f) ==
  /\ task = "refresh"
  /\ CanLaunch
  /\ f \in stale
  /\ stale' = stale \ {f}
  /\ in_flight' = in_flight \cup {f}
  /\ UNCHANGED <<now, index, task, pin, opts, started, pending, report, history>>

Answered(f) ==
  /\ task = "refresh"
  /\ ~CanLaunch
  /\ f \in in_flight
  /\ in_flight' = in_flight \ {f}
  /\ UNCHANGED <<now, opened, cached, task, pin, opts, started, stale, planned,
                 yields>>

\* A 304: the server still serves what the tag names.
NotModified(f) ==
  /\ Answered(f)
  /\ f.etag # NoTag
  /\ builder' = TouchAt(builder, f.url, started)
  /\ report' = Counted(report, "unchanged", f.url)
  /\ UNCHANGED <<pending, dead>>

\* A body with nothing to extract: kept as it was, counted as unchanged.
ChangedBlank(f) ==
  /\ Answered(f)
  /\ builder' = TouchAt(builder, f.url, started)
  /\ report' = Counted(report, "unchanged", f.url)
  /\ UNCHANGED <<pending, dead>>

\* A body to be embedded, after the last answer.
Changed(f, content, tag) ==
  /\ Answered(f)
  /\ pending' = Append(pending, Extracted(f.url, content, tag))
  /\ UNCHANGED <<builder, report, dead>>

\* How HttpFetcher and conditional_fetch classify a final failure.
Classified(failure) == IF failure = "denied" THEN "gone" ELSE "transient"

Evictable(f) ==
  opts.evict_unreachable /\ f.url \in DOMAIN builder /\ ~builder[f.url].pinned

\* Mutant: a failed link is dropped from the report.
CountFailed_Silent == report

CountFailed == [report EXCEPT !.failed = @ + 1]

\* 401 and 403 ("denied"), 404 and 410 ("missing"), or anything else.
Failed(f, failure) ==
  /\ Answered(f)
  /\ dead' = IF failure # "error" /\ Evictable(f) THEN dead \cup {f.url} ELSE dead
  /\ \/ /\ Classified(failure) = "gone" /\ Evictable(f)
        /\ builder' = Without(builder, {f.url})
        /\ report' = Counted(report, "removed", f.url)
     \/ /\ ~(Classified(failure) = "gone" /\ Evictable(f))
        /\ report' = CountFailed
        /\ UNCHANGED builder
  /\ UNCHANGED pending

Drained == task = "refresh" /\ ~CanLaunch /\ in_flight = {}

Chunk ==
  SubSeq(pending, 1, IF Len(pending) < RefreshBatch THEN Len(pending)
                                                    ELSE RefreshBatch)

\* Mutant: the rest of the last chunk is forgotten.
Rest_Dropped == <<>>

Rest == SubSeq(pending, Len(Chunk) + 1, Len(pending))

\* Mutant: an unchanged body leaves the record alone, time of the check too.
Refreshed_NotTouched(docs, page) == Upserted(docs, page, started, FALSE)

\* A body that turns out identical leaves the record alone but for the time.
Refreshed(docs, page) ==
  TouchAt(Upserted(docs, page, started, FALSE), page.url, started)

\* What one changed page does to the documents and the report.
RefreshPage(acc, page) ==
  [ docs |-> Refreshed(acc.docs, page),
    report |-> Counted(acc.report,
                       IF UpsertOutcome(acc.docs, page) = "unchanged"
                         THEN "unchanged" ELSE "updated", page.url) ]

RefreshedUpTo[n \in 0..Len(Chunk)] ==
  IF n = 0 THEN [docs |-> builder, report |-> report]
           ELSE RefreshPage(RefreshedUpTo[n - 1], Chunk[n])

\* One chunk of changed pages: embedded in one call, then upserted.
UpsertChunk ==
  /\ Drained
  /\ pending # <<>>
  /\ builder' = RefreshedUpTo[Len(Chunk)].docs
  /\ report' = RefreshedUpTo[Len(Chunk)].report
  /\ pending' = Rest
  /\ UNCHANGED <<now, opened, cached, task, pin, opts, started, stale,
                 in_flight, history>>

FinishRefresh ==
  /\ Drained
  /\ pending = <<>>
  /\ Return
  /\ cached' = IF report.updated + report.removed > 0 THEN NoIndex ELSE cached
  /\ UNCHANGED <<now, opened, builder>>

-----------------------------------------------------------------------------

\* A fetch, extraction or embedding error ends the operation, or its future is
\* dropped at an await: what was done stays, what was pending is lost.
Abort ==
  /\ task # "idle"
  /\ Return
  /\ UNCHANGED <<now, index>>

Tick ==
  /\ now < Horizon
  /\ now' = now + 1
  /\ UNCHANGED <<index, task, work, report, history>>

Ingest ==
  \/ \E p \in Pages, c \in Contents \cup {Blank} :
       \E tag \in {c, NoTag} \cap Tags : Receive(p, c, tag)
  \/ FlushFull
  \/ FinishIngest

Answer(f) ==
  \/ NotModified(f)
  \/ ChangedBlank(f)
  \/ \E c \in Contents : \E tag \in {c, NoTag} : Changed(f, c, tag)
  \/ \E failure \in {"denied", "missing", "error"} : Failed(f, failure)

Refresh ==
  \/ \E f \in stale : LaunchFetch(f)
  \/ \E f \in in_flight : Answer(f)
  \/ UpsertChunk
  \/ FinishRefresh

Next ==
  \/ Read \/ Freeze \/ Reload
  \/ \E prefix \in SUBSET Pages, pinned \in BOOLEAN : SetPinned(prefix, pinned)
  \/ StartIngest
  \/ \E o \in Options : StartRefresh(o)
  \/ Ingest
  \/ Refresh
  \/ Abort
  \/ Tick

Spec == Init /\ [][Next]_vars

-----------------------------------------------------------------------------
(***************************************************************************)
(* Properties.                                                             *)
(***************************************************************************)

\* The shape of the facade's fields and of the locals of its operations.
TypeOK ==
  /\ now \in 0..Horizon
  /\ opened \in Documents \cup {NoIndex}
  /\ builder \in Documents \cup {NoIndex}
  /\ cached \in Documents \cup {NoIndex}
  /\ task \in {"idle", "ingest", "refresh"}
  /\ pin \in BOOLEAN
  /\ opts \in Options
  /\ started \in 0..Horizon
  /\ stale \subseteq [url : Pages, etag : Tags]
  /\ in_flight \subseteq [url : Pages, etag : Tags]
  /\ pending \in Seq([url : Pages, content_hash : Contents, etag : Tags])
  /\ report \in [ added : Nat, updated : Nat, unchanged : Nat, skipped : Nat,
                  removed : Nat, failed : Nat,
                  pages : SUBSET (Pages \X {"added", "updated", "unchanged",
                                            "skipped", "removed"}) ]
  /\ planned \in Nat
  /\ dead \subseteq Pages
  /\ yields \in 0..MaxYields

\* Exactly one representation holds the documents (read_index relies on it),
\* and a search snapshot never lags behind the builder, whatever operation
\* failed or was dropped half-way.
ReadsCurrent ==
  /\ (opened = NoIndex) # (builder = NoIndex)
  /\ Searched = Held

\* A stored tag names the stored content, and a fetch planned with a tag still
\* finds the record that had it when the answer comes: a 304 confirms what the
\* index holds.
NotModifiedConfirms ==
  /\ \A p \in DOMAIN Held : Held[p].etag \in {NoTag, Held[p].content_hash}
  /\ \A f \in stale \cup in_flight :
       f.url \in DOMAIN builder /\ builder[f.url].etag = f.etag

\* Each planned link ends in exactly one count of the report: evicted,
\* refreshed, unchanged or failed, whatever the order of the answers.
Accounted ==
  task = "refresh" =>
    report.updated + report.unchanged + report.removed + report.failed
      + Cardinality(stale) + Cardinality(in_flight) + Len(pending) = planned

\* What a refresh reports of a page is so in the index: a page checked is
\* stamped with the start of the refresh, so it is not stale again at once, and
\* a page removed is gone.
ReportedIsSo ==
  task = "refresh" =>
    \A outcome \in report.pages :
      LET p == outcome[1]
      IN IF outcome[2] = "removed"
           THEN p \notin DOMAIN builder
           ELSE p \in DOMAIN builder /\ builder[p].fetched_at = started

\* No step but a reload loses a link, unless it is unpinned and either past the
\* retention cap or answered gone: no failure, batch or cancellation does.
EvictionJustified ==
  [][\A p \in DOMAIN Held :
       p \notin DOMAIN Held' =>
         \/ Reload
         \/ /\ ~Held[p].pinned
            /\ p \in dead' \/ Age(Held, p) > opts'.max_age]_vars

\* What conditional_fetch says: a link that answers 404 or 410, or denies
\* access, is a candidate for eviction; when evict_unreachable is set and it is
\* not pinned, it leaves the index.
DeadIsEvicted == task = "refresh" => dead \cap DOMAIN builder = {}

=============================================================================
