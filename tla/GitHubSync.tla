----------------------------- MODULE GitHubSync -----------------------------
(***************************************************************************)
(* The sync of a GitHub repository into an index: one request lists the    *)
(* tree with the SHA of every blob, the files whose SHA the index has as   *)
(* its entity tag are revalidated, the others are fetched a few at a time  *)
(* and indexed in batches.  The repository moves meanwhile; between two    *)
(* syncs a refresh may fetch single files.                                 *)
(*                                                                         *)
(* The content of a file is a number, and its SHA is that number; the tag  *)
(* a raw fetch brings is another for each content.  A push brings a new    *)
(* content, takes the file away, or returns to a content it had before.    *)
(***************************************************************************)
EXTENDS HttpFetch, GitHubSpec, FiniteSets

CONSTANTS
  Files,        \* the entries of the tree, listed in an order of GitHub's own
  Entry,        \* by file: [type, path, size, kind, ext]
  Blank,        \* the contents without a word to index
  Configs,      \* the syncs: [spelling, limits, meant, provider, moves,
                \* syncs]: which files are meant, which change; bound: syncs
  Concurrency,  \* GitHubSource::concurrency
  Batch,        \* embed_batch
  MaxPushes     \* bound: changes of the repository

NoBlob == 0

ASSUME SyncAssumption ==
  /\ {Concurrency, Batch} \subseteq Nat \ {0}
  /\ IsFiniteSet(Files)
  /\ Requests = Files \cup {"ref", "tree"}
  /\ {"ref", "tree"} \cap Files = {}

VARIABLES
  config,       \* what the caller asked for
  spec,         \* GitHubSource::spec: <<the spelling, parsed>>, or <<>>
  head,         \* the repository: by file, the content or NoBlob
  pushes,       \* how often it changed
  held,         \* the index: by file, [blob, tag], blob NoBlob when not held
  phase,        \* where the sync stands
  listing,      \* the SHAs of the files listed and admitted
  queue,        \* to_fetch: the files not yet asked for
  pending,      \* the pages extracted and not yet embedded, with their content
  told,         \* by file, how many outcomes the report has
  failed,       \* failed_count
  syncs,        \* how many syncs have begun
  complete,     \* the last sync ran to its end
  past,         \* history: by file, the contents it has had
  moved,        \* history: the files that changed since the sync began
  returned,     \* history: the files whose content is one they had before
  unsettled     \* history: the files whose entry came in a sync in which they
                \* changed

sync_vars == <<config, spec, head, pushes, held, phase, listing, queue, pending, told, failed,
               syncs, complete, past, moved, returned, unsettled>>
history == <<past, moved, returned, unsettled>>
vars == <<fetch_vars, sync_vars>>

ShaTag(blob) == [sha |-> blob]
HttpTag(blob) == [etag |-> blob]
NotHeld == [blob |-> NoBlob, tag |-> ShaTag(NoBlob)]

Init ==
  /\ FetchInit
  /\ config \in Configs /\ provider = config.provider
  /\ spec = Parse(config.spelling)
  /\ head = [f \in Files |-> 1] /\ pushes = 0
  /\ held = [f \in Files |-> NotHeld]
  /\ phase = "idle" /\ listing = <<>> /\ queue = {} /\ pending = <<>>
  /\ told = [f \in Files |-> 0] /\ failed = 0
  /\ syncs = 0 /\ complete = FALSE
  /\ past = [f \in Files |-> {1}] /\ moved = {} /\ returned = {} /\ unsettled = {}

InFlight == {f \in Files : req[f].at # "idle"}

-----------------------------------------------------------------------------
(***************************************************************************)
(* Listing.                                                                *)
(***************************************************************************)

\* update_github and run: a spelling that is none is refused; discover clears
\* its records and asks for the default branch or, when a ref is given, for
\* the tree.
Start ==
  /\ phase = "idle" /\ syncs < config.syncs /\ spec # <<>>
  /\ phase' = IF spec[1].ref = <<>> THEN "ref" ELSE "tree"
  /\ Begin(phase')
  /\ told' = [f \in Files |-> 0] /\ failed' = 0
  /\ syncs' = syncs + 1 /\ moved' = {} /\ complete' = FALSE
  /\ UNCHANGED <<config, spec, head, pushes, held, listing, queue, pending, past, returned,
                 unsettled>>

\* The default branch is known; the tree is asked for next.
Resolved ==
  /\ phase = "ref" /\ Answerable("ref")
  /\ Over({"ref"})
  /\ phase' = "list"
  /\ UNCHANGED <<config, spec, head, pushes, held, listing, queue, pending, told, failed, syncs,
                 complete, history>>

AskTree ==
  /\ phase = "list"
  /\ Begin("tree")
  /\ phase' = "tree"
  /\ UNCHANGED <<config, spec, head, pushes, held, listing, queue, pending, told, failed, syncs,
                 complete, history>>

\* Mutant: a file that is held needs no fetch.
Known_Held(f) == held[f].blob # NoBlob

\* The validators that run collects are the tags of the index.
Known(f) == held[f].blob # NoBlob /\ held[f].tag = ShaTag(head[f])

\* The diff of the listing against the validators; the files found unchanged
\* are in the report when it is returned.
Listed ==
  LET admitted == {f \in Files : head[f] # NoBlob /\ Admit(Entry[f], spec[1].subdir, config.limits)}
  IN /\ phase = "tree" /\ Answerable("tree")
     /\ Over({"tree"})
     /\ phase' = "blobs"
     /\ listing' = [f \in admitted |-> head[f]]
     /\ queue' = {f \in admitted : ~Known(f)}
     /\ told' = [f \in Files |-> IF f \in admitted /\ Known(f) THEN 1 ELSE 0]
     /\ UNCHANGED <<config, spec, head, pushes, held, pending, failed, syncs, complete, history>>

-----------------------------------------------------------------------------
(***************************************************************************)
(* Fetching and indexing.                                                  *)
(***************************************************************************)

CanFill == Cardinality(InFlight) < Concurrency /\ queue # {}

\* The next file is asked for.
Fill(f) ==
  /\ phase = "blobs" /\ CanFill /\ f \in queue
  /\ Begin(f)
  /\ queue' = queue \ {f}
  /\ UNCHANGED <<config, spec, head, pushes, held, phase, listing, pending, told, failed, syncs,
                 complete, history>>

\* flush_batch: every pending page is embedded, upserted and reported.
Stored(batch) ==
  [f \in Files |-> LET hits == {i \in DOMAIN batch : batch[i].file = f}
                   IN IF hits = {} THEN held[f]
                      ELSE LET page == batch[CHOOSE i \in hits : TRUE]
                           IN [blob |-> page.blob, tag |-> ShaTag(listing[f])]]
FilesOf(batch) == {batch[i].file : i \in DOMAIN batch}
Flush(batch) ==
  /\ held' = Stored(batch)
  /\ told' = [f \in Files |-> told[f] + Cardinality({i \in DOMAIN batch : batch[i].file = f})]
  /\ pending' = <<>>
  /\ unsettled' = (unsettled \ FilesOf(batch)) \cup (FilesOf(batch) \cap moved)

\* A blob is in and goes through ingest_from: bytes the index has are
\* unchanged, tag and all; a page without a word is skipped; others wait for
\* their batch.
Arrive(f) ==
  /\ phase = "blobs" /\ ~CanFill /\ Answerable(f) /\ head[f] # NoBlob
  /\ Over({f})
  /\ IF held[f].blob = head[f] \/ head[f] \in Blank
       THEN told' = [told EXCEPT ![f] = @ + 1] /\ UNCHANGED <<held, pending, unsettled>>
     ELSE LET batch == Append(pending, [file |-> f, blob |-> head[f]])
          IN IF Len(batch) = Batch THEN Flush(batch)
             ELSE pending' = batch /\ UNCHANGED <<held, told, unsettled>>
  /\ UNCHANGED <<config, spec, head, pushes, phase, listing, queue, failed, syncs, complete, past,
                 moved, returned>>

\* Mutant: what failed is queued again.
BlobFailed_Again(f) ==
  /\ phase = "blobs" /\ ~CanFill /\ Failable(f)
  /\ Over({f})
  /\ queue' = queue \cup {f}
  /\ UNCHANGED <<config, spec, head, pushes, held, phase, listing, pending, told, failed, syncs,
                 complete, history>>

\* Mutant: a failed file is reported as a page and counted as well.
BlobFailed_Twice(f) ==
  /\ phase = "blobs" /\ ~CanFill /\ Failable(f)
  /\ Over({f})
  /\ failed' = failed + 1 /\ told' = [told EXCEPT ![f] = @ + 1]
  /\ UNCHANGED <<config, spec, head, pushes, held, phase, listing, queue, pending, syncs,
                 complete, history>>

\* A blob that cannot be had, or no token for it, is counted.
BlobFailed(f) ==
  /\ phase = "blobs" /\ ~CanFill /\ Failable(f)
  /\ Over({f})
  /\ failed' = failed + 1
  /\ UNCHANGED <<config, spec, head, pushes, held, phase, listing, queue, pending, told, syncs,
                 complete, history>>

\* The stream ends; the last batch is flushed and the report returned.
Finish ==
  /\ phase = "blobs" /\ queue = {} /\ InFlight = {}
  /\ Flush(pending)
  /\ phase' = "idle" /\ complete' = TRUE
  /\ UNCHANGED <<fetch_vars, config, spec, head, pushes, listing, queue, failed, syncs, past, moved,
                 returned>>

\* A listing that fails or is truncated, an embedding that fails, or a caller
\* that drops the future ends the sync without a report: what was flushed
\* stays.
Abort ==
  /\ phase # "idle"
  /\ Over(Requests)
  /\ phase' = "idle" /\ queue' = {} /\ pending' = <<>>
  /\ UNCHANGED <<config, spec, head, pushes, held, listing, told, failed, syncs, complete, history>>

-----------------------------------------------------------------------------
(***************************************************************************)
(* Around the sync.                                                        *)
(***************************************************************************)

\* The branch moves: a file is changed, deleted, or put back as it was once.
Push(f) ==
  /\ f \in config.moves /\ pushes < MaxPushes
  /\ pushes' = pushes + 1
  /\ \E blob \in ({NoBlob, pushes + 2} \cup past[f]) \ {head[f]} :
       /\ head' = [head EXCEPT ![f] = blob]
       /\ past' = [past EXCEPT ![f] = @ \cup ({blob} \ {NoBlob})]
       /\ returned' = IF blob \in past[f] THEN returned \cup {f} ELSE returned \ {f}
  /\ moved' = moved \cup {f}
  /\ UNCHANGED <<fetch_vars, config, spec, held, phase, listing, queue, pending, told, failed,
                 syncs, complete, unsettled>>

\* refresh_with fetches a file that is held: other bytes come in with the tag
\* of the HTTP answer, the same bytes leave the entry as it is.
Refresh(f) ==
  /\ phase = "idle" /\ f \in config.moves
  /\ held[f].blob \notin {NoBlob, head[f]} /\ head[f] \notin Blank \cup {NoBlob}
  /\ held' = [held EXCEPT ![f] = [blob |-> head[f], tag |-> HttpTag(head[f])]]
  /\ unsettled' = unsettled \ {f}
  /\ UNCHANGED <<fetch_vars, config, spec, head, pushes, phase, listing, queue, pending, told,
                 failed, syncs, complete, past, moved, returned>>

Wait == UNCHANGED sync_vars

SyncStep ==
  \/ Resolved \/ AskTree \/ Listed \/ Finish
  \/ \E f \in queue : Fill(f)
  \/ \E f \in Files : Arrive(f)
  \/ \E f \in Files : BlobFailed(f)
  \/ \E id \in Requests : Acquire(id) /\ Wait
  \/ \E id \in Requests : Minted(id) /\ Wait

Next ==
  \/ Start \/ Abort
  \/ SyncStep
  \/ Tick /\ Wait
  \/ \E f \in Files : Push(f)
  \/ \E f \in Files : Refresh(f)

\* Futures that are ready are polled, a request is answered or times out, and
\* the token source answers.
Spec == Init /\ [][Next]_vars /\ WF_vars(SyncStep)

-----------------------------------------------------------------------------
(***************************************************************************)
(* Properties.                                                             *)
(***************************************************************************)

\* The files a sync that ran to its end reports, with those it counts as
\* failed, are those the caller meant, each once, and never are more files
\* asked for at a time than the caller allowed (parse, admit, discover,
\* ingest_from, run).
Accounted ==
  /\ Cardinality(InFlight) <= Concurrency
  /\ complete =>
       LET reported == {f \in Files : told[f] > 0}
       IN /\ \A f \in reported : told[f] = 1
          /\ reported \subseteq config.meant
          /\ Cardinality(reported) + failed = Cardinality(DOMAIN listing)
          /\ DOMAIN listing \subseteq config.meant
          /\ moved = {} => DOMAIN listing = {f \in config.meant : head[f] # NoBlob}

\* What the two forms of a spelling promise: a sync of an unmoved repository
\* lists the files below the subdirectory that was named.  It does not where the
\* name has a character that a URL writes encoded.
MeantIsListed ==
  complete /\ moved = {} => DOMAIN listing = {f \in config.meant : head[f] # NoBlob}

Settled == complete /\ moved = {} /\ failed = 0
Indexable(f) == head[f] \notin Blank \cup {NoBlob}

\* After a sync that ran to its end without a failure while the repository
\* stood still, the index holds the repository's content of every file meant,
\* whatever earlier syncs fetched while the branch moved, and whichever were
\* broken off; but for a file that was indexed by a sync in which it changed,
\* and was then put back as it had been before (the SHA as the entity tag,
\* validators, is_unchanged).
HeldIsCurrent ==
  Settled => \A f \in config.meant :
               Indexable(f) => held[f].blob = head[f] \/ f \in returned \cap unsettled

\* What makes the SHA a change token, an entry whose SHA matches is never
\* fetched because it is unchanged: without exception, the index holds the
\* repository's content.  It does not: a blob is fetched by the name of its
\* branch, and stored under the SHA of the listing.
ShaIsChangeToken ==
  Settled => \A f \in config.meant : Indexable(f) => held[f].blob = head[f]

\* Every sync ends.
SyncEnds == phase # "idle" ~> phase = "idle"
=============================================================================
