--------------------------- MODULE LinkIndex_proofs ---------------------------
(***************************************************************************)
(* The safety of the facade, for any pages, contents, images, options and  *)
(* batch sizes.                                                            *)
(*                                                                         *)
(* A batch is a recursion over its pages: what holds of the documents and  *)
(* the report before it and passes over each page holds after it.          *)
(***************************************************************************)
EXTENDS LinkIndex, FiniteSetTheorems, Induction

Page == [url : Pages, content_hash : Contents, etag : Tags]

Reports == [ added : Nat, updated : Nat, unchanged : Nat, skipped : Nat,
             removed : Nat, failed : Nat,
             pages : SUBSET (Pages \X {"added", "updated", "unchanged", "skipped", "removed"}) ]

\* What a batch works on.
Accs == [docs : Documents, report : Reports]

\* Nothing but a refresh has links to fetch, and a call that is over leaves
\* nothing behind.
LocalsOK ==
  /\ task # "refresh" => stale = {} /\ in_flight = {}
  /\ task = "idle" => pending = <<>> /\ report = EmptyReport

\* One representation; a snapshot is of the builder, and there is none while a
\* call changes it.
RepsOK ==
  /\ (opened = NoIndex) # (builder = NoIndex)
  /\ task # "idle" => opened = NoIndex /\ cached = NoIndex
  /\ cached # NoIndex => opened = NoIndex /\ cached = builder

\* A tag names the content it came with, in the index and in a batch, when it
\* does in the images the index is opened from.
Tagged(docs) == \A p \in DOMAIN docs : docs[p].etag \in {NoTag, docs[p].content_hash}

TagsNameContents == \A image \in Images : Tagged(image)

Sound(docs) == TagsNameContents => Tagged(docs)

SoundTag(page) == TagsNameContents => page.etag \in {NoTag, page.content_hash}

TagsOK ==
  /\ Sound(Held)
  /\ \A i \in DOMAIN pending : SoundTag(pending[i])

\* The links of a refresh that are still to be answered.
ToAnswer == stale \cup in_flight

PlanOK ==
  /\ IsFiniteSet(stale) /\ IsFiniteSet(in_flight)
  /\ stale \cap in_flight = {}
  /\ \A f \in ToAnswer : f.url \in DOMAIN builder /\ builder[f.url].etag = f.etag
  /\ \A f, g \in ToAnswer : f.url = g.url => f = g

\* In a refresh a page is in one place: to be answered, in the batch, or in the
\* report.
OnceOK ==
  task = "refresh" =>
    /\ \A i, j \in DOMAIN pending : pending[i].url = pending[j].url => i = j
    /\ \A i \in DOMAIN pending, f \in ToAnswer : pending[i].url # f.url
    /\ \A outcome \in report.pages :
         /\ \A f \in ToAnswer : outcome[1] # f.url
         /\ \A i \in DOMAIN pending : outcome[1] # pending[i].url

\* What a report says of a page is so in docs.
SoIn(docs, outcome) ==
  IF outcome[2] = "removed"
    THEN outcome[1] \notin DOMAIN docs
    ELSE outcome[1] \in DOMAIN docs /\ docs[outcome[1]].fetched_at = started

\* The planned links a report accounts for.
Settled(rep) == rep.updated + rep.unchanged + rep.removed + rep.failed

Inv ==
  /\ TypeOK /\ LocalsOK /\ RepsOK /\ TagsOK /\ PlanOK /\ OnceOK
  /\ Accounted /\ ReportedIsSo
-----------------------------------------------------------------------------
(***************************************************************************)
(* The operators the operations are built from.                            *)
(***************************************************************************)

LEMMA IsDocuments ==
  \A docs : docs \in Documents <=> DOMAIN docs \subseteq Pages /\ docs \in [DOMAIN docs -> Document]
<1>1. ASSUME NEW docs \in Documents
      PROVE  DOMAIN docs \subseteq Pages /\ docs \in [DOMAIN docs -> Document]
  <2>1. PICK urls \in SUBSET Pages : docs \in [urls -> Document]
    BY DEF Documents
  <2>. QED
    BY <2>1
<1>2. ASSUME NEW docs, DOMAIN docs \subseteq Pages, docs \in [DOMAIN docs -> Document]
      PROVE  docs \in Documents
  BY <1>2 DEF Documents
<1>. QED
  BY <1>1, <1>2

LEMMA PutFacts ==
  ASSUME NEW docs \in Documents, NEW url \in Pages, NEW doc \in Document
  PROVE  /\ Put(docs, url, doc) \in Documents
         /\ DOMAIN Put(docs, url, doc) = DOMAIN docs \cup {url}
         /\ Put(docs, url, doc)[url] = doc
         /\ \A p \in DOMAIN docs : p # url => Put(docs, url, doc)[p] = docs[p]
<1>1. DOMAIN docs \subseteq Pages /\ docs \in [DOMAIN docs -> Document]
  BY IsDocuments
<1>2. /\ DOMAIN Put(docs, url, doc) = DOMAIN docs \cup {url}
      /\ Put(docs, url, doc) \in [DOMAIN docs \cup {url} -> Document]
      /\ Put(docs, url, doc)[url] = doc
      /\ \A p \in DOMAIN docs : p # url => Put(docs, url, doc)[p] = docs[p]
  BY <1>1 DEF Put
<1>3. Put(docs, url, doc) \in Documents
  BY <1>1, <1>2, IsDocuments
<1>. QED
  BY <1>2, <1>3

LEMMA WithoutFacts ==
  ASSUME NEW docs \in Documents, NEW urls
  PROVE  /\ Without(docs, urls) \in Documents
         /\ DOMAIN Without(docs, urls) = DOMAIN docs \ urls
         /\ \A p \in DOMAIN docs \ urls : Without(docs, urls)[p] = docs[p]
<1>1. DOMAIN docs \subseteq Pages /\ docs \in [DOMAIN docs -> Document]
  BY IsDocuments
<1>2. /\ DOMAIN Without(docs, urls) = DOMAIN docs \ urls
      /\ Without(docs, urls) \in [DOMAIN docs \ urls -> Document]
      /\ \A p \in DOMAIN docs \ urls : Without(docs, urls)[p] = docs[p]
  BY <1>1 DEF Without
<1>3. Without(docs, urls) \in Documents
  BY <1>1, <1>2, IsDocuments
<1>. QED
  BY <1>2, <1>3

\* A touch changes the time of one document and nothing else.
LEMMA TouchFacts ==
  ASSUME NEW docs \in Documents, NEW url, NEW time \in 0..Horizon
  PROVE  /\ TouchAt(docs, url, time) \in Documents
         /\ DOMAIN TouchAt(docs, url, time) = DOMAIN docs
         /\ \A p \in DOMAIN docs :
              /\ TouchAt(docs, url, time)[p].etag = docs[p].etag
              /\ TouchAt(docs, url, time)[p].content_hash = docs[p].content_hash
              /\ TouchAt(docs, url, time)[p].fetched_at = IF p = url THEN time ELSE docs[p].fetched_at
<1>1. DOMAIN docs \subseteq Pages /\ docs \in [DOMAIN docs -> Document]
  BY IsDocuments
<1>2. CASE url \in DOMAIN docs
  <2>1. /\ TouchAt(docs, url, time) = [docs EXCEPT ![url].fetched_at = time]
        /\ docs[url] \in Document
    BY <1>1, <1>2 DEF TouchAt
  <2>2. TouchAt(docs, url, time) \in [DOMAIN docs -> Document]
    BY <1>1, <1>2, <2>1 DEF Document
  <2>3. \A p \in DOMAIN docs :
          /\ TouchAt(docs, url, time)[p].etag = docs[p].etag
          /\ TouchAt(docs, url, time)[p].content_hash = docs[p].content_hash
          /\ TouchAt(docs, url, time)[p].fetched_at = IF p = url THEN time ELSE docs[p].fetched_at
    BY <1>1, <1>2, <2>1 DEF Document
  <2>4. TouchAt(docs, url, time) \in Documents /\ DOMAIN TouchAt(docs, url, time) = DOMAIN docs
    BY <1>1, <2>2, IsDocuments
  <2>. QED
    BY <2>3, <2>4
<1>3. CASE url \notin DOMAIN docs
  BY <1>3 DEF TouchAt
<1>. QED
  BY <1>2, <1>3

LEMMA UpsertedFacts ==
  ASSUME NEW docs \in Documents, NEW page \in Page, NEW time \in 0..Horizon, NEW pinned \in BOOLEAN
  PROVE  LET new == Upserted(docs, page, time, pinned)
         IN /\ new \in Documents
            /\ DOMAIN new = DOMAIN docs \cup {page.url}
            /\ \A p \in DOMAIN docs : p # page.url => new[p] = docs[p]
            /\ Tagged(docs) /\ page.etag \in {NoTag, page.content_hash} => Tagged(new)
<1>. DEFINE new == Upserted(docs, page, time, pinned)
            doc == [ content_hash |-> page.content_hash, etag |-> TagOf(docs, page),
                     fetched_at |-> time,
                     pinned |-> \/ pinned
                                \/ page.url \in DOMAIN docs /\ docs[page.url].pinned ]
<1>1. CASE UpsertOutcome(docs, page) = "unchanged"
  <2>1. page.url \in DOMAIN docs
    BY <1>1 DEF UpsertOutcome
  <2>. QED
    BY <1>1, <2>1 DEF Upserted
<1>2. CASE UpsertOutcome(docs, page) # "unchanged"
  <2>1. new = Put(docs, page.url, doc)
    BY <1>2 DEF Upserted
  <2>2. page.url \in Pages /\ page.content_hash \in Contents /\ page.etag \in Tags
    BY DEF Page
  <2>3. doc \in Document
    <3>1. page.url \in DOMAIN docs => docs[page.url] \in Document
      BY IsDocuments
    <3>2. doc.pinned \in BOOLEAN
      BY <3>1 DEF Document
    <3>. QED
      BY <2>2, <3>2 DEF Document, TagOf
  <2>4. doc.etag = page.etag /\ doc.content_hash = page.content_hash
    BY DEF TagOf
  <2>. HIDE DEF doc, new
  <2>5. /\ new \in Documents /\ DOMAIN new = DOMAIN docs \cup {page.url} /\ new[page.url] = doc
        /\ \A p \in DOMAIN docs : p # page.url => new[p] = docs[p]
    BY <2>1, <2>2, <2>3, PutFacts
  <2>6. Tagged(docs) /\ page.etag \in {NoTag, page.content_hash} => Tagged(new)
    BY <2>4, <2>5 DEF Tagged
  <2>. QED
    BY <2>5, <2>6 DEF new
<1>. QED
  BY <1>1, <1>2

LEMMA CountedFacts ==
  ASSUME NEW rep \in Reports, NEW url \in Pages,
         NEW field \in {"added", "updated", "unchanged", "skipped", "removed"}
  PROVE  LET new == Counted(rep, field, url)
         IN /\ new \in Reports
            /\ new.pages = rep.pages \cup {<<url, field>>}
            /\ field \in {"updated", "unchanged", "removed"} =>
                 Settled(new) = Settled(rep) + 1
<1>. DEFINE kinds == {"added", "updated", "unchanged", "skipped", "removed"}
            told == rep.pages \cup {<<url, field>>}
            new == Counted(rep, field, url)
<1>1. told \in SUBSET (Pages \X kinds)
  BY DEF Reports
<1>2. rep = [ added |-> rep.added, updated |-> rep.updated, unchanged |-> rep.unchanged,
              skipped |-> rep.skipped, removed |-> rep.removed, failed |-> rep.failed,
              pages |-> rep.pages ]
  BY DEF Reports
<1>3. /\ {rep.added, rep.updated, rep.unchanged, rep.skipped, rep.removed, rep.failed} \subseteq Nat
  BY DEF Reports
<1>4. new = [rep EXCEPT ![field] = @ + 1, !.pages = told]
  BY DEF Counted
<1>. HIDE DEF told
<1>5. CASE field = "added"
  <2>1. new = [ added |-> rep.added + 1, updated |-> rep.updated, unchanged |-> rep.unchanged,
                skipped |-> rep.skipped, removed |-> rep.removed, failed |-> rep.failed, pages |-> told ]
    BY <1>2, <1>4, <1>5
  <2>. HIDE DEF new
  <2>2. new \in Reports /\ new.pages = told
    BY <1>1, <1>3, <2>1 DEF Reports
  <2>. QED
    BY <1>3, <1>5, <2>1, <2>2 DEF told, new, Settled
<1>6. CASE field = "updated"
  <2>1. new = [ added |-> rep.added, updated |-> rep.updated + 1, unchanged |-> rep.unchanged,
                skipped |-> rep.skipped, removed |-> rep.removed, failed |-> rep.failed, pages |-> told ]
    BY <1>2, <1>4, <1>6
  <2>. HIDE DEF new
  <2>2. new \in Reports /\ new.pages = told
    BY <1>1, <1>3, <2>1 DEF Reports
  <2>. QED
    BY <1>3, <1>6, <2>1, <2>2 DEF told, new, Settled
<1>7. CASE field = "unchanged"
  <2>1. new = [ added |-> rep.added, updated |-> rep.updated, unchanged |-> rep.unchanged + 1,
                skipped |-> rep.skipped, removed |-> rep.removed, failed |-> rep.failed, pages |-> told ]
    BY <1>2, <1>4, <1>7
  <2>. HIDE DEF new
  <2>2. new \in Reports /\ new.pages = told
    BY <1>1, <1>3, <2>1 DEF Reports
  <2>. QED
    BY <1>3, <1>7, <2>1, <2>2 DEF told, new, Settled
<1>8. CASE field = "skipped"
  <2>1. new = [ added |-> rep.added, updated |-> rep.updated, unchanged |-> rep.unchanged,
                skipped |-> rep.skipped + 1, removed |-> rep.removed, failed |-> rep.failed, pages |-> told ]
    BY <1>2, <1>4, <1>8
  <2>. HIDE DEF new
  <2>2. new \in Reports /\ new.pages = told
    BY <1>1, <1>3, <2>1 DEF Reports
  <2>. QED
    BY <1>3, <1>8, <2>1, <2>2 DEF told, new, Settled
<1>9. CASE field = "removed"
  <2>1. new = [ added |-> rep.added, updated |-> rep.updated, unchanged |-> rep.unchanged,
                skipped |-> rep.skipped, removed |-> rep.removed + 1, failed |-> rep.failed, pages |-> told ]
    BY <1>2, <1>4, <1>9
  <2>. HIDE DEF new
  <2>2. new \in Reports /\ new.pages = told
    BY <1>1, <1>3, <2>1 DEF Reports
  <2>. QED
    BY <1>3, <1>9, <2>1, <2>2 DEF told, new, Settled
<1>. QED
  BY <1>5, <1>6, <1>7, <1>8, <1>9

-----------------------------------------------------------------------------
(***************************************************************************)
(* The batches.                                                            *)
(***************************************************************************)

LEMMA FlushPageFacts ==
  ASSUME now \in 0..Horizon, pin \in BOOLEAN, NEW acc \in Accs, NEW page \in Page
  PROVE  LET new == FlushPage(acc, page)
         IN /\ new \in Accs
            /\ DOMAIN new.docs = DOMAIN acc.docs \cup {page.url}
            /\ Tagged(acc.docs) /\ page.etag \in {NoTag, page.content_hash} => Tagged(new.docs)
<1>1. acc.docs \in Documents /\ acc.report \in Reports /\ page.url \in Pages
  BY DEF Accs, Page
<1>2. UpsertOutcome(acc.docs, page) \in {"added", "updated", "unchanged", "skipped", "removed"}
  BY DEF UpsertOutcome
<1>. DEFINE docs == Upserted(acc.docs, page, now, pin)
            rep == Counted(acc.report, UpsertOutcome(acc.docs, page), page.url)
<1>3. /\ docs \in Documents /\ DOMAIN docs = DOMAIN acc.docs \cup {page.url}
      /\ Tagged(acc.docs) /\ page.etag \in {NoTag, page.content_hash} => Tagged(docs)
  <2>. HIDE DEF docs
  <2>1. docs = Upserted(acc.docs, page, now, pin) /\ now \in 0..Horizon /\ pin \in BOOLEAN
    BY DEF docs
  <2>2. CASE pin = TRUE
    BY <1>1, <2>1, <2>2, UpsertedFacts
  <2>3. CASE pin = FALSE
    BY <1>1, <2>1, <2>3, UpsertedFacts
  <2>. QED
    BY <2>1, <2>2, <2>3
<1>4. rep \in Reports
  BY <1>1, <1>2, CountedFacts
<1>5. FlushPage(acc, page) = [docs |-> docs, report |-> rep]
  BY DEF FlushPage
<1>. HIDE DEF docs, rep
<1>6. FlushPage(acc, page) \in Accs
  BY <1>3, <1>4, <1>5 DEF Accs
<1>. QED
  BY <1>3, <1>5, <1>6

LEMMA RefreshPageFacts ==
  ASSUME started \in 0..Horizon, NEW acc \in Accs, NEW page \in Page
  PROVE  LET new == RefreshPage(acc, page)
         IN /\ new \in Accs
            /\ DOMAIN new.docs = DOMAIN acc.docs \cup {page.url}
            /\ new.docs[page.url].fetched_at = started
            /\ \A p \in DOMAIN acc.docs :
                 p # page.url => new.docs[p].fetched_at = acc.docs[p].fetched_at
            /\ Tagged(acc.docs) /\ page.etag \in {NoTag, page.content_hash} => Tagged(new.docs)
            /\ \E kind \in {"updated", "unchanged"} :
                 new.report.pages = acc.report.pages \cup {<<page.url, kind>>}
            /\ Settled(new.report) = Settled(acc.report) + 1
<1>1. acc.docs \in Documents /\ acc.report \in Reports /\ page.url \in Pages
  BY DEF Accs, Page
<1>. DEFINE put == Upserted(acc.docs, page, started, FALSE)
            docs == TouchAt(put, page.url, started)
            kind == IF UpsertOutcome(acc.docs, page) = "unchanged" THEN "unchanged" ELSE "updated"
            rep == Counted(acc.report, kind, page.url)
<1>2. /\ put \in Documents /\ DOMAIN put = DOMAIN acc.docs \cup {page.url}
      /\ \A p \in DOMAIN acc.docs : p # page.url => put[p] = acc.docs[p]
      /\ Tagged(acc.docs) /\ page.etag \in {NoTag, page.content_hash} => Tagged(put)
  BY <1>1, UpsertedFacts
<1>3. kind \in {"updated", "unchanged"}
  OBVIOUS
<1>4. RefreshPage(acc, page) = [docs |-> docs, report |-> rep]
  BY DEF RefreshPage, Refreshed
<1>. HIDE DEF put, kind
<1>5. /\ docs \in Documents /\ DOMAIN docs = DOMAIN put
      /\ \A p \in DOMAIN put :
           /\ docs[p].etag = put[p].etag /\ docs[p].content_hash = put[p].content_hash
           /\ docs[p].fetched_at = IF p = page.url THEN started ELSE put[p].fetched_at
  BY <1>2, TouchFacts
<1>6. Tagged(put) => Tagged(docs)
  BY <1>5 DEF Tagged
<1>7. /\ rep \in Reports /\ rep.pages = acc.report.pages \cup {<<page.url, kind>>}
      /\ Settled(rep) = Settled(acc.report) + 1
  <2>. HIDE DEF rep
  <2>1. rep = Counted(acc.report, kind, page.url)
    BY DEF rep
  <2>2. CASE kind = "updated"
    BY <1>1, <2>1, <2>2, CountedFacts
  <2>3. CASE kind = "unchanged"
    BY <1>1, <2>1, <2>3, CountedFacts
  <2>. QED
    BY <1>3, <2>2, <2>3
<1>. HIDE DEF docs, rep
<1>8. RefreshPage(acc, page) \in Accs
  BY <1>4, <1>5, <1>7 DEF Accs
<1>9. /\ docs[page.url].fetched_at = started
      /\ \A p \in DOMAIN acc.docs : p # page.url => docs[p].fetched_at = acc.docs[p].fetched_at
  BY <1>2, <1>5
<1>. QED
  BY <1>2, <1>3, <1>4, <1>5, <1>6, <1>7, <1>8, <1>9

\* Each batch is a recursion that ends with its last page.
LEMMA FlushedSteps ==
  ASSUME TypeOK, builder \in Documents
  PROVE  /\ FlushedUpTo \in [0..Len(pending) -> Accs]
         /\ FlushedUpTo[0] = [docs |-> builder, report |-> report]
         /\ \A i \in 1..Len(pending) : FlushedUpTo[i] = FlushPage(FlushedUpTo[i - 1], pending[i])
<1>. DEFINE n == Len(pending)
            a == [docs |-> builder, report |-> report]
            step == [i \in 1..n |-> [acc \in Accs |-> FlushPage(acc, pending[i])]]
<1>1. pending \in Seq(Page)
  BY DEF TypeOK, Page
<1>2. a \in Accs
  BY DEF TypeOK, Accs, Reports
<1>3. n \in Nat /\ \A i \in 1..n : pending[i] \in Page
  BY <1>1
<1>4. now \in 0..Horizon /\ pin \in BOOLEAN
  BY DEF TypeOK
<1>5. \A i \in 1..n, acc \in Accs : FlushPage(acc, pending[i]) \in Accs
  BY <1>3, <1>4, FlushPageFacts
<1>6. step \in [1..n -> [Accs -> Accs]]
  BY <1>5
<1>. HIDE DEF a, step, n
<1>7. PICK f \in [0..n -> Accs] : f[0] = a /\ \A i \in 1..n : f[i] = step[i][f[i - 1]]
  <2>1. n \in Nat
    BY <1>3
  <2>. QED
    BY <2>1, <1>2, <1>6, Recursion DEF Recursive
<1>8. \A i \in 1..n : step[i][f[i - 1]] = FlushPage(f[i - 1], pending[i])
  BY <1>3 DEF step
<1>9. f = [i \in 0..n |-> IF i = 0 THEN a ELSE FlushPage(f[i - 1], pending[i])]
  BY <1>7, <1>8
<1>10. FlushedUpTo = [i \in 0..n |-> IF i = 0 THEN a ELSE FlushPage(FlushedUpTo[i - 1], pending[i])]
  BY <1>9, Zenon DEF FlushedUpTo, n, a
<1>11. n = Len(pending) /\ a = [docs |-> builder, report |-> report]
  BY DEF n, a
<1>12. /\ FlushedUpTo = [i \in 0..n |-> FlushedUpTo[i]]
       /\ FlushedUpTo[0] = a
       /\ \A i \in 1..n : FlushedUpTo[i] = FlushPage(FlushedUpTo[i - 1], pending[i])
  BY <1>3, <1>10
<1>. DEFINE Fine == {i \in 0..n : FlushedUpTo[i] \in Accs}
<1>13. 0 \in Fine /\ n \in Nat
  BY <1>2, <1>3, <1>12
<1>14. ASSUME NEW i \in 0..n, i \in Fine, i # n PROVE i + 1 \in Fine
  <2>1. i + 1 \in 1..n /\ (i + 1) - 1 = i /\ FlushedUpTo[i] \in Accs
    BY <1>13, <1>14
  <2>2. FlushPage(FlushedUpTo[i], pending[i + 1]) \in Accs
    BY <1>5, <2>1
  <2>3. FlushedUpTo[i + 1] = FlushPage(FlushedUpTo[i], pending[i + 1])
    BY <1>12, <2>1
  <2>4. i + 1 \in 0..n
    BY <1>13, <2>1
  <2>. QED
    BY <2>2, <2>3, <2>4
<1>. HIDE DEF Fine
<1>15. \A i \in 0..n : i \in Fine
  BY <1>13, <1>14, UpTo
<1>16. FlushedUpTo \in [0..n -> Accs]
  BY <1>12, <1>15 DEF Fine
<1>. QED
  BY <1>11, <1>12, <1>16

\* A chunk is the front of the batch, and the rest of the batch follows it.
LEMMA ChunkIs ==
  ASSUME TypeOK
  PROVE  /\ Chunk \in Seq(Page) /\ Len(Chunk) <= Len(pending)
         /\ \A i \in 1..Len(Chunk) : Chunk[i] = pending[i]
         /\ Rest \in Seq(Page) /\ Len(Rest) = Len(pending) - Len(Chunk)
         /\ \A i \in 1..Len(Rest) : Rest[i] = pending[Len(Chunk) + i]
<1>. DEFINE size == IF Len(pending) < RefreshBatch THEN Len(pending) ELSE RefreshBatch
<1>1. pending \in Seq(Page) /\ Len(pending) \in Nat /\ RefreshBatch \in Nat
  BY LinkIndexAssumption DEF TypeOK, Page
<1>2. size \in 0..Len(pending)
  BY <1>1
<1>3. Chunk = SubSeq(pending, 1, size)
  BY DEF Chunk
<1>. HIDE DEF size
<1>4. Chunk \in Seq(Page) /\ Len(Chunk) = size /\ \A i \in 1..size : Chunk[i] = pending[i]
  BY <1>1, <1>2, <1>3
<1>5. /\ Rest \in Seq(Page) /\ Len(Rest) = Len(pending) - size
      /\ \A i \in 1..Len(Rest) : Rest[i] = pending[size + i]
  BY <1>1, <1>2, <1>4 DEF Rest
<1>. QED
  BY <1>2, <1>4, <1>5

LEMMA RefreshedSteps ==
  ASSUME TypeOK, builder \in Documents
  PROVE  /\ RefreshedUpTo \in [0..Len(Chunk) -> Accs]
         /\ RefreshedUpTo[0] = [docs |-> builder, report |-> report]
         /\ \A i \in 1..Len(Chunk) : RefreshedUpTo[i] = RefreshPage(RefreshedUpTo[i - 1], Chunk[i])
<1>. DEFINE n == Len(Chunk)
            a == [docs |-> builder, report |-> report]
            step == [i \in 1..n |-> [acc \in Accs |-> RefreshPage(acc, Chunk[i])]]
<1>1. Chunk \in Seq(Page)
  BY ChunkIs
<1>2. a \in Accs
  BY DEF TypeOK, Accs, Reports
<1>3. n \in Nat /\ \A i \in 1..n : Chunk[i] \in Page
  BY <1>1
<1>4. started \in 0..Horizon
  BY DEF TypeOK
<1>5. \A i \in 1..n, acc \in Accs : RefreshPage(acc, Chunk[i]) \in Accs
  BY <1>3, <1>4, RefreshPageFacts
<1>6. step \in [1..n -> [Accs -> Accs]]
  BY <1>5
<1>. HIDE DEF a, step, n
<1>7. PICK f \in [0..n -> Accs] : f[0] = a /\ \A i \in 1..n : f[i] = step[i][f[i - 1]]
  <2>1. n \in Nat
    BY <1>3
  <2>. QED
    BY <2>1, <1>2, <1>6, Recursion DEF Recursive
<1>8. \A i \in 1..n : step[i][f[i - 1]] = RefreshPage(f[i - 1], Chunk[i])
  BY <1>3 DEF step
<1>9. f = [i \in 0..n |-> IF i = 0 THEN a ELSE RefreshPage(f[i - 1], Chunk[i])]
  BY <1>7, <1>8
<1>10. RefreshedUpTo = [i \in 0..n |-> IF i = 0 THEN a ELSE RefreshPage(RefreshedUpTo[i - 1], Chunk[i])]
  BY <1>9, Zenon DEF RefreshedUpTo, n, a
<1>11. n = Len(Chunk) /\ a = [docs |-> builder, report |-> report]
  BY DEF n, a
<1>12. /\ RefreshedUpTo = [i \in 0..n |-> RefreshedUpTo[i]]
       /\ RefreshedUpTo[0] = a
       /\ \A i \in 1..n : RefreshedUpTo[i] = RefreshPage(RefreshedUpTo[i - 1], Chunk[i])
  <2>1. n \in Nat
    BY <1>3
  <2>2. \A i \in 0..n :
          RefreshedUpTo[i] = IF i = 0 THEN a ELSE RefreshPage(RefreshedUpTo[i - 1], Chunk[i])
    BY <1>10
  <2>3. RefreshedUpTo = [i \in 0..n |-> RefreshedUpTo[i]]
    BY <1>10
  <2>4. RefreshedUpTo[0] = a
    BY <2>1, <2>2
  <2>5. ASSUME NEW i \in 1..n
        PROVE  RefreshedUpTo[i] = RefreshPage(RefreshedUpTo[i - 1], Chunk[i])
    <3>1. i \in 0..n /\ i # 0
      BY <2>1
    <3>. QED
      BY <2>2, <3>1
  <2>. QED
    BY <2>3, <2>4, <2>5
<1>. DEFINE Fine == {i \in 0..n : RefreshedUpTo[i] \in Accs}
<1>13. 0 \in Fine /\ n \in Nat
  BY <1>2, <1>3, <1>12
<1>14. ASSUME NEW i \in 0..n, i \in Fine, i # n PROVE i + 1 \in Fine
  <2>1. i + 1 \in 1..n /\ (i + 1) - 1 = i /\ RefreshedUpTo[i] \in Accs
    BY <1>13, <1>14
  <2>2. RefreshPage(RefreshedUpTo[i], Chunk[i + 1]) \in Accs
    BY <1>5, <2>1
  <2>3. RefreshedUpTo[i + 1] = RefreshPage(RefreshedUpTo[i], Chunk[i + 1])
    BY <1>12, <2>1
  <2>4. i + 1 \in 0..n
    BY <1>13, <2>1
  <2>. QED
    BY <2>2, <2>3, <2>4
<1>. HIDE DEF Fine
<1>15. \A i \in 0..n : i \in Fine
  BY <1>13, <1>14, UpTo
<1>16. RefreshedUpTo \in [0..n -> Accs]
  BY <1>12, <1>15 DEF Fine
<1>. QED
  BY <1>11, <1>12, <1>16

\* A whole batch of an ingest keeps every document, and every tag true.
LEMMA FlushFacts ==
  ASSUME TypeOK, builder \in Documents, Sound(builder),
         \A i \in DOMAIN pending : SoundTag(pending[i])
  PROVE  Flushed \in Accs /\ Sound(Flushed.docs) /\ DOMAIN builder \subseteq DOMAIN Flushed.docs
<1>. DEFINE n == Len(pending)
            Fine == {i \in 0..n : /\ Sound(FlushedUpTo[i].docs)
                                  /\ DOMAIN builder \subseteq DOMAIN FlushedUpTo[i].docs}
<1>1. pending \in Seq(Page) /\ now \in 0..Horizon /\ pin \in BOOLEAN
  BY DEF TypeOK, Page
<1>2. n \in Nat /\ \A i \in 1..n : pending[i] \in Page /\ SoundTag(pending[i])
  BY <1>1
<1>3. /\ \A i \in 0..n : FlushedUpTo[i] \in Accs
      /\ FlushedUpTo[0] = [docs |-> builder, report |-> report]
      /\ \A i \in 1..n : FlushedUpTo[i] = FlushPage(FlushedUpTo[i - 1], pending[i])
  BY FlushedSteps
<1>. HIDE DEF n
<1>4. 0 \in Fine
  <2>1. FlushedUpTo[0].docs = builder
    BY <1>3
  <2>. QED
    BY <1>2, <2>1
<1>5. ASSUME NEW i \in 0..n, i \in Fine, i # n PROVE i + 1 \in Fine
  <2>1. i + 1 \in 1..n /\ (i + 1) - 1 = i /\ i + 1 \in 0..n
    BY <1>2, <1>5
  <2>. DEFINE old == FlushedUpTo[i]
              page == pending[i + 1]
  <2>2. /\ old \in Accs /\ Sound(old.docs) /\ DOMAIN builder \subseteq DOMAIN old.docs
        /\ page \in Page /\ SoundTag(page)
        /\ FlushedUpTo[i + 1] = FlushPage(old, page)
    BY <1>2, <1>3, <1>5, <2>1
  <2>. HIDE DEF old, page
  <2>3. Sound(FlushPage(old, page).docs) /\ DOMAIN builder \subseteq DOMAIN FlushPage(old, page).docs
    BY <1>1, <2>2, FlushPageFacts DEF Sound, SoundTag
  <2>. QED
    BY <2>1, <2>2, <2>3
<1>. HIDE DEF Fine
<1>6. n \in Fine
  BY <1>2, <1>4, <1>5, UpTo
<1>7. Flushed = FlushedUpTo[n]
  BY DEF Flushed, n
<1>. QED
  BY <1>2, <1>3, <1>6, <1>7 DEF Fine

\* A chunk settles each of its pages once, and what the report says is so.
LEMMA ChunkFacts ==
  ASSUME TypeOK, builder \in Documents, Sound(builder), task = "refresh", OnceOK, ReportedIsSo,
         \A i \in DOMAIN pending : SoundTag(pending[i])
  PROVE  LET acc == RefreshedUpTo[Len(Chunk)]
         IN /\ acc \in Accs /\ Sound(acc.docs) /\ DOMAIN builder \subseteq DOMAIN acc.docs
            /\ Settled(acc.report) = Settled(report) + Len(Chunk)
            /\ \A outcome \in acc.report.pages :
                 /\ SoIn(acc.docs, outcome)
                 /\ \/ outcome \in report.pages
                    \/ \E i \in 1..Len(Chunk) : outcome[1] = pending[i].url
<1>. DEFINE n == Len(Chunk)
            Grown(acc, i) ==
              /\ Sound(acc.docs) /\ DOMAIN builder \subseteq DOMAIN acc.docs
              /\ Settled(acc.report) = Settled(report) + i
            Told(acc, i) ==
              \A outcome \in acc.report.pages :
                /\ SoIn(acc.docs, outcome)
                /\ \/ outcome \in report.pages
                   \/ \E j \in 1..i : outcome[1] = pending[j].url
            Fine == {i \in 0..n : Grown(RefreshedUpTo[i], i) /\ Told(RefreshedUpTo[i], i)}
<1>1. pending \in Seq(Page) /\ started \in 0..Horizon /\ report \in Reports
  BY DEF TypeOK, Page, Reports
<1>2. /\ n \in Nat /\ n <= Len(pending)
      /\ \A i \in 1..n : Chunk[i] = pending[i] /\ i \in DOMAIN pending /\ pending[i] \in Page
  BY <1>1, ChunkIs
<1>3. /\ \A i \in 0..n : RefreshedUpTo[i] \in Accs
      /\ RefreshedUpTo[0] = [docs |-> builder, report |-> report]
      /\ \A i \in 1..n : RefreshedUpTo[i] = RefreshPage(RefreshedUpTo[i - 1], Chunk[i])
  BY RefreshedSteps
<1>. HIDE DEF n
<1>4. 0 \in Fine
  <2>1. RefreshedUpTo[0].docs = builder /\ RefreshedUpTo[0].report = report
    BY <1>3
  <2>2. Settled(report) \in Nat
    BY <1>1 DEF Settled, Reports
  <2>3. \A outcome \in report.pages : SoIn(builder, outcome)
    BY DEF ReportedIsSo, SoIn
  <2>. QED
    BY <1>2, <2>1, <2>2, <2>3
<1>5. ASSUME NEW i \in 0..n, i \in Fine, i # n PROVE i + 1 \in Fine
  <2>1. i + 1 \in 1..n /\ (i + 1) - 1 = i /\ i + 1 \in 0..n /\ i \in Nat
    BY <1>2, <1>5
  <2>. DEFINE old == RefreshedUpTo[i]
              page == pending[i + 1]
              new == RefreshPage(old, page)
  <2>2. /\ old \in Accs /\ page \in Page /\ SoundTag(page)
        /\ RefreshedUpTo[i + 1] = new
        /\ Grown(old, i) /\ Told(old, i)
    BY <1>2, <1>3, <1>5, <2>1
  <2>3. \A outcome \in old.report.pages : outcome[1] # page.url
    <3>. SUFFICES ASSUME NEW outcome \in old.report.pages PROVE outcome[1] # page.url
      OBVIOUS
    <3>1. CASE outcome \in report.pages
      BY <1>2, <2>1, <3>1 DEF OnceOK
    <3>2. CASE \E j \in 1..i : outcome[1] = pending[j].url
      <4>1. PICK j \in 1..i : outcome[1] = pending[j].url
        BY <3>2
      <4>2. j \in DOMAIN pending /\ i + 1 \in DOMAIN pending /\ j # i + 1
        BY <1>2, <2>1
      <4>. QED
        BY <4>1, <4>2 DEF OnceOK
    <3>. QED
      BY <2>2, <3>1, <3>2
  <2>. HIDE DEF old, page
  <2>4. /\ DOMAIN new.docs = DOMAIN old.docs \cup {page.url}
        /\ new.docs[page.url].fetched_at = started
        /\ \A p \in DOMAIN old.docs : p # page.url => new.docs[p].fetched_at = old.docs[p].fetched_at
        /\ Sound(new.docs)
        /\ \E kind \in {"updated", "unchanged"} :
             new.report.pages = old.report.pages \cup {<<page.url, kind>>}
        /\ Settled(new.report) = Settled(old.report) + 1
    BY <1>1, <2>2, RefreshPageFacts DEF Sound, SoundTag
  <2>. HIDE DEF new
  <2>5. Grown(new, i + 1)
    <3>1. Settled(report) \in Nat
      BY <1>1 DEF Settled, Reports
    <3>. QED
      BY <2>1, <2>2, <2>4, <3>1
  <2>6. Told(new, i + 1)
    <3>. SUFFICES ASSUME NEW outcome \in new.report.pages
                  PROVE  /\ SoIn(new.docs, outcome)
                         /\ \/ outcome \in report.pages
                            \/ \E j \in 1..(i + 1) : outcome[1] = pending[j].url
      OBVIOUS
    <3>1. CASE outcome \in old.report.pages
      <4>1. SoIn(new.docs, outcome)
        BY <2>2, <2>3, <2>4, <3>1 DEF SoIn
      <4>. QED
        BY <2>1, <2>2, <3>1, <4>1
    <3>2. CASE outcome \notin old.report.pages
      <4>1. outcome[1] = page.url /\ outcome[2] \in {"updated", "unchanged"}
        BY <2>4, <3>2
      <4>. QED
        BY <2>1, <2>4, <4>1 DEF SoIn, page
    <3>. QED
      BY <3>1, <3>2
  <2>. HIDE DEF Grown, Told
  <2>. QED
    BY <2>1, <2>2, <2>5, <2>6
<1>. HIDE DEF Fine, Grown, Told
<1>6. n \in Fine
  <2>1. \A i \in 0..n : i \in Fine
    BY <1>2, <1>4, <1>5, UpTo
  <2>. QED
    BY <1>2, <2>1
<1>. QED
  BY <1>2, <1>3, <1>6 DEF Fine, Grown, Told, n

-----------------------------------------------------------------------------
(***************************************************************************)
(* What the invariant says of a call before one of its steps.              *)
(***************************************************************************)

\* While a call runs, the builder holds the documents.
LEMMA Running ==
  ASSUME TypeOK, RepsOK, task # "idle"
  PROVE  /\ opened = NoIndex /\ cached = NoIndex
         /\ builder \in Documents /\ Held = builder
BY DEF TypeOK, RepsOK, Held

LEMMA HeldIsDocuments ==
  ASSUME TypeOK, RepsOK
  PROVE  Held \in Documents
BY DEF TypeOK, RepsOK, Held

\* Outside a refresh there is nothing to account for.
LEMMA NothingPlanned ==
  ASSUME task' # "refresh", stale' = {}, in_flight' = {}
  PROVE  PlanOK' /\ OnceOK' /\ Accounted' /\ ReportedIsSo'
BY FS_EmptySet DEF PlanOK, ToAnswer, OnceOK, Accounted, ReportedIsSo

\* A call that is over leaves an invariant state, if it leaves one
\* representation.
LEMMA Returned ==
  ASSUME Return, now' \in 0..Horizon,
         opened' \in Documents \cup {NoIndex}, builder' \in Documents \cup {NoIndex},
         (opened' = NoIndex) # (builder' = NoIndex), cached' = NoIndex, Sound(Held')
  PROVE  Inv'
<1>1. TypeOK'
  <2>1. AnyOptions \in Options
    BY LinkIndexAssumption DEF AnyOptions
  <2>2. 0 \in 0..Horizon /\ 0 \in 0..MaxYields /\ 0 \in Nat
    BY LinkIndexAssumption
  <2>3. EmptyReport \in Reports
    BY DEF EmptyReport, Reports
  <2>4. /\ task' \in {"idle", "ingest", "refresh"} /\ pin' \in BOOLEAN /\ opts' \in Options
        /\ started' \in 0..Horizon /\ yields' \in 0..MaxYields /\ planned' \in Nat
    BY <2>1, <2>2 DEF Return
  <2>5. /\ stale' \subseteq [url : Pages, etag : Tags] /\ in_flight' \subseteq [url : Pages, etag : Tags]
        /\ dead' \subseteq Pages
        /\ pending' \in Seq([url : Pages, content_hash : Contents, etag : Tags])
    BY DEF Return
  <2>6. report' \in Reports
    BY <2>3 DEF Return
  <2>. QED
    BY <2>4, <2>5, <2>6 DEF TypeOK, Reports
<1>2. PlanOK' /\ OnceOK' /\ Accounted' /\ ReportedIsSo'
  BY NothingPlanned DEF Return
<1>3. LocalsOK' /\ RepsOK'
  BY DEF Return, LocalsOK, RepsOK
<1>4. TagsOK'
  BY DEF Return, TagsOK
<1>. QED
  BY <1>1, <1>2, <1>3, <1>4 DEF Inv

\* A step of an idle index that leaves one representation of sound documents.
LEMMA Idle ==
  ASSUME Inv, task = "idle", UNCHANGED <<task, work, report, history>>, now' \in 0..Horizon,
         opened' \in Documents \cup {NoIndex}, builder' \in Documents \cup {NoIndex},
         (opened' = NoIndex) # (builder' = NoIndex), Sound(Held'),
         cached' \in Documents \cup {NoIndex},
         cached' # NoIndex => opened' = NoIndex /\ cached' = builder'
  PROVE  Inv'
<1>. USE DEF work, history
<1>1. TypeOK'
  BY DEF Inv, TypeOK
<1>2. PlanOK' /\ OnceOK' /\ Accounted' /\ ReportedIsSo'
  BY NothingPlanned DEF Inv, LocalsOK
<1>3. LocalsOK' /\ RepsOK'
  BY DEF Inv, LocalsOK, RepsOK
<1>4. TagsOK'
  BY DEF Inv, TagsOK, LocalsOK
<1>. QED
  BY <1>1, <1>2, <1>3, <1>4 DEF Inv

\* The answer to a fetch in flight: the others find their records as they left
\* them.
LEMMA AnswerPlan ==
  ASSUME Inv, NEW f \in in_flight, in_flight' = in_flight \ {f}, stale' = stale,
         \A p \in DOMAIN builder \ {f.url} : p \in DOMAIN builder' /\ builder'[p].etag = builder[p].etag
  PROVE  /\ PlanOK'
         /\ Cardinality(stale) \in Nat /\ Cardinality(in_flight') \in Nat
         /\ Cardinality(in_flight) = Cardinality(in_flight') + 1
         /\ \A g \in ToAnswer' : g \in ToAnswer /\ g.url # f.url
<1>. USE DEF Inv
<1>1. IsFiniteSet(stale) /\ IsFiniteSet(in_flight)
  BY DEF PlanOK
<1>2. /\ Cardinality(stale) \in Nat /\ Cardinality(in_flight) \in Nat
      /\ IsFiniteSet(in_flight') /\ Cardinality(in_flight') \in Nat
      /\ Cardinality(in_flight') = Cardinality(in_flight) - 1
  BY <1>1, FS_CardinalityType, FS_RemoveElement
<1>3. f \in ToAnswer /\ f \notin stale
  BY DEF PlanOK, ToAnswer
<1>4. \A g \in ToAnswer' : g \in ToAnswer /\ g # f
  BY <1>3 DEF ToAnswer
<1>5. \A g \in ToAnswer' : g.url # f.url
  BY <1>3, <1>4 DEF PlanOK
<1>6. PlanOK'
  BY <1>1, <1>2, <1>4, <1>5 DEF PlanOK
<1>. QED
  BY <1>2, <1>4, <1>5, <1>6

\* The links of a plan and the fetches it makes of them are as many.
LEMMA PlanSize ==
  ASSUME NEW docs \in Documents, NEW links, links \subseteq DOMAIN docs
  PROVE  LET plan == {[url |-> p, etag |-> docs[p].etag] : p \in links}
         IN IsFiniteSet(links) /\ IsFiniteSet(plan) /\ Cardinality(plan) = Cardinality(links)
<1>. DEFINE fetch == [p \in links |-> [url |-> p, etag |-> docs[p].etag]]
            plan == {[url |-> p, etag |-> docs[p].etag] : p \in links}
<1>1. IsFiniteSet(links)
  BY LinkIndexAssumption, IsDocuments, FS_Subset
<1>2. fetch \in Bijection(links, plan)
  BY DEF Bijection, Injection, Surjection, IsInjective
<1>. HIDE DEF fetch, plan
<1>3. ExistsBijection(links, plan)
  BY <1>2 DEF ExistsBijection
<1>4. IsFiniteSet(plan) /\ Cardinality(plan) = Cardinality(links)
  BY <1>1, <1>3, FS_Bijection
<1>. QED
  BY <1>1, <1>4 DEF plan

-----------------------------------------------------------------------------
(***************************************************************************)
(* The steps between calls.                                                *)
(***************************************************************************)

\* A step that loses no link.
Kept == DOMAIN Held \subseteq DOMAIN Held'

LEMMA ReadStep ==
  ASSUME Inv, Read
  PROVE  Inv' /\ Kept
<1>1. Held' = Held /\ Held \in Documents /\ cached' = builder
  BY HeldIsDocuments DEF Inv, Read, Held
<1>2. Sound(Held')
  BY <1>1 DEF Inv, TagsOK
<1>. QED
  BY <1>1, <1>2, Idle DEF Inv, TypeOK, RepsOK, Read, Kept

LEMMA FreezeStep ==
  ASSUME Inv, Freeze
  PROVE  Inv' /\ Kept
<1>1. builder \in Documents /\ builder # NoIndex /\ opened = NoIndex
  BY LinkIndexAssumption DEF Inv, TypeOK, RepsOK, Freeze
<1>2. Held' = Held
  BY <1>1 DEF Freeze, Held
<1>3. Sound(Held')
  BY <1>2 DEF Inv, TagsOK
<1>. QED
  BY <1>1, <1>2, <1>3, Idle DEF Inv, TypeOK, Freeze, FreezeLeaves, Kept

LEMMA ReloadStep ==
  ASSUME Inv, Reload
  PROVE  Inv'
<1>1. opened' \in Images /\ opened' \in Documents /\ opened' # NoIndex
  BY LinkIndexAssumption DEF Reload
<1>2. Sound(Held')
  BY <1>1 DEF Held, Sound, TagsNameContents
<1>. QED
  BY <1>1, <1>2, Idle DEF Inv, TypeOK, Reload

LEMMA SetPinnedStep ==
  ASSUME Inv, NEW prefix \in SUBSET Pages, NEW pinned \in BOOLEAN, SetPinned(prefix, pinned)
  PROVE  Inv' /\ Kept
<1>. DEFINE docs == [p \in DOMAIN Held |->
                       IF p \in prefix THEN [Held[p] EXCEPT !.pinned = pinned] ELSE Held[p]]
<1>1. Held \in Documents /\ DOMAIN Held \subseteq Pages /\ Held \in [DOMAIN Held -> Document]
  BY HeldIsDocuments, IsDocuments DEF Inv
<1>2. \A p \in DOMAIN Held : [Held[p] EXCEPT !.pinned = pinned] \in Document
  BY <1>1 DEF Document
<1>3. docs \in [DOMAIN Held -> Document]
  BY <1>1, <1>2
<1>4. DOMAIN docs = DOMAIN Held
  OBVIOUS
<1>5. \A p \in DOMAIN docs :
        docs[p].etag = Held[p].etag /\ docs[p].content_hash = Held[p].content_hash
  BY <1>1 DEF Document
<1>6. builder' = docs /\ opened' = NoIndex /\ cached' = NoIndex
  BY DEF SetPinned, Materialize, Invalidated
<1>. HIDE DEF docs
<1>7. docs \in Documents
  BY <1>1, <1>3, <1>4, IsDocuments
<1>8. docs # NoIndex /\ Held' = docs
  BY <1>6, <1>7, LinkIndexAssumption DEF Held
<1>9. Sound(docs)
  BY <1>4, <1>5 DEF Inv, TagsOK, Sound, Tagged
<1>10. Inv'
  BY <1>6, <1>7, <1>8, <1>9, Idle DEF Inv, TypeOK, SetPinned
<1>. QED
  BY <1>4, <1>8, <1>10 DEF Kept

LEMMA TickStep ==
  ASSUME Inv, Tick
  PROVE  Inv' /\ Kept
<1>. USE DEF Inv, Tick, index, work, history
<1>1. now' \in 0..Horizon /\ Held' = Held
  BY LinkIndexAssumption DEF TypeOK, Held
<1>2. TypeOK'
  BY <1>1 DEF TypeOK
<1>3. LocalsOK' /\ RepsOK' /\ TagsOK'
  BY <1>1 DEF LocalsOK, RepsOK, TagsOK
<1>4. PlanOK'
  BY DEF PlanOK, ToAnswer
<1>5. OnceOK'
  BY DEF OnceOK, ToAnswer
<1>6. Accounted' /\ ReportedIsSo'
  BY DEF Accounted, ReportedIsSo
<1>. QED
  BY <1>1, <1>2, <1>3, <1>4, <1>5, <1>6 DEF Kept

LEMMA AbortStep ==
  ASSUME Inv, Abort
  PROVE  Inv' /\ Kept
<1>1. builder' = builder /\ opened' = opened /\ cached' = cached /\ now' = now /\ Return
  BY DEF Abort, index
<1>2. cached = NoIndex /\ Held' = Held /\ Sound(Held)
  BY <1>1 DEF Abort, Inv, RepsOK, TagsOK, Held
<1>3. Inv'
  BY <1>1, <1>2, Returned DEF Inv, TypeOK, RepsOK
<1>. QED
  BY <1>2, <1>3 DEF Kept

-----------------------------------------------------------------------------
(***************************************************************************)
(* The steps of an ingest.                                                 *)
(***************************************************************************)

LEMMA StartIngestStep ==
  ASSUME Inv, StartIngest
  PROVE  Inv' /\ Kept
<1>1. /\ builder' = Held /\ opened' = NoIndex /\ cached' = NoIndex
      /\ task = "idle" /\ task' = "ingest" /\ pin' \in BOOLEAN
      /\ UNCHANGED <<now, opts, started, stale, in_flight, pending, report, planned, dead, yields>>
  BY DEF StartIngest, Materialize, Invalidated, history
<1>2. Held \in Documents /\ Held # NoIndex
  BY HeldIsDocuments, LinkIndexAssumption DEF Inv
<1>3. Held' = Held
  BY <1>1 DEF Held
<1>4. TypeOK'
  BY <1>1, <1>2 DEF Inv, TypeOK
<1>5. LocalsOK' /\ RepsOK' /\ TagsOK'
  BY <1>1, <1>2, <1>3 DEF Inv, LocalsOK, RepsOK, TagsOK
<1>6. stale' = {} /\ in_flight' = {}
  BY <1>1 DEF Inv, LocalsOK
<1>. QED
  BY <1>1, <1>3, <1>4, <1>5, <1>6, NothingPlanned DEF Inv, Kept

\* A step of an ingest that leaves sound documents in the builder.
LEMMA Ingesting ==
  ASSUME Inv, task = "ingest",
         UNCHANGED <<now, opened, cached, task, pin, opts, started, stale, in_flight, planned, dead>>,
         builder' \in Documents, Sound(builder'), DOMAIN builder \subseteq DOMAIN builder',
         report' \in Reports, yields' \in 0..MaxYields,
         pending' \in Seq(Page), \A i \in DOMAIN pending' : SoundTag(pending'[i])
  PROVE  Inv' /\ Kept
<1>1. opened = NoIndex /\ cached = NoIndex /\ Held = builder /\ Held' = builder'
  BY Running DEF Inv, Held
<1>2. builder' # NoIndex
  BY LinkIndexAssumption
<1>3. TypeOK'
  BY DEF Inv, TypeOK, Reports, Page
<1>4. LocalsOK' /\ RepsOK' /\ TagsOK'
  BY <1>1, <1>2 DEF Inv, LocalsOK, RepsOK, TagsOK
<1>5. stale' = {} /\ in_flight' = {}
  BY DEF Inv, LocalsOK
<1>. QED
  BY <1>1, <1>3, <1>4, <1>5, NothingPlanned DEF Inv, Kept

LEMMA ReceiveStep ==
  ASSUME Inv, NEW url \in Pages, NEW content \in Contents \cup {Blank},
         NEW tag \in {content, NoTag} \cap Tags, Receive(url, content, tag)
  PROVE  Inv' /\ Kept
<1>1. builder \in Documents /\ Sound(builder)
  BY Running DEF Inv, TagsOK, Receive
<1>2. /\ task = "ingest"
      /\ UNCHANGED <<now, builder, opened, cached, task, pin, opts, started, stale, in_flight,
                     planned, dead>>
      /\ yields' \in 0..MaxYields
  BY LinkIndexAssumption DEF Inv, TypeOK, Receive, index
<1>3. pending \in Seq(Page) /\ report \in Reports
  BY DEF Inv, TypeOK, Page, Reports
<1>4. CASE pending' = pending
  <2>1. report' \in Reports
    <3>1. \/ report' = report
          \/ report' = Counted(report, "unchanged", url)
          \/ report' = Counted(report, "skipped", url)
      BY DEF Receive
    <3>2. Counted(report, "unchanged", url) \in Reports
      BY <1>3, CountedFacts
    <3>3. Counted(report, "skipped", url) \in Reports
      BY <1>3, CountedFacts
    <3>. QED
      BY <1>3, <3>1, <3>2, <3>3
  <2>. QED
    BY <1>1, <1>2, <1>3, <1>4, <2>1, Ingesting DEF Inv, TagsOK
<1>5. CASE ~IsUnchanged(url, content) /\ ~IsEmpty(content)
  <2>. DEFINE page == Extracted(url, content, tag)
  <2>1. pending' = Append(pending, page) /\ report' = report
    BY <1>5 DEF Receive
  <2>2. page \in Page /\ SoundTag(page)
    BY <1>5 DEF Page, Extracted, IsEmpty, SoundTag
  <2>. HIDE DEF page
  <2>3. pending' \in Seq(Page) /\ \A i \in DOMAIN pending' : SoundTag(pending'[i])
    BY <1>3, <2>1, <2>2 DEF Inv, TagsOK
  <2>. QED
    BY <1>1, <1>2, <1>3, <2>1, <2>3, Ingesting
<1>. QED
  BY <1>4, <1>5 DEF Receive

LEMMA FlushFullStep ==
  ASSUME Inv, FlushFull
  PROVE  Inv' /\ Kept
<1>1. builder \in Documents /\ Sound(builder) /\ \A i \in DOMAIN pending : SoundTag(pending[i])
  BY Running DEF Inv, TagsOK, FlushFull
<1>2. Flushed \in Accs /\ Sound(Flushed.docs) /\ DOMAIN builder \subseteq DOMAIN Flushed.docs
  BY <1>1, FlushFacts DEF Inv
<1>3. Flushed.docs \in Documents /\ Flushed.report \in Reports
  BY <1>2 DEF Accs
<1>4. pending' = <<>> /\ <<>> \in Seq(Page) /\ yields' \in 0..MaxYields
  BY DEF FlushFull, history, Inv, TypeOK
<1>5. \A i \in DOMAIN pending' : SoundTag(pending'[i])
  BY <1>4
<1>. QED
  BY <1>2, <1>3, <1>4, <1>5, Ingesting DEF FlushFull, history

LEMMA FinishIngestStep ==
  ASSUME Inv, FinishIngest
  PROVE  Inv' /\ Kept
<1>1. /\ opened = NoIndex /\ cached = NoIndex /\ Held = builder
      /\ builder \in Documents /\ Sound(builder) /\ \A i \in DOMAIN pending : SoundTag(pending[i])
  BY Running DEF Inv, TagsOK, FinishIngest
<1>2. Flushed \in Accs /\ Sound(Flushed.docs) /\ DOMAIN builder \subseteq DOMAIN Flushed.docs
  BY <1>1, FlushFacts DEF Inv
<1>3. builder' \in Documents /\ builder' = Flushed.docs
  BY <1>2 DEF Accs, FinishIngest
<1>4. opened' = NoIndex /\ cached' = NoIndex /\ now' \in 0..Horizon /\ Return
  BY <1>1 DEF FinishIngest, Inv, TypeOK
<1>5. Held' = builder' /\ builder' # NoIndex
  BY <1>3, <1>4, LinkIndexAssumption DEF Held
<1>6. Inv'
  BY <1>2, <1>3, <1>4, <1>5, Returned
<1>. QED
  BY <1>1, <1>2, <1>3, <1>5, <1>6 DEF Kept

-----------------------------------------------------------------------------
(***************************************************************************)
(* The steps of a refresh.                                                 *)
(***************************************************************************)

\* The plan and the evictions of a refresh are of different links, and all of
\* them were there.
LEMMA PlanFacts ==
  ASSUME NEW docs \in Documents, NEW o \in Options
  PROVE  /\ AgedOut(docs, o) \subseteq DOMAIN docs /\ StaleLinks(docs, o) \subseteq DOMAIN docs
         /\ AgedOut(docs, o) \cap StaleLinks(docs, o) = {}
         /\ IsFiniteSet(AgedOut(docs, o)) /\ IsFiniteSet(StaleLinks(docs, o))
         /\ Cardinality(AgedOut(docs, o)) \in Nat /\ Cardinality(StaleLinks(docs, o)) \in Nat
         /\ Cardinality(AgedOut(docs, o) \cup StaleLinks(docs, o)) =
              Cardinality(AgedOut(docs, o)) + Cardinality(StaleLinks(docs, o))
<1>. DEFINE aged == AgedOut(docs, o)
            old == StaleLinks(docs, o)
<1>1. aged \subseteq DOMAIN docs /\ old \subseteq DOMAIN docs /\ aged \cap old = {}
  BY DEF AgedOut, StaleLinks
<1>. HIDE DEF aged, old
<1>2. IsFiniteSet(aged) /\ IsFiniteSet(old)
  BY <1>1, LinkIndexAssumption, IsDocuments, FS_Subset
<1>3. /\ Cardinality(aged) \in Nat /\ Cardinality(old) \in Nat
      /\ Cardinality(aged \cup old) = Cardinality(aged) + Cardinality(old)
  <2>1. Cardinality(aged \cap old) = 0
    BY <1>1, FS_EmptySet
  <2>2. Cardinality(aged) \in Nat /\ Cardinality(old) \in Nat
    BY <1>2, FS_CardinalityType
  <2>3. Cardinality(aged \cup old) = Cardinality(aged) + Cardinality(old) - Cardinality(aged \cap old)
    BY <1>2, FS_Union
  <2>. QED
    BY <2>1, <2>2, <2>3
<1>. QED
  BY <1>1, <1>2, <1>3 DEF aged, old

LEMMA StartRefreshStep ==
  ASSUME Inv, NEW o \in Options, StartRefresh(o)
  PROVE  /\ Inv'
         /\ DOMAIN Held \ DOMAIN Held' = AgedOut(Held, o) /\ opts' = o
<1>. DEFINE docs == Held
            aged == AgedOut(docs, o)
            old == StaleLinks(docs, o)
            plan == {[url |-> p, etag |-> docs[p].etag] : p \in old}
<1>1. /\ docs \in Documents /\ Sound(docs)
      /\ docs \in [DOMAIN docs -> Document] /\ DOMAIN docs \subseteq Pages
  BY HeldIsDocuments, IsDocuments DEF Inv, TagsOK
<1>2. /\ aged \subseteq DOMAIN docs /\ old \subseteq DOMAIN docs /\ aged \cap old = {}
      /\ Cardinality(aged) \in Nat /\ Cardinality(old) \in Nat
      /\ Cardinality(aged \cup old) = Cardinality(aged) + Cardinality(old)
  BY <1>1, PlanFacts
<1>3. IsFiniteSet(plan) /\ Cardinality(plan) = Cardinality(old)
  BY <1>1, <1>2, PlanSize
<1>4. /\ task = "idle" /\ task' = "refresh" /\ opts' = o /\ started' = now
      /\ builder' = Without(docs, aged) /\ opened' = NoIndex /\ cached' = NoIndex
      /\ stale' = plan
      /\ report' = [EmptyReport EXCEPT !.removed = Cardinality(aged)]
      /\ planned' = Cardinality(aged \cup old)
      /\ UNCHANGED <<now, pin, in_flight, pending, dead, yields>>
  BY DEF StartRefresh, Materialize, Invalidated
<1>5. in_flight' = {} /\ pending' = <<>>
  BY <1>4 DEF Inv, LocalsOK
<1>. HIDE DEF docs, aged, old
<1>6. /\ plan \subseteq [url : Pages, etag : Tags]
      /\ \A f \in plan : f.url \in DOMAIN docs \ aged /\ f.etag = docs[f.url].etag
      /\ \A f, g \in plan : f.url = g.url => f = g
  BY <1>1, <1>2 DEF Document
<1>. HIDE DEF plan
<1>7. /\ builder' \in Documents /\ builder' # NoIndex
      /\ DOMAIN builder' = DOMAIN docs \ aged
      /\ \A p \in DOMAIN docs \ aged : builder'[p] = docs[p]
  BY <1>1, <1>4, WithoutFacts, LinkIndexAssumption
<1>8. /\ report' \in Reports /\ report'.pages = {}
      /\ report'.updated = 0 /\ report'.unchanged = 0 /\ report'.failed = 0
      /\ report'.removed = Cardinality(aged)
  BY <1>2, <1>4 DEF EmptyReport, Reports
<1>9. Held' = builder'
  BY <1>4 DEF Held
<1>10. TypeOK'
  <2>1. planned' \in Nat /\ now' \in 0..Horizon /\ started' \in 0..Horizon
    BY <1>2, <1>4 DEF Inv, TypeOK
  <2>. QED
    BY <1>4, <1>5, <1>6, <1>7, <1>8, <2>1 DEF Inv, TypeOK, Reports
<1>11. LocalsOK' /\ RepsOK'
  BY <1>4, <1>7 DEF LocalsOK, RepsOK
<1>12. TagsOK'
  BY <1>1, <1>5, <1>7, <1>9 DEF TagsOK, Sound, Tagged
<1>13. PlanOK'
  BY <1>3, <1>4, <1>5, <1>6, <1>7, FS_EmptySet DEF PlanOK, ToAnswer
<1>14. OnceOK'
  BY <1>5, <1>8 DEF OnceOK
<1>15. Accounted'
  <2>1. Cardinality(stale') = Cardinality(old) /\ Cardinality(in_flight') = 0 /\ Len(pending') = 0
    BY <1>3, <1>4, <1>5, FS_EmptySet
  <2>. QED
    BY <1>2, <1>4, <1>8, <2>1 DEF Accounted
<1>16. ReportedIsSo'
  BY <1>8 DEF ReportedIsSo
<1>17. Inv'
  BY <1>10, <1>11, <1>12, <1>13, <1>14, <1>15, <1>16 DEF Inv
<1>18. DOMAIN docs \ DOMAIN Held' = aged
  BY <1>2, <1>7, <1>9
<1>. QED
  BY <1>4, <1>17, <1>18 DEF docs, aged

\* During a refresh: what there is to show of a step.
LEMMA Refreshing ==
  ASSUME Inv, task = "refresh",
         UNCHANGED <<now, opened, cached, task, pin, opts, started, planned, yields>>,
         builder' \in Documents, Sound(builder'),
         report' \in Reports, pending' \in Seq(Page), dead' \subseteq Pages,
         stale' \subseteq [url : Pages, etag : Tags], in_flight' \subseteq [url : Pages, etag : Tags],
         \A i \in DOMAIN pending' : SoundTag(pending'[i]),
         PlanOK', OnceOK',
         Settled(report') + Cardinality(stale') + Cardinality(in_flight') + Len(pending') = planned,
         \A outcome \in report'.pages : SoIn(builder', outcome)
  PROVE  Inv'
<1>1. opened = NoIndex /\ cached = NoIndex /\ Held' = builder'
  BY Running DEF Inv, Held
<1>2. builder' # NoIndex
  BY LinkIndexAssumption
<1>3. TypeOK'
  BY DEF Inv, TypeOK, Reports, Page
<1>4. LocalsOK' /\ RepsOK' /\ TagsOK'
  BY <1>1, <1>2 DEF LocalsOK, RepsOK, TagsOK
<1>5. Accounted'
  BY DEF Accounted, Settled
<1>6. ReportedIsSo'
  BY DEF ReportedIsSo, SoIn
<1>. QED
  BY <1>3, <1>4, <1>5, <1>6 DEF Inv

LEMMA LaunchFetchStep ==
  ASSUME Inv, NEW f \in stale, LaunchFetch(f)
  PROVE  Inv' /\ Kept
<1>1. /\ task = "refresh" /\ stale' = stale \ {f} /\ in_flight' = in_flight \cup {f}
      /\ UNCHANGED <<now, opened, builder, cached, task, pin, opts, started, pending, report,
                     planned, dead, yields>>
  BY DEF LaunchFetch, index, history
<1>2. IsFiniteSet(stale) /\ IsFiniteSet(in_flight) /\ f \notin in_flight
  BY DEF Inv, PlanOK
<1>3. /\ IsFiniteSet(stale') /\ IsFiniteSet(in_flight')
      /\ Cardinality(stale) \in Nat /\ Cardinality(in_flight) \in Nat
      /\ Cardinality(stale') = Cardinality(stale) - 1
      /\ Cardinality(in_flight') = Cardinality(in_flight) + 1
  BY <1>1, <1>2, FS_CardinalityType, FS_RemoveElement, FS_AddElement
<1>4. ToAnswer' = ToAnswer
  BY <1>1 DEF ToAnswer
<1>5. PlanOK'
  BY <1>1, <1>3, <1>4 DEF Inv, PlanOK
<1>6. OnceOK'
  BY <1>1, <1>4 DEF Inv, OnceOK
<1>7. builder \in Documents /\ Sound(builder) /\ Held = builder
  BY <1>1, Running DEF Inv, TagsOK
<1>8. pending \in Seq(Page) /\ Len(pending) \in Nat /\ report \in Reports /\ Settled(report) \in Nat
  BY DEF Inv, TypeOK, Page, Reports, Settled
<1>9. Settled(report) + Cardinality(stale) + Cardinality(in_flight) + Len(pending) = planned
  BY <1>1 DEF Inv, Accounted, Settled
<1>10. Settled(report') + Cardinality(stale') + Cardinality(in_flight') + Len(pending') = planned
  BY <1>1, <1>3, <1>8, <1>9
<1>11. \A outcome \in report'.pages : SoIn(builder', outcome)
  BY <1>1 DEF Inv, ReportedIsSo, SoIn
<1>12. /\ stale' \subseteq [url : Pages, etag : Tags] /\ in_flight' \subseteq [url : Pages, etag : Tags]
       /\ dead' \subseteq Pages
  BY <1>1 DEF Inv, TypeOK
<1>13. Inv'
  BY <1>1, <1>5, <1>6, <1>7, <1>8, <1>10, <1>11, <1>12, Refreshing DEF Inv, TagsOK
<1>14. Held' = Held
  BY <1>1 DEF Held
<1>. QED
  BY <1>13, <1>14 DEF Kept

\* What is known when the answer to a fetch arrives.
LEMMA AnsweredFacts ==
  ASSUME Inv, NEW f \in in_flight, Answered(f)
  PROVE  /\ task = "refresh" /\ in_flight' = in_flight \ {f} /\ stale' = stale
         /\ UNCHANGED <<now, opened, cached, task, pin, opts, started, planned, yields>>
         /\ f.url \in Pages /\ f.url \in DOMAIN builder /\ f.etag \in Tags
         /\ builder \in Documents /\ Sound(builder) /\ opened = NoIndex /\ Held = builder
         /\ report \in Reports /\ Settled(report) \in Nat /\ started \in 0..Horizon
         /\ pending \in Seq(Page) /\ Len(pending) \in Nat /\ dead \subseteq Pages
         /\ stale' \subseteq [url : Pages, etag : Tags] /\ in_flight' \subseteq [url : Pages, etag : Tags]
         /\ \A i \in DOMAIN pending : SoundTag(pending[i]) /\ pending[i].url # f.url
         /\ Settled(report) + Cardinality(stale) + Cardinality(in_flight) + Len(pending) = planned
         /\ \A outcome \in report.pages : SoIn(builder, outcome) /\ outcome[1] # f.url
<1>1. /\ task = "refresh" /\ in_flight' = in_flight \ {f} /\ stale' = stale
      /\ UNCHANGED <<now, opened, cached, task, pin, opts, started, planned, yields>>
  BY DEF Answered
<1>2. f \in ToAnswer /\ f \in [url : Pages, etag : Tags]
  BY DEF ToAnswer, Inv, TypeOK
<1>3. f.url \in DOMAIN builder /\ f.url \in Pages /\ f.etag \in Tags
  BY <1>2 DEF Inv, PlanOK
<1>4. builder \in Documents /\ Sound(builder) /\ opened = NoIndex /\ Held = builder
  BY <1>1, Running DEF Inv, TagsOK
<1>5. /\ report \in Reports /\ started \in 0..Horizon /\ pending \in Seq(Page) /\ dead \subseteq Pages
      /\ stale' \subseteq [url : Pages, etag : Tags] /\ in_flight' \subseteq [url : Pages, etag : Tags]
  BY <1>1 DEF Inv, TypeOK, Reports, Page
<1>6. Settled(report) \in Nat /\ Len(pending) \in Nat
  BY <1>5 DEF Settled, Reports
<1>7. \A i \in DOMAIN pending : SoundTag(pending[i]) /\ pending[i].url # f.url
  BY <1>1, <1>2 DEF Inv, TagsOK, OnceOK
<1>8. Settled(report) + Cardinality(stale) + Cardinality(in_flight) + Len(pending) = planned
  BY <1>1 DEF Inv, Accounted, Settled
<1>9. \A outcome \in report.pages : SoIn(builder, outcome) /\ outcome[1] # f.url
  BY <1>1, <1>2 DEF Inv, ReportedIsSo, SoIn, OnceOK
<1>. QED
  BY <1>1, <1>3, <1>4, <1>5, <1>6, <1>7, <1>8, <1>9

\* A 304 and a body without content do the same to the record.
LEMMA TouchedStep ==
  ASSUME Inv, NEW f \in in_flight, Answered(f), builder' = TouchAt(builder, f.url, started),
         report' = Counted(report, "unchanged", f.url), UNCHANGED <<pending, dead>>
  PROVE  Inv' /\ Kept
<1>1. /\ builder \in Documents /\ started \in 0..Horizon /\ f.url \in DOMAIN builder /\ f.url \in Pages
      /\ report \in Reports /\ Sound(builder)
  BY AnsweredFacts
<1>2. /\ builder' \in Documents /\ DOMAIN builder' = DOMAIN builder
      /\ \A p \in DOMAIN builder :
           /\ builder'[p].etag = builder[p].etag /\ builder'[p].content_hash = builder[p].content_hash
           /\ builder'[p].fetched_at = IF p = f.url THEN started ELSE builder[p].fetched_at
  BY <1>1, TouchFacts
<1>3. /\ report' \in Reports /\ Settled(report') = Settled(report) + 1
      /\ report'.pages = report.pages \cup {<<f.url, "unchanged">>}
  BY <1>1, CountedFacts
<1>4. Sound(builder')
  BY <1>1, <1>2 DEF Sound, Tagged
<1>5. /\ PlanOK' /\ Cardinality(stale) \in Nat /\ Cardinality(in_flight') \in Nat
      /\ Cardinality(in_flight) = Cardinality(in_flight') + 1
      /\ \A g \in ToAnswer' : g \in ToAnswer /\ g.url # f.url
  BY <1>2, AnsweredFacts, AnswerPlan
<1>6. OnceOK'
  BY <1>3, <1>5, AnsweredFacts DEF Inv, OnceOK
<1>7. Settled(report') + Cardinality(stale') + Cardinality(in_flight') + Len(pending') = planned
  BY <1>3, <1>5, AnsweredFacts
<1>8. \A outcome \in report'.pages : SoIn(builder', outcome)
  BY <1>1, <1>2, <1>3, AnsweredFacts DEF SoIn
<1>9. Inv'
  BY <1>2, <1>3, <1>4, <1>5, <1>6, <1>7, <1>8, AnsweredFacts, Refreshing
<1>10. Held' = builder' /\ Held = builder
  BY AnsweredFacts DEF Held
<1>. QED
  BY <1>2, <1>9, <1>10 DEF Kept

LEMMA ChangedStep ==
  ASSUME Inv, NEW f \in in_flight, NEW content \in Contents, NEW tag \in {content, NoTag},
         Changed(f, content, tag)
  PROVE  Inv' /\ Kept
<1>. DEFINE page == Extracted(f.url, content, tag)
<1>1. Answered(f) /\ pending' = Append(pending, page) /\ UNCHANGED <<builder, report, dead>>
  BY DEF Changed
<1>2. page \in Page /\ page.url = f.url /\ SoundTag(page)
  BY <1>1, AnsweredFacts DEF Page, Extracted, SoundTag, Tags
<1>. HIDE DEF page
<1>3. /\ pending' \in Seq(Page) /\ Len(pending') = Len(pending) + 1
      /\ \A i \in DOMAIN pending : pending'[i] = pending[i]
      /\ pending'[Len(pending) + 1] = page
      /\ \A i \in DOMAIN pending' : i \in DOMAIN pending \/ i = Len(pending) + 1
  BY <1>1, <1>2, AnsweredFacts
<1>4. /\ PlanOK' /\ Cardinality(stale) \in Nat /\ Cardinality(in_flight') \in Nat
      /\ Cardinality(in_flight) = Cardinality(in_flight') + 1
      /\ \A g \in ToAnswer' : g \in ToAnswer /\ g.url # f.url
  BY <1>1, AnsweredFacts, AnswerPlan
<1>5. \A i \in DOMAIN pending' : SoundTag(pending'[i])
  BY <1>1, <1>2, <1>3, AnsweredFacts
<1>6. OnceOK'
  <2>1. \A i, j \in DOMAIN pending' : pending'[i].url = pending'[j].url => i = j
    BY <1>1, <1>2, <1>3, AnsweredFacts DEF Inv, OnceOK
  <2>2. \A i \in DOMAIN pending', g \in ToAnswer' : pending'[i].url # g.url
    BY <1>1, <1>2, <1>3, <1>4, AnsweredFacts DEF Inv, OnceOK
  <2>3. \A outcome \in report'.pages :
          /\ \A g \in ToAnswer' : outcome[1] # g.url
          /\ \A i \in DOMAIN pending' : outcome[1] # pending'[i].url
    BY <1>1, <1>2, <1>3, <1>4, AnsweredFacts DEF Inv, OnceOK
  <2>. QED
    BY <2>1, <2>2, <2>3 DEF OnceOK
<1>7. Settled(report') + Cardinality(stale') + Cardinality(in_flight') + Len(pending') = planned
  <2>1. /\ report' = report /\ stale' = stale /\ Settled(report) \in Nat /\ Len(pending) \in Nat
        /\ Settled(report) + Cardinality(stale) + Cardinality(in_flight) + Len(pending) = planned
    BY <1>1, AnsweredFacts
  <2>2. Settled(report') = Settled(report) /\ Cardinality(stale') = Cardinality(stale)
    BY <2>1
  <2>3. Len(pending') = Len(pending) + 1
    BY <1>3
  <2>4. /\ Cardinality(stale) \in Nat /\ Cardinality(in_flight') \in Nat
        /\ Cardinality(in_flight) = Cardinality(in_flight') + 1
    BY <1>4
  <2>. QED
    BY <2>1, <2>2, <2>3, <2>4
<1>8. \A outcome \in report'.pages : SoIn(builder', outcome)
  BY <1>1, AnsweredFacts DEF SoIn
<1>9. Inv'
  BY <1>1, <1>3, <1>4, <1>5, <1>6, <1>7, <1>8, AnsweredFacts, Refreshing
<1>10. Held' = Held
  BY <1>1, AnsweredFacts DEF Held
<1>. QED
  BY <1>9, <1>10 DEF Kept

LEMMA EvictedStep ==
  ASSUME Inv, NEW f \in in_flight, Answered(f), Evictable(f), f.url \in dead', dead' \subseteq Pages,
         builder' = Without(builder, {f.url}), report' = Counted(report, "removed", f.url),
         UNCHANGED pending
  PROVE  /\ Inv'
         /\ \A p \in DOMAIN Held : p \notin DOMAIN Held' => ~Held[p].pinned /\ p \in dead'
<1>1. builder \in Documents /\ f.url \in Pages /\ report \in Reports /\ Sound(builder)
  BY AnsweredFacts
<1>2. /\ builder' \in Documents /\ DOMAIN builder' = DOMAIN builder \ {f.url}
      /\ \A p \in DOMAIN builder \ {f.url} : builder'[p] = builder[p]
  BY <1>1, WithoutFacts
<1>3. /\ report' \in Reports /\ Settled(report') = Settled(report) + 1
      /\ report'.pages = report.pages \cup {<<f.url, "removed">>}
  BY <1>1, CountedFacts
<1>4. Sound(builder')
  BY <1>1, <1>2 DEF Sound, Tagged
<1>5. /\ PlanOK' /\ Cardinality(stale) \in Nat /\ Cardinality(in_flight') \in Nat
      /\ Cardinality(in_flight) = Cardinality(in_flight') + 1
      /\ \A g \in ToAnswer' : g \in ToAnswer /\ g.url # f.url
  BY <1>2, AnsweredFacts, AnswerPlan
<1>6. OnceOK'
  BY <1>3, <1>5, AnsweredFacts DEF Inv, OnceOK
<1>7. Settled(report') + Cardinality(stale') + Cardinality(in_flight') + Len(pending') = planned
  BY <1>3, <1>5, AnsweredFacts
<1>8. \A outcome \in report'.pages : SoIn(builder', outcome)
  <2>1. \A outcome \in report.pages : SoIn(builder', outcome)
    <3>. SUFFICES ASSUME NEW outcome \in report.pages PROVE SoIn(builder', outcome)
      OBVIOUS
    <3>1. SoIn(builder, outcome) /\ outcome[1] # f.url /\ started' = started
      BY AnsweredFacts
    <3>. QED
      BY <1>2, <3>1 DEF SoIn
  <2>2. SoIn(builder', <<f.url, "removed">>)
    BY <1>2 DEF SoIn
  <2>. QED
    BY <1>3, <2>1, <2>2
<1>9. Inv'
  BY <1>2, <1>3, <1>4, <1>5, <1>6, <1>7, <1>8, AnsweredFacts, Refreshing
<1>10. Held' = builder' /\ Held = builder
  BY AnsweredFacts DEF Held
<1>. QED
  BY <1>2, <1>9, <1>10 DEF Evictable

LEMMA CountFailedStep ==
  ASSUME Inv, NEW f \in in_flight, Answered(f), report' = CountFailed, dead' \subseteq Pages,
         UNCHANGED <<builder, pending>>
  PROVE  Inv' /\ Kept
<1>1. report \in Reports
  BY AnsweredFacts
<1>2. /\ report' \in Reports /\ report'.pages = report.pages
      /\ Settled(report') = Settled(report) + 1
  BY <1>1 DEF CountFailed, Reports, Settled
<1>3. /\ PlanOK' /\ Cardinality(stale) \in Nat /\ Cardinality(in_flight') \in Nat
      /\ Cardinality(in_flight) = Cardinality(in_flight') + 1
      /\ \A g \in ToAnswer' : g \in ToAnswer /\ g.url # f.url
  BY AnsweredFacts, AnswerPlan
<1>4. OnceOK'
  BY <1>2, <1>3, AnsweredFacts DEF Inv, OnceOK
<1>5. Settled(report') + Cardinality(stale') + Cardinality(in_flight') + Len(pending') = planned
  BY <1>2, <1>3, AnsweredFacts
<1>6. \A outcome \in report'.pages : SoIn(builder', outcome)
  BY <1>2, AnsweredFacts DEF SoIn
<1>7. Inv'
  BY <1>2, <1>3, <1>4, <1>5, <1>6, AnsweredFacts, Refreshing
<1>8. Held' = Held
  BY AnsweredFacts DEF Held
<1>. QED
  BY <1>7, <1>8 DEF Kept

\* The failure of a fetch evicts its link or is counted.
LEMMA FailedStep ==
  ASSUME Inv, NEW f \in in_flight, NEW failure \in {"denied", "missing", "error"}, Failed(f, failure)
  PROVE  /\ Inv'
         /\ \A p \in DOMAIN Held : p \notin DOMAIN Held' => ~Held[p].pinned /\ p \in dead'
<1>1. /\ Answered(f) /\ pending' = pending
      /\ dead' = IF failure # "error" /\ Evictable(f) THEN dead \cup {f.url} ELSE dead
  BY DEF Failed
<1>2. dead' \subseteq Pages
  BY <1>1, AnsweredFacts
<1>3. CASE Classified(failure) = "gone" /\ Evictable(f)
  <2>1. /\ f.url \in dead' /\ builder' = Without(builder, {f.url})
        /\ report' = Counted(report, "removed", f.url)
    BY <1>1, <1>3 DEF Failed, Classified
  <2>. QED
    BY <1>1, <1>2, <1>3, <2>1, EvictedStep
<1>4. CASE ~(Classified(failure) = "gone" /\ Evictable(f))
  <2>1. report' = CountFailed /\ builder' = builder
    BY <1>4 DEF Failed
  <2>. QED
    BY <1>1, <1>2, <2>1, CountFailedStep DEF Kept
<1>. QED
  BY <1>3, <1>4

\* Embedding starts after the last answer.
LEMMA DrainedFacts ==
  ASSUME Inv, Drained
  PROVE  task = "refresh" /\ stale = {} /\ in_flight = {}
<1>1. opts.concurrency \in Nat
  BY LinkIndexAssumption DEF Inv, TypeOK, RefreshOptions
<1>2. Cardinality(in_flight) = 0 /\ Slots \in Nat \ {0}
  BY <1>1, FS_EmptySet DEF Drained, Slots
<1>. QED
  BY <1>2 DEF Drained, CanLaunch

LEMMA UpsertChunkStep ==
  ASSUME Inv, UpsertChunk
  PROVE  Inv' /\ Kept
<1>. DEFINE acc == RefreshedUpTo[Len(Chunk)]
<1>1. /\ task = "refresh" /\ stale = {} /\ in_flight = {}
      /\ builder' = acc.docs /\ report' = acc.report /\ pending' = Rest
      /\ UNCHANGED <<now, opened, cached, task, pin, opts, started, stale, in_flight, planned,
                     dead, yields>>
  BY DrainedFacts DEF UpsertChunk, history
<1>2. builder \in Documents /\ Sound(builder) /\ opened = NoIndex /\ Held = builder
  BY <1>1, Running DEF Inv, TagsOK
<1>3. /\ acc \in Accs /\ Sound(acc.docs) /\ DOMAIN builder \subseteq DOMAIN acc.docs
      /\ Settled(acc.report) = Settled(report) + Len(Chunk)
      /\ \A outcome \in acc.report.pages :
           /\ SoIn(acc.docs, outcome)
           /\ \/ outcome \in report.pages
              \/ \E i \in 1..Len(Chunk) : outcome[1] = pending[i].url
  BY <1>1, <1>2, ChunkFacts DEF Inv, TagsOK
<1>4. /\ Len(Chunk) \in Nat /\ Len(Chunk) <= Len(pending) /\ pending \in Seq(Page)
      /\ Rest \in Seq(Page) /\ Len(Rest) = Len(pending) - Len(Chunk)
      /\ \A i \in 1..Len(Rest) : Rest[i] = pending[Len(Chunk) + i]
  BY ChunkIs DEF Inv, TypeOK, Page
<1>5. /\ DOMAIN pending = 1..Len(pending) /\ DOMAIN Rest = 1..Len(Rest) /\ Len(pending) \in Nat
      /\ \A i \in 1..Len(Chunk) : i \in DOMAIN pending
      /\ \A i \in DOMAIN Rest : Len(Chunk) + i \in DOMAIN pending
  BY <1>4
<1>. HIDE DEF acc
<1>6. acc.docs \in Documents /\ acc.report \in Reports
  BY <1>3 DEF Accs
<1>7. \A i \in DOMAIN pending' : SoundTag(pending'[i])
  BY <1>1, <1>4, <1>5 DEF Inv, TagsOK
<1>8. PlanOK'
  BY <1>1, FS_EmptySet DEF PlanOK, ToAnswer
<1>9. OnceOK'
  <2>1. \A i, j \in DOMAIN pending' : pending'[i].url = pending'[j].url => i = j
    <3>. SUFFICES ASSUME NEW i \in DOMAIN Rest, NEW j \in DOMAIN Rest, Rest[i].url = Rest[j].url
                  PROVE  i = j
      BY <1>1
    <3>1. Len(Chunk) + i = Len(Chunk) + j
      BY <1>1, <1>4, <1>5 DEF Inv, OnceOK
    <3>. QED
      BY <1>4, <1>5, <3>1
  <2>2. \A outcome \in report'.pages, i \in DOMAIN pending' : outcome[1] # pending'[i].url
    <3>. SUFFICES ASSUME NEW outcome \in acc.report.pages, NEW i \in DOMAIN Rest
                  PROVE  outcome[1] # pending[Len(Chunk) + i].url
      BY <1>1, <1>4, <1>5
    <3>1. CASE outcome \in report.pages
      BY <1>1, <1>5, <3>1 DEF Inv, OnceOK
    <3>2. CASE \E j \in 1..Len(Chunk) : outcome[1] = pending[j].url
      <4>1. PICK j \in 1..Len(Chunk) : outcome[1] = pending[j].url
        BY <3>2
      <4>2. j # Len(Chunk) + i
        BY <1>4, <1>5
      <4>. QED
        BY <1>1, <1>5, <4>1, <4>2 DEF Inv, OnceOK
    <3>. QED
      BY <1>3, <3>1, <3>2
  <2>3. ToAnswer' = {}
    BY <1>1 DEF ToAnswer
  <2>. QED
    BY <2>1, <2>2, <2>3 DEF OnceOK
<1>10. Settled(report') + Cardinality(stale') + Cardinality(in_flight') + Len(pending') = planned
  <2>1. Settled(report) + Cardinality(stale) + Cardinality(in_flight) + Len(pending) = planned
    BY <1>1 DEF Inv, Accounted, Settled
  <2>2. Settled(report) \in Nat
    BY DEF Inv, TypeOK, Settled
  <2>3. /\ Cardinality(stale) = 0 /\ Cardinality(in_flight) = 0
        /\ Cardinality(stale') = 0 /\ Cardinality(in_flight') = 0
    BY <1>1, FS_EmptySet
  <2>4. Settled(report') = Settled(report) + Len(Chunk) /\ Len(pending') = Len(pending) - Len(Chunk)
    BY <1>1, <1>3, <1>4
  <2>. QED
    BY <1>4, <1>5, <2>1, <2>2, <2>3, <2>4
<1>11. \A outcome \in report'.pages : SoIn(builder', outcome)
  BY <1>1, <1>3 DEF SoIn
<1>12. /\ dead' \subseteq Pages /\ stale' \subseteq [url : Pages, etag : Tags]
       /\ in_flight' \subseteq [url : Pages, etag : Tags]
  BY <1>1 DEF Inv, TypeOK
<1>13. Inv'
  BY <1>1, <1>3, <1>4, <1>6, <1>7, <1>8, <1>9, <1>10, <1>11, <1>12, Refreshing
<1>14. Held' = builder'
  BY <1>1, <1>2 DEF Held
<1>. QED
  BY <1>1, <1>2, <1>3, <1>13, <1>14 DEF Kept

LEMMA FinishRefreshStep ==
  ASSUME Inv, FinishRefresh
  PROVE  Inv' /\ Kept
<1>1. /\ opened = NoIndex /\ cached = NoIndex /\ Held = builder
      /\ builder \in Documents /\ Sound(builder)
  BY DrainedFacts, Running DEF Inv, TagsOK, FinishRefresh
<1>2. opened' = NoIndex /\ cached' = NoIndex /\ builder' = builder /\ now' = now /\ Return
  BY <1>1 DEF FinishRefresh
<1>3. Held' = builder' /\ builder' # NoIndex
  BY <1>1, <1>2, LinkIndexAssumption DEF Held
<1>4. Inv'
  BY <1>1, <1>2, <1>3, Returned DEF Inv, TypeOK
<1>. QED
  BY <1>1, <1>2, <1>3, <1>4 DEF Kept

-----------------------------------------------------------------------------
(***************************************************************************)
(* The theorems.                                                           *)
(***************************************************************************)

LEMMA InitInv == Init => Inv
<1>. SUFFICES ASSUME Init PROVE Inv
  OBVIOUS
<1>1. NoDocuments \in Documents /\ NoDocuments # NoIndex /\ DOMAIN NoDocuments = {}
  <2>1. NoDocuments \in [{} -> Document] /\ DOMAIN NoDocuments = {}
    BY DEF NoDocuments
  <2>2. NoDocuments \in Documents
    BY <2>1, IsDocuments
  <2>. QED
    BY <2>1, <2>2, LinkIndexAssumption
<1>2. /\ opened \in Documents \cup {NoIndex} /\ builder \in Documents \cup {NoIndex}
      /\ (opened = NoIndex) # (builder = NoIndex)
  BY <1>1, LinkIndexAssumption DEF Init
<1>3. TypeOK
  <2>1. AnyOptions \in Options
    BY LinkIndexAssumption DEF AnyOptions
  <2>2. 0 \in 0..Horizon /\ 0 \in 0..MaxYields /\ 0 \in Nat
    BY LinkIndexAssumption
  <2>3. /\ now \in 0..Horizon /\ cached \in Documents \cup {NoIndex}
        /\ task \in {"idle", "ingest", "refresh"} /\ pin \in BOOLEAN /\ opts \in Options
        /\ started \in 0..Horizon /\ yields \in 0..MaxYields /\ planned \in Nat
    BY <2>1, <2>2 DEF Init
  <2>4. /\ stale \subseteq [url : Pages, etag : Tags] /\ in_flight \subseteq [url : Pages, etag : Tags]
        /\ dead \subseteq Pages
        /\ pending \in Seq([url : Pages, content_hash : Contents, etag : Tags])
    BY DEF Init
  <2>5. report \in Reports
    BY DEF Init, EmptyReport, Reports
  <2>. QED
    BY <1>2, <2>3, <2>4, <2>5 DEF TypeOK, Reports
<1>4. LocalsOK /\ RepsOK
  BY <1>2 DEF Init, LocalsOK, RepsOK
<1>5. Sound(Held)
  <2>1. CASE opened \in Images
    BY <2>1, LinkIndexAssumption DEF Held, Sound, TagsNameContents
  <2>2. CASE opened = NoIndex /\ builder = NoDocuments
    BY <1>1, <2>2 DEF Held, Sound, Tagged
  <2>. QED
    BY <2>1, <2>2 DEF Init
<1>6. TagsOK
  BY <1>5 DEF Init, TagsOK
<1>7. PlanOK /\ OnceOK /\ Accounted /\ ReportedIsSo
  BY FS_EmptySet DEF Init, PlanOK, ToAnswer, OnceOK, Accounted, ReportedIsSo
<1>. QED
  BY <1>3, <1>4, <1>6, <1>7 DEF Inv

\* The invariant under each step, with the reason for every link a step loses.
Justified ==
  \A p \in DOMAIN Held :
    p \notin DOMAIN Held' =>
      \/ Reload
      \/ /\ ~Held[p].pinned
         /\ p \in dead' \/ Age(Held, p) > opts'.max_age

LEMMA NextInv ==
  ASSUME Inv, [Next]_vars
  PROVE  Inv' /\ Justified
<1>1. ASSUME Inv' /\ Kept PROVE Inv' /\ Justified
  BY <1>1 DEF Kept, Justified
<1>2. CASE Read \/ Freeze \/ StartIngest \/ Abort \/ Tick
  BY <1>1, <1>2, ReadStep, FreezeStep, StartIngestStep, AbortStep, TickStep
<1>3. CASE Reload
  BY <1>3, ReloadStep DEF Justified
<1>4. CASE \E prefix \in SUBSET Pages, pinned \in BOOLEAN : SetPinned(prefix, pinned)
  BY <1>1, <1>4, SetPinnedStep
<1>5. CASE \E o \in Options : StartRefresh(o)
  <2>1. PICK o \in Options : StartRefresh(o)
    BY <1>5
  <2>2. Inv' /\ DOMAIN Held \ DOMAIN Held' = AgedOut(Held, o) /\ opts' = o
    BY <2>1, StartRefreshStep
  <2>. QED
    BY <2>2 DEF Justified, AgedOut
<1>6. CASE Ingest
  BY <1>1, <1>6, ReceiveStep, FlushFullStep, FinishIngestStep DEF Ingest
<1>7. CASE Refresh
  <2>1. CASE \E f \in stale : LaunchFetch(f)
    BY <1>1, <2>1, LaunchFetchStep
  <2>2. CASE \E f \in in_flight : Answer(f)
    <3>1. PICK f \in in_flight : Answer(f)
      BY <2>2
    <3>2. CASE NotModified(f) \/ ChangedBlank(f)
      BY <1>1, <3>2, TouchedStep DEF NotModified, ChangedBlank
    <3>3. CASE \E c \in Contents : \E tag \in {c, NoTag} : Changed(f, c, tag)
      BY <1>1, <3>3, ChangedStep
    <3>4. CASE \E failure \in {"denied", "missing", "error"} : Failed(f, failure)
      BY <3>4, FailedStep DEF Justified
    <3>. QED
      BY <3>1, <3>2, <3>3, <3>4 DEF Answer
  <2>3. CASE UpsertChunk \/ FinishRefresh
    BY <1>1, <2>3, UpsertChunkStep, FinishRefreshStep
  <2>. QED
    BY <1>7, <2>1, <2>2, <2>3 DEF Refresh
<1>8. CASE UNCHANGED vars
  <2>. USE <1>8 DEF vars, index, work, history
  <2>1. TypeOK' /\ LocalsOK' /\ RepsOK'
    BY DEF Inv, TypeOK, LocalsOK, RepsOK
  <2>2. Held' = Held
    BY DEF Held
  <2>3. TagsOK'
    BY <2>2 DEF Inv, TagsOK
  <2>4. PlanOK' /\ OnceOK'
    BY DEF Inv, PlanOK, OnceOK, ToAnswer
  <2>5. Accounted' /\ ReportedIsSo'
    BY DEF Inv, Accounted, ReportedIsSo
  <2>. QED
    BY <2>1, <2>2, <2>3, <2>4, <2>5 DEF Inv, Justified
<1>. QED
  BY <1>2, <1>3, <1>4, <1>5, <1>6, <1>7, <1>8 DEF Next

LEMMA Invariant == Spec => []Inv
<1>1. Inv /\ [Next]_vars => Inv'
  BY NextInv
<1>. QED
  BY InitInv, <1>1, PTL DEF Spec

\* Whatever call failed or was dropped half-way, one representation holds the
\* documents and a search reads what the index holds.
THEOREM SearchesReadTheIndex == Spec => []ReadsCurrent
<1>1. Inv => ReadsCurrent
  BY LinkIndexAssumption DEF Inv, TypeOK, RepsOK, ReadsCurrent, Searched, Held
<1>. QED
  BY <1>1, Invariant, PTL

\* When tags name contents in the images an index is opened from, they do in
\* every index, and the record behind a conditional fetch is the one that had
\* its tag: a 304 confirms what the index holds.
THEOREM ConfirmsWhatIsHeld ==
  ASSUME TagsNameContents
  PROVE  Spec => []NotModifiedConfirms
<1>1. Inv => NotModifiedConfirms
  BY DEF Inv, TagsOK, Sound, Tagged, PlanOK, ToAnswer, NotModifiedConfirms
<1>. QED
  BY <1>1, Invariant, PTL

\* Each planned link of a refresh ends in one count of its report.
THEOREM EveryLinkAccounted == Spec => []Accounted
<1>1. Inv => Accounted
  BY DEF Inv
<1>. QED
  BY <1>1, Invariant, PTL

\* What a refresh reports of a page is so in the index.
THEOREM ReportsAreTrue == Spec => []ReportedIsSo
<1>1. Inv => ReportedIsSo
  BY DEF Inv
<1>. QED
  BY <1>1, Invariant, PTL

\* No link is lost but by a reload, past the retention cap, or answered gone.
THEOREM NoLinkLost == Spec => EvictionJustified
<1>1. Inv /\ [Next]_vars => [Justified]_vars
  BY NextInv
<1>2. [][Justified]_vars => EvictionJustified
  BY PTL DEF EvictionJustified, Justified
<1>. QED
  BY <1>1, <1>2, Invariant, PTL DEF Spec
=============================================================================
