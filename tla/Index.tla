------------------------------- MODULE Index -------------------------------
(***************************************************************************)
(* The life of an index: documents are put into a builder, the builder is  *)
(* frozen into a searchable index, saved to a file, opened again, searched *)
(* and turned back into a builder to be extended.                          *)
(*                                                                         *)
(* The parallel arrays of the builder are one sequence of documents here:  *)
(* that they stay aligned is what IndexBuilder shows.  `held' and `filed'  *)
(* remember, beside the program, which documents went in; the program      *)
(* never reads them.                                                       *)
(***************************************************************************)
EXTENDS IndexImage

CONSTANTS
  Docs,            \* the documents that can be put
  Dim,             \* the length of their vectors
  Metric,          \* "cosine", "dot" or "l2"
  EmbedderId,
  Queries,         \* a sequence of [vector, terms, filter, limit, rank]
  MaxExtracted     \* MAX_BM25_TERMS: the most terms extraction hands over

\* A string is the sequence of its characters; an optional string is <<>> or
\* <<string>>.
String == Seq(Nat)
Optional == {o \in Seq(String) : Len(o) <= 1}
Vector == [1..Dim -> Int]
Document ==
  [ url : String, url_key : Nat, kind : Nat, content_hash : Nat,
    title : Optional, snippet : String, lang : Optional, tags : Seq(String),
    terms : Seq(Nat), vector : Vector, edges : Seq(Nat), fetched_at_ms : Nat,
    pinned : BOOLEAN, etag : Optional ]

\* Extraction caps a document's terms below the limit of a term frequency.  The
\* vectors of an index are those of one embedder, of one length, and so are
\* those of its queries; the quantised tiers assert that it is not 0.
ASSUME IndexAssumption ==
  /\ MaxExtracted \in 0..MaxTf
  /\ Dim \in Nat \ {0}
  /\ Docs \subseteq Document
  /\ \A doc \in Docs : Len(doc.terms) <= MaxExtracted
  /\ \A q \in DOMAIN Queries : Queries[q].vector \in Vector

VARIABLES
  live,   \* the builder or the index in memory
  file,   \* the saved image
  held,   \* the documents of `live', in id order
  filed   \* the documents of `file', in id order

vars == <<live, file, held, filed>>

\* The stored form of a document.
MetaOf(doc) ==
  [ url |-> doc.url, url_key |-> doc.url_key, kind |-> doc.kind,
    content_hash |-> doc.content_hash, doc_len |-> Len(doc.terms),
    title |-> doc.title, snippet |-> doc.snippet, lang |-> doc.lang,
    tags |-> doc.tags, fetched_at_ms |-> doc.fetched_at_ms,
    pinned |-> doc.pinned, etag |-> doc.etag ]

Entry(doc) == [meta |-> MetaOf(doc), vector |-> doc.vector, terms |-> doc.terms,
               edges |-> doc.edges]

Builder(docs) == [kind |-> "builder", docs |-> docs]

NoFile == <<>>

Init ==
  /\ live = Builder(<<>>)
  /\ held = <<>>
  /\ file = NoFile
  /\ filed = <<>>

-----------------------------------------------------------------------------
(***************************************************************************)
(* Building, freezing and thawing.                                         *)
(***************************************************************************)

IdOf(key) == CHOOSE i \in DOMAIN held : held[i].url_key = key
Has(key) == \E i \in DOMAIN held : held[i].url_key = key

\* upsert
Upsert(doc) ==
  LET id == IdOf(doc.url_key)
      kept == [doc EXCEPT !.pinned = @ \/ live.docs[id].meta.pinned]
  IN /\ live.kind = "builder"
     /\ \/ /\ ~Has(doc.url_key)
           /\ live' = [live EXCEPT !.docs = Append(@, Entry(doc))]
           /\ held' = Append(held, doc)
        \/ /\ Has(doc.url_key)
           /\ live.docs[id].meta.content_hash # doc.content_hash
           /\ live' = [live EXCEPT !.docs[id] = Entry(kept)]
           /\ held' = [held EXCEPT ![id] = kept]
     /\ UNCHANGED <<file, filed>>

SwapRemove(seq, id) ==
  [i \in 1..(Len(seq) - 1) |-> IF i = id THEN seq[Len(seq)] ELSE seq[i]]

\* remove
Evict(key) ==
  /\ live.kind = "builder"
  /\ Has(key)
  /\ live' = [live EXCEPT !.docs = SwapRemove(@, IdOf(key))]
  /\ held' = SwapRemove(held, IdOf(key))
  /\ UNCHANGED <<file, filed>>

\* What is common to an index however it came about.
Assemble(parts, image) ==
  [ kind |-> "index", image |-> image, dim |-> parts.dim, metric |-> parts.metric,
    embedder_id |-> parts.embedder_id, meta |-> parts.meta, dense |-> parts.dense,
    edges |-> parts.edges, bm25 |-> parts.bm25, by_url |-> UrlIndex(parts.meta),
    graph |-> Resolve(parts.edges, UrlIndex(parts.meta)) ]

PartsOf(docs) ==
  [ dim |-> Dim, metric |-> Metric, embedder_id |-> EmbedderId,
    meta |-> [d \in DOMAIN docs |-> docs[d].meta],
    dense |-> [d \in DOMAIN docs |-> docs[d].vector],
    edges |-> [d \in DOMAIN docs |-> docs[d].edges],
    bm25 |-> Build([d \in DOMAIN docs |-> docs[d].terms]) ]

\* IndexBuilder::build and to_index.
Freeze ==
  /\ live.kind = "builder"
  /\ live' = Assemble(PartsOf(live.docs), NoFile)
  /\ UNCHANGED <<held, file, filed>>

\* into_builder: the terms come back from the postings.
Thaw ==
  LET terms == ToDocTerms(live.bm25)
  IN /\ live.kind = "index"
     /\ live' = Builder([d \in DOMAIN live.dense |->
                  [meta |-> live.meta[d], vector |-> live.dense[d],
                   terms |-> terms[d], edges |-> live.edges[d]]])
     /\ UNCHANGED <<held, file, filed>>

-----------------------------------------------------------------------------
(***************************************************************************)
(* Saving and opening.                                                     *)
(***************************************************************************)

\* save: an index that came from an image and was not changed since is that
\* image.
Save ==
  /\ file' = IF live.kind = "index"
               THEN IF live.image # NoFile THEN live.image ELSE SerializeSections(live)
               ELSE SerializeSections(PartsOf(live.docs))
  /\ filed' = held
  /\ UNCHANGED <<live, held>>

\* open and from_bytes; a file that does not parse leaves what is in memory.
Open ==
  LET parsed == Parse(file)
  IN /\ file # NoFile
     /\ IF parsed.ok THEN live' = Assemble(parsed, file) /\ held' = filed
                     ELSE UNCHANGED <<live, held>>
     /\ UNCHANGED <<file, filed>>

Next ==
  \/ \E doc \in Docs : Upsert(doc)
  \/ \E doc \in Docs : Evict(doc.url_key)
  \/ Freeze
  \/ Thaw
  \/ Save
  \/ Open

Spec == Init /\ [][Next]_vars

-----------------------------------------------------------------------------
(***************************************************************************)
(* Related pages.                                                          *)
(***************************************************************************)

\* Index::related
RelatedTo(ix, key, k) ==
  IF key \in DOMAIN ix.by_url THEN Related(ix.graph, ix.by_url[key], k) ELSE <<>>

-----------------------------------------------------------------------------
(***************************************************************************)
(* Properties.                                                             *)
(***************************************************************************)

Same(entry, doc) ==
  /\ entry.meta = MetaOf(doc)
  /\ entry.vector = doc.vector
  /\ entry.edges = doc.edges
  /\ ToBag(entry.terms) = ToBag(doc.terms)

Agrees(parts, docs) == parts = PartsOf([d \in DOMAIN docs |-> Entry(docs[d])])

Content(ix) == [f \in DOMAIN PartsOf(<<>>) |-> ix[f]]

\* A metadata section that lost its end, or has something behind it, is
\* refused and never read as other documents.
Framed(section) ==
  /\ \A n \in 0..(Len(section) - 1) : ~DecodeMeta(SubSeq(section, 1, n), TRUE).ok
  /\ ~DecodeMeta(Append(section, 0), TRUE).ok

\* No sequence of builds, saves, openings, thaws and changes loses, mixes up
\* or invents anything: what is in memory, and what the file opens to, are
\* the documents that were put, whole (IndexBuilder, Index::serialize, parse,
\* into_builder, Bm25::to_doc_terms).
Faithful ==
  /\ live.kind = "builder" =>
       /\ Len(live.docs) = Len(held)
       /\ \A d \in DOMAIN held : Same(live.docs[d], held[d])
  /\ live.kind = "index" => Agrees(Content(live), held)
  /\ file # NoFile =>
       /\ Parse(file).ok = \A kind \in DOMAIN file.sections : Decompresses(file.sections[kind])
       /\ Parse(file).ok => Agrees(Content(Parse(file)), filed)
       /\ Len(filed) = 1 => Framed(file.sections["DocMeta"].data)

\* How many links lead from document d to document e.
Links(d, e) ==
  IF d = e THEN 0
  ELSE Cardinality({i \in DOMAIN held[d].edges : held[d].edges[i] = held[e].url_key})

\* Pages related to one page: two points for each link to them, one for each
\* pair of links that a third page has to both (Index::related).
RelatedExact ==
  live.kind = "index" =>
    \A d \in DOMAIN held, k \in 0..2 :
      LET Points(e) == 2 * Links(d, e)
            + SumFunction([p \in DOMAIN held |-> Links(p, d) * Links(p, e)])
          related == {e \in DOMAIN held \ {d} : Points(e) > 0}
      IN RelatedTo(live, held[d].url_key, k)
           = Truncate(SortedScores([e \in related |-> Points(e)]), k)

\* The quantised tiers: a shortlist as long as the corpus gives the exact
\* answer, a shorter one the exact order of the documents nearest in sign;
\* bytes keep a product within half a step per component (index/quant.rs).
TiersExact ==
  live.kind = "index" /\ held # <<>> =>
    \A q \in DOMAIN Queries, k \in 1..2 :
      LET query == Queries[q].vector
          n == Len(held)
          exact(d) == Dot(query, held[d].vector)
          stored(d) == Int8Row(live.dense[d])
          differ(d) == Cardinality({i \in 1..Dim :
                         (query[i] >= 0) # (held[d].vector[i] >= 0)})
          Nearer(d) == Cardinality({e \in DOMAIN held :
                         differ(e) < differ(d) \/ (differ(e) = differ(d) /\ e < d)})
      IN /\ TwoTier(query, live.dense, Dim, n, k) = TopK(query, live.dense, Dim, k, "dot", <<>>)
         /\ TwoTier(query, live.dense, Dim, 1, k)
              = Sorted({Scored(d, exact(d)) : d \in {e \in DOMAIN held : Nearer(e) < k}})
         /\ \A d \in DOMAIN held :
              2 * Abs(Int8Dot(stored(d), query) - 127 * exact(d))
                <= stored(d).scale[1] * SumFunction([i \in DOMAIN query |-> Abs(query[i])])
=============================================================================
