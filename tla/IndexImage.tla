----------------------------- MODULE IndexImage -----------------------------
(***************************************************************************)
(* The index file: a header and up to four sections, each a sequence of    *)
(* fields written in one order and read back in the same order.            *)
(*                                                                         *)
(* A fixed-width number is one element of a section, a string its length   *)
(* and then its characters, numbers too.  The container around the header  *)
(* and the sections (alignment, directory, checksums) is the graph-r       *)
(* crate's and is external: it hands back what was put in, or refuses the  *)
(* whole file.  Compression is external as well and keeps only its length. *)
(***************************************************************************)
EXTENDS Ranking

CONSTANTS
  MaxZstdRatio,          \* MAX_ZSTD_RATIO
  MaxDecompressed,       \* MAX_DECOMPRESSED
  CompressedLen(_)       \* how long zstd makes a section

ASSUME ImageAssumption == {MaxZstdRatio, MaxDecompressed} \subseteq Nat \ {0}

\* A result that is an error.
Err == [ok |-> FALSE]

-----------------------------------------------------------------------------
(***************************************************************************)
(* Fields.                                                                 *)
(***************************************************************************)

\* An optional string is <<>> or <<string>>, a list a sequence of strings.
PutBlob(b) == <<Len(b)>> \o b
Put(type, v) ==
  CASE type = "int"  -> <<v>>
    [] type = "flag" -> <<IF v THEN 1 ELSE 0>>
    [] type = "blob" -> PutBlob(v)
    [] type = "opt"  -> IF v = <<>> THEN <<0>> ELSE <<1>> \o PutBlob(v[1])
    [] type = "list" -> <<Len(v)>> \o FlattenSeq([i \in DOMAIN v |-> PutBlob(v[i])])

\* A reader over what is left of a section; `val' is what it just read.
Reader(in) == [ok |-> TRUE, in |-> in, val |-> <<>>]

\* Continue with Next unless reading failed.
Then(r, Next(_)) == IF r.ok THEN Next(r) ELSE Err

ReadInt(r) ==
  IF r.in = <<>> THEN Err
  ELSE [ok |-> TRUE, in |-> Tail(r.in), val |-> Head(r.in)]

ReadBlob(r) ==
  Then(ReadInt(r), LAMBDA n :
    IF n.val > Len(n.in) THEN Err
    ELSE [ ok |-> TRUE, in |-> SubSeq(n.in, n.val + 1, Len(n.in)),
           val |-> SubSeq(n.in, 1, n.val) ])

\* A counted sequence of what One reads.
ReadMany(r, count, One(_)) ==
  LET read[i \in 0..count] ==
        IF i = 0 THEN [r EXCEPT !.val = <<>>]
        ELSE Then(read[i - 1], LAMBDA a :
               Then(One(a), LAMBDA one : [one EXCEPT !.val = Append(a.val, one.val)]))
  IN read[count]

ReadList(r) == Then(ReadInt(r), LAMBDA n : ReadMany(n, n.val, ReadBlob))

\* get_opt_str: the presence byte is 0 or 1.
ReadOpt(r) ==
  Then(ReadInt(r), LAMBDA n :
    CASE n.val = 0 -> [n EXCEPT !.val = <<>>]
      [] n.val = 1 -> Then(ReadBlob(n), LAMBDA b : [b EXCEPT !.val = <<b.val>>])
      [] OTHER     -> Err)

ReadFlag(r) ==
  Then(ReadInt(r), LAMBDA n :
    IF n.val \in {0, 1} THEN [n EXCEPT !.val = (n.val = 1)] ELSE Err)

Read(type, r) ==
  CASE type = "int"  -> ReadInt(r)
    [] type = "flag" -> ReadFlag(r)
    [] type = "blob" -> ReadBlob(r)
    [] type = "opt"  -> ReadOpt(r)
    [] type = "list" -> ReadList(r)

\* A section is read to its end or refused.
Whole(r) == Then(r, LAMBDA d : IF d.in = <<>> THEN d ELSE Err)

-----------------------------------------------------------------------------
(***************************************************************************)
(* The metadata section.                                                   *)
(***************************************************************************)

\* The columns of a document, in the order of the file.
Columns ==
  << <<"url", "blob">>, <<"url_key", "int">>, <<"kind", "int">>,
     <<"content_hash", "int">>, <<"doc_len", "int">>, <<"title", "opt">>,
     <<"snippet", "blob">>, <<"lang", "opt">>, <<"tags", "list">> >>

\* The columns a file has when META_FRESHNESS is set.
Freshness ==
  << <<"fetched_at_ms", "int">>, <<"pinned", "flag">>, <<"etag", "opt">> >>

\* A record before its columns are read: a file without the columns of freshness
\* leaves them so.
Legacy ==
  [ url |-> <<>>, url_key |-> 0, kind |-> 0, content_hash |-> 0, doc_len |-> 0,
    title |-> <<>>, snippet |-> <<>>, lang |-> <<>>, tags |-> <<>>,
    fetched_at_ms |-> 0, pinned |-> FALSE, etag |-> <<>> ]

EncodeDoc(doc, columns) ==
  FlattenSeq([i \in DOMAIN columns |-> Put(columns[i][2], doc[columns[i][1]])])

\* meta::encode
EncodeMeta(docs) ==
  <<Len(docs)>> \o FlattenSeq([d \in DOMAIN docs |-> EncodeDoc(docs[d], Columns \o Freshness)])

DecodeDoc(r, has_freshness) ==
  LET columns == IF has_freshness THEN Columns \o Freshness ELSE Columns
      read[i \in 0..Len(columns)] ==
        IF i = 0 THEN [r EXCEPT !.val = Legacy]
        ELSE Then(read[i - 1], LAMBDA a :
               Then(Read(columns[i][2], a), LAMBDA c :
                 [c EXCEPT !.val = [a.val EXCEPT ![columns[i][1]] = c.val]]))
  IN read[Len(columns)]

\* meta::decode
DecodeMeta(section, has_freshness) ==
  Whole(Then(ReadInt(Reader(section)), LAMBDA n :
    ReadMany(n, n.val, LAMBDA r : DecodeDoc(r, has_freshness))))

-----------------------------------------------------------------------------
(***************************************************************************)
(* The link section and the BM25 section.                                  *)
(***************************************************************************)

EncodeEdges(edges) ==
  <<Len(edges)>> \o FlattenSeq([d \in DOMAIN edges |-> PutBlob(edges[d])])

\* A document's edges are a count and that many keys, like a blob.
DecodeEdges(section) ==
  Whole(Then(ReadInt(Reader(section)), LAMBDA n : ReadMany(n, n.val, ReadBlob)))

\* to_bytes: k1 and b are constants of the whole index and left out.
EncodeBm25(bm25) ==
  LET Posting(p) == <<p.term, Len(p.docs)>> \o PutBlob(p.docs) \o p.tf
  IN bm25.avgdl \o <<bm25.doc_count, Len(bm25.terms)>> \o bm25.doc_len
       \o FlattenSeq([i \in DOMAIN bm25.terms |-> Posting(bm25.terms[i])])

ReadPosting(r) ==
  Then(ReadInt(r), LAMBDA term :
    Then(ReadInt(term), LAMBDA df :
      Then(ReadBlob(df), LAMBDA docs :
        IF Len(docs.val) # df.val THEN Err
        ELSE Then(ReadMany(docs, df.val, ReadInt), LAMBDA tf :
               [tf EXCEPT !.val = [term |-> term.val, docs |-> docs.val, tf |-> tf.val]]))))

\* from_bytes.  What follows the last posting is not looked at.
DecodeBm25(section) ==
  Then(ReadMany(Reader(section), 4, ReadInt), LAMBDA head :
    Then(ReadMany(head, head.val[3], ReadInt), LAMBDA lens :
      Then(ReadMany(lens, head.val[4], ReadPosting), LAMBDA terms :
        [ terms EXCEPT !.val =
            [ avgdl |-> <<head.val[1], head.val[2]>>, doc_count |-> head.val[3],
              doc_len |-> lens.val, terms |-> terms.val ] ])))

-----------------------------------------------------------------------------
(***************************************************************************)
(* The file.                                                               *)
(***************************************************************************)

\* A compressed section names the length it will have again.
ZstdSection(data) ==
  [zstd |-> TRUE, declared |-> Len(data), stored |-> CompressedLen(data), data |-> data]
PlainSection(data) ==
  [zstd |-> FALSE, declared |-> Len(data), stored |-> Len(data), data |-> data]

\* An empty section is omitted from the file.
Sections(named) == [kind \in {k \in DOMAIN named : named[k].data # <<>>} |-> named[kind]]

\* Mutant: the flag follows the number of documents, not the edges.
FlagsOf_AnyDocs(ix) ==
  {"META_FRESHNESS"}
    \cup (IF ix.metric = "cosine" THEN {"VECTORS_NORMALIZED"} ELSE {})
    \cup (IF Len(ix.edges) > 1 THEN {"LINK_GRAPH"} ELSE {})

\* The edges are written only when some document has one.
FlagsOf(ix) ==
  {"META_FRESHNESS"}
    \cup (IF ix.metric = "cosine" THEN {"VECTORS_NORMALIZED"} ELSE {})
    \cup (IF \E d \in DOMAIN ix.edges : ix.edges[d] # <<>> THEN {"LINK_GRAPH"} ELSE {})

\* serialize_sections
SerializeSections(ix) ==
  LET has_edges == \E d \in DOMAIN ix.edges : ix.edges[d] # <<>>
      sections == [DocMeta |-> ZstdSection(EncodeMeta(ix.meta)),
                   Dense |-> PlainSection(FlattenSeq(ix.dense)),
                   Bm25 |-> PlainSection(EncodeBm25(ix.bm25)),
                   Edges |-> ZstdSection(EncodeEdges(ix.edges))]
      added == {"DocMeta", "Dense", "Bm25"} \cup (IF has_edges THEN {"Edges"} ELSE {})
  IN [ flags |-> FlagsOf(ix), dim |-> ix.dim, doc_count |-> Len(ix.meta),
       metric |-> ix.metric, embedder_id |-> ix.embedder_id,
       sections |-> Sections(Restrict(sections, added)) ]

\* decompressed_capacity: a section that names more than MAX_ZSTD_RATIO times
\* its stored length, or more than MAX_DECOMPRESSED, is refused.
Decompresses(section) ==
  section.zstd =>
    /\ section.declared <= section.stored * MaxZstdRatio
    /\ section.declared <= MaxDecompressed

\* IndexFile::section, for a section the reader requires.
Section(file, kind) ==
  IF kind \in DOMAIN file.sections /\ Decompresses(file.sections[kind])
    THEN [ok |-> TRUE, data |-> file.sections[kind].data] ELSE Err

\* The dense block as one row per document.
Rows(flat, dim, count) == [d \in 1..count |-> SubSeq(flat, (d - 1) * dim + 1, d * dim)]

\* Index::parse
Parse(file) ==
  LET n == file.doc_count
      dense == IF "Dense" \in DOMAIN file.sections THEN file.sections["Dense"].data ELSE <<>>
      meta == Then(Section(file, "DocMeta"),
                LAMBDA s : DecodeMeta(s.data, "META_FRESHNESS" \in file.flags))
      bm25 == Then(Section(file, "Bm25"), LAMBDA s : DecodeBm25(s.data))
      edges == IF "LINK_GRAPH" \in file.flags
                 THEN Then(Section(file, "Edges"), LAMBDA s : DecodeEdges(s.data))
               ELSE [ok |-> TRUE, val |-> [d \in 1..n |-> <<>>]]
  IN IF Len(dense) # n * file.dim \/ ~meta.ok \/ ~bm25.ok \/ ~edges.ok THEN Err
     ELSE IF Len(meta.val) # n \/ Len(edges.val) # n THEN Err
     ELSE [ ok |-> TRUE, dim |-> file.dim, metric |-> file.metric,
            embedder_id |-> file.embedder_id, meta |-> meta.val, bm25 |-> bm25.val,
            dense |-> Rows(dense, file.dim, n), edges |-> edges.val ]

\* The URL map of a file: of two records with one key the later one counts.
UrlIndex(meta) ==
  [key \in {meta[d].url_key : d \in DOMAIN meta} |->
     CHOOSE d \in DOMAIN meta : meta[d].url_key = key
       /\ \A e \in DOMAIN meta : meta[e].url_key = key => e <= d]
=============================================================================
