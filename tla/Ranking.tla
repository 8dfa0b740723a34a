------------------------------ MODULE Ranking ------------------------------
(***************************************************************************)
(* The retrieval algorithms: the dense scan with its bounded heap, the     *)
(* BM25 inverted index, reciprocal rank fusion, the resolved link graph    *)
(* and the two quantised tiers.                                            *)
(*                                                                         *)
(* Document ids start at 1 here and at 0 in the code.  Components and      *)
(* scores are integers: the code's floats are compared, added and          *)
(* multiplied, and no property here is about their rounding or about NaN.  *)
(* A term is a number, in the order of its bytes.                          *)
(***************************************************************************)
EXTENDS Integers, Sequences, FiniteSets, SequencesExt

CONSTANTS
  MaxTf,                \* the largest term frequency a posting holds
  Scale,                \* what 1.0 is in fused scores: divided by every
                        \* k + rank that occurs, so that terms are exact
  Weight(_, _, _, _, _) \* BM25 weight by n, df, tf, document length, avgdl

ASSUME RankingAssumption == MaxTf \in Nat \ {0} /\ Scale \in Nat \ {0}

-----------------------------------------------------------------------------
(***************************************************************************)
(* Ranked lists.                                                           *)
(***************************************************************************)

Scored(id, score) == [id |-> id, score |-> score]
Ids(ranked) == [r \in DOMAIN ranked |-> ranked[r].id]

\* The order of every result: best score first, lower id first among equals.
Before(x, y) == x.score > y.score \/ (x.score = y.score /\ x.id < y.id)

Ahead(scored, x) == {y \in scored : Before(y, x)}
Sorted(scored) ==
  [r \in 1..Cardinality(scored) |->
     CHOOSE x \in scored : Cardinality(Ahead(scored, x)) = r - 1]
SortedScores(scores) == Sorted({Scored(d, scores[d]) : d \in DOMAIN scores})
Truncate(seq, n) == SubSeq(seq, 1, IF n < Len(seq) THEN n ELSE Len(seq))


\* HashMap::entry(k).or_insert(0) += v
AddTo(scores, k, v) ==
  IF k \in DOMAIN scores THEN [scores EXCEPT ![k] = @ + v]
  ELSE [j \in DOMAIN scores \cup {k} |-> IF j = k THEN v ELSE scores[j]]

NoScores == [d \in {} |-> 0]

\* A prefilter is <<>> when every document is allowed, else <<set of ids>>.
Admits(allowed, id) == allowed = <<>> \/ id \in allowed[1]

-----------------------------------------------------------------------------
(***************************************************************************)
(* Dense vectors.                                                          *)
(***************************************************************************)

Dot(a, b) == SumFunction([i \in DOMAIN a |-> a[i] * b[i]])

Similarity(query, doc, metric) ==
  IF metric = "l2"
    THEN 0 - SumFunction([i \in DOMAIN query |-> (query[i] - doc[i]) * (query[i] - doc[i])])
    ELSE Dot(query, doc)

\* The heap's top: the smallest score, the largest id among equals.
Peek(heap) == CHOOSE x \in heap : \A y \in heap : y = x \/ Before(y, x)

\* One document offered to the heap of the k best so far.
Consider(heap, k, x) ==
  IF Cardinality(heap) < k THEN heap \cup {x}
  ELSE IF x.score > Peek(heap).score THEN (heap \ {Peek(heap)}) \cup {x}
  ELSE heap

\* top_k: the rows of `dense' are the documents, scanned in ascending order.
TopK(query, dense, dim, k, metric, allowed) ==
  IF k = 0 \/ dim = 0 \/ Len(query) # dim THEN <<>>
  ELSE LET Offer(heap, id) ==
             IF Admits(allowed, id)
               THEN Consider(heap, k, Scored(id, Similarity(query, dense[id], metric)))
               ELSE heap
       IN Sorted(FoldLeft(Offer, {}, [id \in DOMAIN dense |-> id]))

-----------------------------------------------------------------------------
(***************************************************************************)
(* BM25.                                                                   *)
(***************************************************************************)

\* Term frequencies of one document; the count saturates.
LocalCounts(terms) ==
  [t \in ToSet(terms) |->
     LET count == Cardinality({i \in DOMAIN terms : terms[i] = t})
     IN IF count < MaxTf THEN count ELSE MaxTf]

Ascending(S) ==
  [r \in 1..Cardinality(S) |-> CHOOSE x \in S : Cardinality({y \in S : y < x}) = r - 1]

\* build: one posting per term, terms and documents ascending, frequencies
\* aligned with the documents.  The average length is kept as a quotient.
Build(doc_terms) ==
  LET counts == [d \in DOMAIN doc_terms |-> LocalCounts(doc_terms[d])]
      doc_len == [d \in DOMAIN doc_terms |-> Len(doc_terms[d])]
      Having(t) == {d \in DOMAIN doc_terms : t \in DOMAIN counts[d]}
      Posting(t) == [term |-> t, docs |-> Ascending(Having(t)),
                     tf |-> [i \in 1..Cardinality(Having(t)) |->
                               counts[Ascending(Having(t))[i]][t]]]
      dictionary == Ascending(UNION {DOMAIN counts[d] : d \in DOMAIN doc_terms})
  IN [ doc_count |-> Len(doc_terms), doc_len |-> doc_len,
       avgdl |-> <<SumFunction(doc_len), Len(doc_terms)>>,
       terms |-> [i \in DOMAIN dictionary |-> Posting(dictionary[i])] ]

\* What one posting adds to the scores of the documents it lists.
Accumulate(scores, bm25, posting, allowed) ==
  LET Add(acc, i) ==
        IF Admits(allowed, posting.docs[i])
          THEN AddTo(acc, posting.docs[i],
                     Weight(bm25.doc_count, Len(posting.docs), posting.tf[i],
                            bm25.doc_len[posting.docs[i]], bm25.avgdl))
          ELSE acc
  IN FoldLeft(Add, scores, [i \in DOMAIN posting.docs |-> i])

\* The query's terms, each at its first occurrence.
QueryTerms(query_terms) ==
  FoldLeft(LAMBDA seen, t : IF Contains(seen, t) THEN seen ELSE Append(seen, t),
           <<>>, query_terms)

\* score
Score(bm25, query_terms, allowed, limit) ==
  LET AddTerm(scores, t) ==
        FoldLeft(LAMBDA acc, p : IF p.term = t THEN Accumulate(acc, bm25, p, allowed)
                                               ELSE acc,
                 scores, bm25.terms)
  IN IF bm25.doc_count = 0 \/ limit = 0 THEN <<>>
     ELSE Truncate(SortedScores(FoldLeft(AddTerm, NoScores, QueryTerms(query_terms))),
                   limit)

\* to_doc_terms: each document's terms again, in dictionary order, each as
\* often as its frequency.
ToDocTerms(bm25) ==
  LET Times(p, d) == IF Contains(p.docs, d)
                       THEN p.tf[CHOOSE i \in DOMAIN p.docs : p.docs[i] = d] ELSE 0
      Copies(p, d) == [i \in 1..Times(p, d) |-> p.term]
  IN [d \in 1..bm25.doc_count |->
        FlattenSeq([j \in DOMAIN bm25.terms |-> Copies(bm25.terms[j], d)])]

-----------------------------------------------------------------------------
(***************************************************************************)
(* Reciprocal rank fusion.                                                 *)
(***************************************************************************)

\* rrf_term, for a rank that starts at 1.
RrfTerm(weight, k, rank) == (Scale * weight) \div (k + rank)

\* reciprocal_rank_fusion over lists [ids, weight].
Fuse(lists, k, limit) ==
  LET AddList(scores, list) ==
        FoldLeft(LAMBDA acc, r : AddTo(acc, list.ids[r], RrfTerm(list.weight, k, r)),
                 scores, [r \in DOMAIN list.ids |-> r])
  IN Truncate(SortedScores(FoldLeft(AddList, NoScores, lists)), limit)

-----------------------------------------------------------------------------
(***************************************************************************)
(* The link graph, resolved from keyed edges to document ids.              *)
(***************************************************************************)

\* Graph::resolve: links of a document to itself and to pages that are not
\* indexed are dropped; a link that occurs twice is two edges.
Resolve(edges, by_url) ==
  LET Lives(src, key) == key \in DOMAIN by_url /\ by_url[key] \in DOMAIN edges
                         /\ by_url[key] # src
      Out(src) == FlattenSeq([i \in DOMAIN edges[src] |->
                    IF Lives(src, edges[src][i]) THEN <<by_url[edges[src][i]]>> ELSE <<>>])
      out == [src \in DOMAIN edges |-> Out(src)]
      Times(src, dst) == Cardinality({i \in DOMAIN out[src] : out[src][i] = dst})
      In(dst) == FlattenSeq([src \in DOMAIN edges |-> [i \in 1..Times(src, dst) |-> src]])
  IN [out |-> out, inc |-> [dst \in DOMAIN edges |-> In(dst)]]

HasEdges(graph) == \E d \in DOMAIN graph.out : graph.out[d] # <<>>
Neighbors(graph, doc) == graph.out[doc] \o graph.inc[doc]

\* Points for every page of a list that is not left out.
Tally(scores, pages, points, left_out) ==
  LET Count(acc, t) == IF t \in left_out THEN acc ELSE AddTo(acc, t, points)
  IN FoldLeft(Count, scores, pages)

\* Two points for each link to a page, one for each parent's link to it.
RelatedScores(graph, doc, left_out) ==
  LET FromParent(scores, p) == Tally(scores, graph.out[p], 1, left_out)
  IN FoldLeft(FromParent, Tally(NoScores, graph.out[doc], 2, {}), graph.inc[doc])

\* Mutant: the parents of a document count it as its own sibling.
Related_Self(graph, doc, k) ==
  IF k = 0 THEN <<>> ELSE Truncate(SortedScores(RelatedScores(graph, doc, {})), k)

\* Graph::related: the document itself is no sibling.
Related(graph, doc, k) ==
  IF k = 0 THEN <<>> ELSE Truncate(SortedScores(RelatedScores(graph, doc, {doc})), k)

\* Graph::boosted: a candidate gains the weighted mean of the scores of those
\* neighbours that are candidates too.
Boosted(graph, ranked, weight) ==
  LET base == [d \in ToSet(Ids(ranked)) |->
                 (CHOOSE x \in ToSet(ranked) : x.id = d).score]
      Near(d) == {i \in DOMAIN Neighbors(graph, d) : Neighbors(graph, d)[i] \in DOMAIN base}
      Boost(d) == IF Near(d) = {} THEN 0
                  ELSE (weight * SumFunction([i \in Near(d) |-> base[Neighbors(graph, d)[i]]]))
                         \div Cardinality(Near(d))
  IN IF weight <= 0 \/ ~HasEdges(graph) THEN ranked
     ELSE SortedScores([d \in DOMAIN base |-> base[d] + Boost(d)])

-----------------------------------------------------------------------------
(***************************************************************************)
(* Quantised tiers.                                                        *)
(***************************************************************************)

\* pack_signs: the components that are not negative.
PackSigns(vector) == {i \in DOMAIN vector : vector[i] >= 0}
Hamming(a, b) == Cardinality(SymDiff(a, b))

\* BinaryQuant::shortlist: the n documents closest in sign, closest first,
\* lower id first among equals.
Shortlist(dense, query, n) ==
  LET Closeness(d) == 0 - Hamming(PackSigns(dense[d]), PackSigns(query))
  IN Truncate(Sorted({Scored(d, Closeness(d)) : d \in DOMAIN dense}), n)

\* two_tier_search: the shortlist, rescored exactly.  Normalising the query
\* scales all scores alike and is left out.
TwoTier(query, dense, dim, shortlist, k) ==
  LET n == IF shortlist > k THEN shortlist ELSE k
      candidates == ToSet(Ids(Shortlist(dense, query, n)))
  IN IF k = 0 \/ Len(query) # dim THEN <<>>
     ELSE Truncate(Sorted({Scored(d, Dot(query, dense[d])) : d \in candidates}), k)

Abs(x) == IF x < 0 THEN 0 - x ELSE x
Clamp(x, lo, hi) == IF x < lo THEN lo ELSE IF x > hi THEN hi ELSE x

\* The largest component of a row in size.
MaxAbs(row) == LET sizes == {Abs(row[i]) : i \in DOMAIN row}
               IN CHOOSE m \in sizes : \A s \in sizes : s <= m

\* p / q to the nearest integer, halves away from zero.
Round(p, q) == IF p >= 0 THEN (2 * p + q) \div (2 * q) ELSE 0 - ((q - 2 * p) \div (2 * q))

\* Mutant: the scaled component loses its fraction instead of being rounded.
Int8Row_Truncates(row) ==
  IF MaxAbs(row) = 0 THEN [codes |-> row, scale |-> <<1, 1>>]
  ELSE [ codes |-> [i \in DOMAIN row |-> (row[i] * 127) \div MaxAbs(row)],
         scale |-> <<MaxAbs(row), 127>> ]

\* encode_row and dot_query: a row is stored in bytes from -127 to 127 with a
\* scale of its own, here as the quotient max_abs / 127.
Int8Row(row) ==
  LET max_abs == MaxAbs(row)
  IN IF max_abs = 0 THEN [codes |-> row, scale |-> <<1, 1>>]
     ELSE [ codes |-> [i \in DOMAIN row |-> Clamp(Round(row[i] * 127, max_abs), -127, 127)],
            scale |-> <<max_abs, 127>> ]

\* The stored row's product with a query, times 127.
Int8Dot(stored, query) == Dot(stored.codes, query) * stored.scale[1]
=============================================================================
