------------------------------- MODULE Search -------------------------------
(***************************************************************************)
(* Searches of an index: filters, the two arms over the same prefilter and *)
(* their fusion, against a definition of the ranking over the documents    *)
(* alone.                                                                  *)
(***************************************************************************)
EXTENDS Index

CONSTANTS
  CandidateFloor   \* the least number of candidates of either arm (32)

\* RankParams: the weights are numbers, k and the multiplier are unsigned.
RankParams ==
  [ dense_weight : Int, sparse_weight : Int, k : Nat, candidate_multiplier : Nat,
    graph_boost : Int ]

ASSUME SearchAssumption ==
  /\ CandidateFloor \in Nat
  /\ \A q \in DOMAIN Queries :
       /\ Queries[q].terms \in Seq(Nat)
       /\ Queries[q].limit \in Nat
       /\ Queries[q].rank \in RankParams

Slash == 47

\* DocMeta::path: from the first slash of the rest of the URL to its query or
\* fragment.  A URL here starts behind its scheme.
Path(url) ==
  LET slashes == {i \in DOMAIN url : url[i] = Slash}
      from == CHOOSE i \in slashes : \A j \in slashes : i <= j
      rest == SubSeq(url, from, Len(url))
      marks == {i \in DOMAIN rest : rest[i] \in {63, 35}}  \* "?" and "#"
  IN IF slashes = {} THEN <<Slash>>
     ELSE IF marks = {} THEN rest
     ELSE SubSeq(rest, 1, (CHOOSE i \in marks : \A j \in marks : i <= j) - 1)

\* What a filter that has no parts says of a document.
Test(node, doc) ==
  CASE node.op = "all"    -> TRUE
    [] node.op = "tag"    -> Contains(doc.tags, node.arg)
    [] node.op = "lang"   -> doc.lang = <<node.arg>>
    [] node.op = "prefix" -> IsPrefix(node.arg, Path(doc.url))
    [] node.op = "kind"   -> doc.kind = node.arg
    [] node.op = "before" -> doc.fetched_at_ms < node.arg
    [] node.op = "after"  -> doc.fetched_at_ms >= node.arg

\* Filter::matches.  A filter is the sequence of its nodes, the parts of each
\* right before it; `values' holds what the parts that wait for theirs say.
Matches(filter, doc) ==
  LET Visit(values, node) ==
        LET last == Last(values)
            before == Last(Front(values))
        IN CASE node.op = "not" -> Append(Front(values), ~last)
             [] node.op = "and" -> Append(Front(Front(values)), before /\ last)
             [] node.op = "or"  -> Append(Front(Front(values)), before \/ last)
             [] OTHER           -> Append(values, Test(node, doc))
  IN Last(FoldLeft(Visit, <<>>, filter))

All == <<[op |-> "all"]>>

\* Filter::evaluate: no set at all for the filter that matches everything.
Evaluate(filter, meta) ==
  IF filter = All THEN <<>>
  ELSE <<{d \in DOMAIN meta : Matches(filter, meta[d])}>>

Larger(a, b) == IF a > b THEN a ELSE b

Candidates(query) ==
  Larger(query.limit * Larger(query.rank.candidate_multiplier, 1), CandidateFloor)

\* Mutant: with a boost the arms are still fused down to the limit first.
SearchPrepared_EarlyCut(ix, query) ==
  LET allowed == Evaluate(query.filter, ix.meta)
      dense == TopK(query.vector, ix.dense, ix.dim, Candidates(query), ix.metric, allowed)
      sparse == Score(ix.bm25, query.terms, allowed, Candidates(query))
      fused == Fuse(<<[ids |-> Ids(dense), weight |-> query.rank.dense_weight],
                      [ids |-> Ids(sparse), weight |-> query.rank.sparse_weight]>>,
                    query.rank.k, query.limit)
  IN Boosted(ix.graph, fused, query.rank.graph_boost)

\* search_prepared: both arms over the same prefilter, fused; with a boost the
\* whole pool is fused and re-ranked before the limit applies.
SearchPrepared(ix, query) ==
  LET boosted == query.rank.graph_boost > 0
      allowed == Evaluate(query.filter, ix.meta)
      dense == TopK(query.vector, ix.dense, ix.dim, Candidates(query), ix.metric, allowed)
      sparse == Score(ix.bm25, query.terms, allowed, Candidates(query))
      fused == Fuse(<<[ids |-> Ids(dense), weight |-> query.rank.dense_weight],
                      [ids |-> Ids(sparse), weight |-> query.rank.sparse_weight]>>,
                    query.rank.k, IF boosted THEN Candidates(query) ELSE query.limit)
  IN IF ix.meta = <<>> THEN <<>>
     ELSE IF boosted
       THEN Truncate(Boosted(ix.graph, fused, query.rank.graph_boost), query.limit)
       ELSE fused

-----------------------------------------------------------------------------
(***************************************************************************)
(* Properties.                                                             *)
(***************************************************************************)

\* The definitions below say what a search should return, from the documents
\* alone.

Among(ids, score) ==
  [d \in ids |-> 1 + Cardinality({e \in ids :
     Before(Scored(e, score[e]), Scored(d, score[d]))})]

Count(t, doc) == Cardinality({i \in DOMAIN doc.terms : doc.terms[i] = t})

Allowed(query) == {d \in DOMAIN held : Matches(query.filter, MetaOf(held[d]))}

DenseRank(query) ==
  Among(Allowed(query), [d \in Allowed(query) |->
    Similarity(query.vector, held[d].vector, Metric)])

SparseRank(query) ==
  LET Df(t) == Cardinality({d \in DOMAIN held : Count(t, held[d]) > 0})
      Shared(d) == {t \in ToSet(query.terms) : Count(t, held[d]) > 0}
      avgdl == <<SumFunction([d \in DOMAIN held |-> Len(held[d].terms)]), Len(held)>>
      Bm25Score(d) == SumFunction([t \in Shared(d) |->
                        Weight(Len(held), Df(t), Count(t, held[d]),
                               Len(held[d].terms), avgdl)])
      found == {d \in Allowed(query) : Shared(d) # {}}
  IN Among(found, [d \in found |-> Bm25Score(d)])

\* What each document earns from the arms that have it among their candidates.
Earned(query) ==
  LET dense == DenseRank(query)
      sparse == SparseRank(query)
      From(ranks, weight, d) ==
        IF d \in DOMAIN ranks /\ ranks[d] <= Candidates(query)
          THEN RrfTerm(weight, query.rank.k, ranks[d]) ELSE 0
      In(ranks, d) == d \in DOMAIN ranks /\ ranks[d] <= Candidates(query)
  IN [d \in {e \in Allowed(query) : In(dense, e) \/ In(sparse, e)} |->
        From(dense, query.rank.dense_weight, d)
          + From(sparse, query.rank.sparse_weight, d)]

Expected(query) ==
  LET earned == Earned(query)
      ranks == Among(DOMAIN earned, earned)
      boosted == query.rank.graph_boost > 0
      pool == {d \in DOMAIN earned :
                 ranks[d] <= (IF boosted THEN Candidates(query) ELSE query.limit)}
      Ties(d, e) == Links(d, e) + Links(e, d)
      degree(d) == SumFunction([e \in pool |-> Ties(d, e)])
      Gain(d) == IF degree(d) = 0 THEN 0
                 ELSE (query.rank.graph_boost * SumFunction([e \in pool |-> Ties(d, e) * earned[e]]))
                        \div degree(d)
      final == [d \in pool |-> earned[d] + (IF boosted THEN Gain(d) ELSE 0)]
  IN Truncate(SortedScores(final), query.limit)

\* However an index was built, saved, reopened or changed, a search returns
\* the documents that the definition of the ranking selects, in that order
\* and with those scores: the heap, the inverted index, the prefilter and the
\* candidate pools change nothing (Index::search_prepared).
SearchExact ==
  live.kind = "index" =>
    \A q \in DOMAIN Queries : SearchPrepared(live, Queries[q]) = Expected(Queries[q])
=============================================================================
