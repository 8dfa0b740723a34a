------------------------------- MODULE Lookup -------------------------------
(***************************************************************************)
(* The queries a user asks: the facade's search and related pages over the *)
(* link index, and the knowledge base's, which fuse them with the answers  *)
(* of the graph store.  The graph store is the graph-r crate's: its answer *)
(* is any of a few ranked lists.  A page is named by its canonical URL.    *)
(***************************************************************************)
EXTENDS Search

CONSTANTS
  GraphAnswers,  \* a sequence of ranked lists of [url, title]
  Default,       \* RankParams::default
  RelatedK       \* the fusion constant of `related' (60)

\* The graph store lists a page once.
ASSUME LookupAssumption ==
  /\ Default \in RankParams /\ RelatedK \in Nat
  /\ \A a \in DOMAIN GraphAnswers :
       /\ GraphAnswers[a] \in Seq([url : Nat, title : Optional])
       /\ \A i, j \in DOMAIN GraphAnswers[a] :
            GraphAnswers[a][i].url = GraphAnswers[a][j].url => i = j

\* search_ranked: the query with the default parameters and a boost.
SearchRanked(ix, query, limit, filter, graph_boost) ==
  LET hits == SearchPrepared(ix, [ vector |-> query.vector, terms |-> query.terms,
                filter |-> filter, limit |-> limit,
                rank |-> [Default EXCEPT !.graph_boost = graph_boost] ])
  IN [r \in DOMAIN hits |-> ix.meta[hits[r].id]]

\* LinkIndex::related
RelatedPages(ix, url, k) ==
  LET hits == RelatedTo(ix, url, k) IN [r \in DOMAIN hits |-> ix.meta[hits[r].id]]

\* export: every document with its edges.
Export(ix) == [d \in DOMAIN ix.meta |-> [meta |-> ix.meta[d], edges |-> ix.edges[d]]]

\* Hits of the knowledge base: best first, then by URL.  The sort is stable.
HitBefore(x, y) == x.score > y.score \/ (x.score = y.score /\ x.url < y.url)
BestHits(hits, limit) ==
  LET Earlier(i, j) == HitBefore(hits[i], hits[j])
                         \/ (i < j /\ ~HitBefore(hits[j], hits[i]))
      Place(j) == 1 + Cardinality({i \in DOMAIN hits : Earlier(i, j)})
  IN Truncate([r \in DOMAIN hits |-> hits[CHOOSE j \in DOMAIN hits : Place(j) = r]], limit)

GraphHit(answer, r, weight, k) ==
  [ url |-> answer[r].url, title |-> answer[r].title, score |-> RrfTerm(weight, k, r),
    graph_rank |-> <<r>>, link_rank |-> <<>> ]
LinkHit(doc, r, weight, k) ==
  [ url |-> doc.url_key, title |-> doc.title, score |-> RrfTerm(weight, k, r),
    graph_rank |-> <<>>, link_rank |-> <<r>> ]

\* Mutant: a page both halves know is listed for each of them.
AddLink_Always(fused, hit, fill) == Append(fused, hit)

\* A hit of the link half joins the graph's hit of the same page, if any;
\* with `fill' it also lends it a title it lacks.
AddLink(fused, hit, fill) ==
  LET Join(old) == [old EXCEPT !.score = @ + hit.score, !.link_rank = hit.link_rank,
                               !.title = IF @ = <<>> /\ fill THEN hit.title ELSE @]
  IN IF \E i \in DOMAIN fused : fused[i].url = hit.url
       THEN [i \in DOMAIN fused |->
               IF fused[i].url = hit.url THEN Join(fused[i]) ELSE fused[i]]
       ELSE Append(fused, hit)

Wide(limit) == 3 * Larger(limit, 1)

\* KnowledgeBase::lookup: both halves answer for three times the limit.
KbLookup(ix, query, graph_weight, link_weight, k, answer) ==
  LET links == SearchRanked(ix, query, Wide(query.limit), query.filter,
                            query.rank.graph_boost)
      found == Truncate(answer, Wide(query.limit))
      fused == [r \in DOMAIN found |-> GraphHit(found, r, graph_weight, k)]
  IN BestHits(FoldLeft(LAMBDA acc, r :
                         AddLink(acc, LinkHit(links[r], r, link_weight, k), TRUE),
                       fused, [r \in DOMAIN links |-> r]),
              query.limit)

\* KnowledgeBase::related
KbRelated(ix, url, limit, answer) ==
  LET links == RelatedPages(ix, url, 2 * limit)
      found == Truncate(answer, 2 * limit)
      fused == [r \in DOMAIN found |-> GraphHit(found, r, 1, RelatedK)]
  IN BestHits(FoldLeft(LAMBDA acc, r :
                         AddLink(acc, LinkHit(links[r], r, 1, RelatedK), FALSE),
                       fused, [r \in DOMAIN links |-> r]),
              limit)

-----------------------------------------------------------------------------
(***************************************************************************)
(* Properties.                                                             *)
(***************************************************************************)

\* Every page appears once, with the sum of what its two ranks earn.
Once(hits, graph_weight, link_weight, k, links, answer) ==
  LET Term(ranks, weight) == IF ranks = <<>> THEN 0 ELSE RrfTerm(weight, k, ranks[1])
  IN /\ \A i, j \in DOMAIN hits : hits[i].url = hits[j].url => i = j
     /\ \A i \in DOMAIN hits :
          LET hit == hits[i]
          IN /\ hit.score = Term(hit.graph_rank, graph_weight)
                              + Term(hit.link_rank, link_weight)
             /\ \A r \in DOMAIN answer :
                  (answer[r].url = hit.url) <=> (hit.graph_rank = <<r>>)
             /\ \A r \in DOMAIN links :
                  (links[r].url_key = hit.url) <=> (hit.link_rank = <<r>>)

\* No page found by either half is missing when there is room for it.
Complete(hits, limit, links, answer) ==
  LET all == {links[r].url_key : r \in DOMAIN links} \cup {answer[r].url : r \in DOMAIN answer}
  IN Len(hits) = IF Cardinality(all) < limit THEN Cardinality(all) ELSE limit

\* The knowledge base's answers list every page once, however it was found,
\* with the score both halves give it, and what the link half finds in its
\* own filter is all of it (KnowledgeBase::lookup, related).
LookupFused ==
  live.kind = "index" =>
    \A q \in DOMAIN Queries, a \in DOMAIN GraphAnswers :
      LET query == Queries[q]
          wide == Wide(query.limit)
          links == SearchRanked(live, query, wide, query.filter, query.rank.graph_boost)
          hits == KbLookup(live, query, 1, 2, 1, GraphAnswers[a])
          near == KbRelated(live, 20, query.limit, GraphAnswers[a])
      IN /\ Once(hits, 1, 2, 1, links, Truncate(GraphAnswers[a], wide))
         /\ Complete(hits, query.limit, links, Truncate(GraphAnswers[a], wide))
         /\ Once(near, 1, 1, RelatedK, RelatedPages(live, 20, 2 * query.limit),
                 Truncate(GraphAnswers[a], 2 * query.limit))
         /\ \A r \in DOMAIN links : Matches(query.filter, links[r])
         /\ \A d \in DOMAIN held :
              Export(live)[d] = [meta |-> MetaOf(held[d]), edges |-> held[d].edges]
=============================================================================
