------------------------------ MODULE MCIndex ------------------------------
(***************************************************************************)
(* Three pages in two directories; one of them has a second version.  Two  *)
(* pages are equally close to one of the queries, one page links twice to  *)
(* another, to itself and to a page that is never indexed.                 *)
(***************************************************************************)
EXTENDS Lookup

Doc(key, url, version, vector, terms, edges) ==
  [ url |-> url, url_key |-> key, kind |-> version % 2, content_hash |-> version,
    title |-> IF version = 1 THEN <<>> ELSE <<<<84, version>>>>,
    snippet |-> <<>>, lang |-> IF key = 30 THEN <<<<>>>> ELSE <<<<101>>>>,
    tags |-> IF version = 2 THEN <<>> ELSE <<<<103>>, <<104, 105>>>>,
    terms |-> terms, vector |-> vector, edges |-> edges,
    fetched_at_ms |-> version, pinned |-> version = 1,
    etag |-> IF version = 3 THEN <<>> ELSE <<<<1, 0>>>> ]

MCDocs ==
  { Doc(10, <<120, 47, 100, 47, 97>>, 1, <<2, -1>>, <<7, 5, 7>>, <<20, 20, 10, 99>>),
    Doc(10, <<120, 47, 100, 47, 97>>, 2, <<1, 1>>, <<5>>, <<>>),
    Doc(20, <<120, 47, 98, 63, 47>>, 3, <<2, 1>>, <<6, 6, 7>>, <<30>>),
    Doc(30, <<120, 47, 100, 47>>, 4, <<-3, 2>>, <<>>, <<10, 20>>) }

F(op, arg) == <<[op |-> op, arg |-> arg]>>
Not(filter) == filter \o <<[op |-> "not"]>>
Two(op, left, right) == left \o right \o <<[op |-> op]>>

Query(vector, terms, filter, limit, multiplier, boost) ==
  [ vector |-> vector, terms |-> terms, filter |-> filter, limit |-> limit,
    rank |-> [ dense_weight |-> 1, sparse_weight |-> 2, k |-> 1,
               candidate_multiplier |-> multiplier, graph_boost |-> boost ] ]

MCQueries ==
  << Query(<<1, 0>>, <<5, 6, 5>>, All, 2, 0, 0),
     Query(<<1, 0>>, <<>>, Not(F("before", 3)), 2, 2, 1),
     Query(<<0, 1>>, <<7, 9>>, Two("and", F("prefix", <<47, 100>>), F("after", 1)), 1, 1, 0),
     Query(<<-1, 1>>, <<6, 5>>, Two("or", F("tag", <<104, 105>>), F("lang", <<101>>)), 1, 2, 1),
     Query(<<0, -1>>, <<5>>, F("kind", 0), 3, 1, 2),
     Query(<<1, 0>>, <<5, 5, 6>>, All, 1, 1, 0),
     Query(<<1, 2>>, <<5, 7>>, All, 0, 10, 0) >>

MCGraphAnswers ==
  << <<>>,
     << [url |-> 20, title |-> <<>>], [url |-> 40, title |-> <<<<71>>>>],
        [url |-> 10, title |-> <<<<71>>>>] >> >>

MCDefault ==
  [ dense_weight |-> 1, sparse_weight |-> 1, k |-> 1, candidate_multiplier |-> 10,
    graph_boost |-> 0 ]

\* Rarer terms and shorter documents weigh more, frequent terms saturate.
MCWeight(n, df, tf, dl, avgdl) ==
  (60 * (n - df + 1) * tf * 2 * avgdl[2]) \div ((tf + 1) * (avgdl[2] + dl + avgdl[1]))

MCCompressedLen(data) == (Len(data) + 1) \div 2
=============================================================================
