------------------------------- MODULE MCCrawl -------------------------------
(***************************************************************************)
(* Sites and configurations for the runs of Crawl.  The pages are r (the   *)
(* root) and a to e.                                                       *)
(***************************************************************************)
EXTENDS Crawl

CONSTANTS r, a, b, c, d, e, h1, h2

Six == {r, a, b, c, d, e}
TwoHosts == {h1, h2}
NoEdges == [p \in Six |-> {}]

\* A site with these links and neither redirects nor a robots.txt.
Plain(links) ==
  [ links |-> links, final |-> [p \in Six |-> p],
    host |-> [p \in Six |-> h1], disallowed |-> {} ]

\* A configuration that filters nothing and knows nothing of an earlier crawl.
Open(depth, pages, concurrency, retries) ==
  [ max_depth |-> depth, max_pages |-> pages, concurrency |-> concurrency,
    max_retries |-> retries, respect_robots |-> FALSE,
    scope |-> Six, followable |-> Six, indexed |-> Six,
    validators |-> {}, known_edges |-> NoEdges ]

Crawl(web, configuration) == [site |-> web, config |-> configuration]

\* Every link graph over four pages (links back to the root and self links
\* are filtered by the visited set, so they add nothing).
Graphs ==
  {Plain([p \in Six |-> IF p \in {d, e} THEN {} ELSE links[p]]) :
     links \in {f \in [{r, a, b, c} -> SUBSET {a, b, c}] :
                  \A p \in DOMAIN f : p \notin f[p]}}

\* Every sub-graph of eight links over six pages, deep enough for a page to be
\* found first on a longer path than its shortest one.
DeepEdges == {<<r, a>>, <<r, b>>, <<a, d>>, <<b, c>>, <<c, d>>, <<d, e>>,
              <<a, c>>, <<c, b>>}
Deep(edges) == Plain([p \in Six |-> {q \in Six : <<p, q>> \in edges}])

\* Redirects between the children, a redirect of the root, pages out of scope,
\* refused by the path filter or by the index filters, two hosts, a robots.txt
\* that forbids a page, and pages known from an earlier crawl.
Finals == {f \in [Six -> Six] :
             /\ \A p \in {r, a, b, c} : f[p] \in {p, b, c} /\ f[f[p]] = f[p]
             /\ \A p \in {d, e} : f[p] = p}
Hostile(final, scope, disallowed, validators) ==
  Crawl([ links |-> [p \in Six |-> {a, b, c} \ {p}], final |-> final,
          host |-> [p \in Six |-> IF p = c THEN h2 ELSE h1],
          disallowed |-> disallowed ],
        [ max_depth |-> 2, max_pages |-> 4, concurrency |-> 2,
          max_retries |-> 0, respect_robots |-> TRUE,
          scope |-> scope, followable |-> Six \ {b},
          indexed |-> {r, b, c}, validators |-> validators,
          known_edges |-> [p \in Six |-> IF p \in validators
                                           THEN {a, b, c} \ {p} ELSE {}] ])

AllCrawls ==
  {Crawl(g, Open(2, 3, 2, 1)) : g \in Graphs}
    \cup {Crawl(g, Open(2, 4, 3, 0)) : g \in Graphs}
    \cup {Crawl(Deep(es), Open(3, 6, 1, 0)) : es \in SUBSET DeepEdges}
    \cup {Hostile(f, s, x, v) : f \in Finals,
                                s \in {Six, {r, a, c}, {r, a}},
                                x \in {{}, {a}, {r}, {c}}, v \in {{}, {a, c}}}
=============================================================================
