-------------------------------- MODULE Pages --------------------------------
(***************************************************************************)
(* From the text of a page to its entry in the index and its edges in the  *)
(* link graph, and back from the entry to the page: a page is written one  *)
(* fragment at a time, indexed under any of its URLs, and refreshed by the *)
(* URL the index stored.                                                   *)
(***************************************************************************)
EXTENDS PageKeys, Extract

CONSTANTS
  Served,        \* how a page is served and written: [header, written, urls]
  Fragments,     \* by what they are written in: well-formed pieces of a page,
                 \* [text, links, definitions, headings, front, words, elements]
  Join(_, _),    \* Url::join: <<url>>, or <<>> when the href does not parse
  MaxEdges,      \* MAX_EDGES_PER_DOC
  MaxFragments   \* bound: pieces of a page

ASSUME PagesAssumption == MaxEdges \in Nat \ {0}

VARIABLES
  served,   \* how the page is served and written, and under which URLs
  pieces,   \* the fragments written so far
  entries   \* the index: by key, the document, with the fragments it was made
            \* of, the URL it was read under and all it was indexed under

vars == <<served, pieces, entries>>

Init ==
  /\ served \in Served
  /\ pieces = <<>>
  /\ entries = [k \in {} |-> k]

Concat(some, f) == FlattenSeq([i \in DOMAIN some |-> some[i][f]])
Text(some) == Concat(some, "text")

\* Mutant: the cap counts links, not distinct targets.
Edges_CapFirst(url, hrefs) ==
  LET some == Take(hrefs, MaxEdges)
  IN {KeyOf(Join(url, some[i])[1]) : i \in {j \in DOMAIN some : Join(url, some[j]) # <<>>}}

\* Descriptor::into_document: links are resolved against the page, only web
\* links are kept, each target once, the first MaxEdges of them.
Edges(url, hrefs) ==
  LET Add(edges, href) ==
        LET target == Join(url, href)
        IN IF target = <<>> \/ Cardinality(edges) = MaxEdges THEN edges
           ELSE IF target[1].scheme \notin {"http", "https"} THEN edges
           ELSE edges \cup {KeyOf(target[1])}
  IN FoldLeft(Add, {}, hrefs)

\* The document that a fetch, extraction and into_document make of the page
\* under this URL.
Document(url, now) ==
  LET kind == Refined(FromContentType(served.header), url.path)
      page == Read(kind, url.path, Text(now), Concat(now, "elements"))
  IN [ url |-> Canonical(url), kind |-> kind, title |-> page.title, outline |-> page.outline,
       edges |-> Edges(url, page.links), terms |-> Terms(page), tags |-> PathTags(url.path),
       seen |-> now, base |-> url, aliases |-> {url} ]

\* IndexBuilder::upsert keys the document by the URL it was read under, and
\* stores the canonical form of that.  A page without a word is skipped; one
\* whose bytes the index has leaves the entry as it is; any other replaces the
\* entry of its key, or adds one.
Put(doc) ==
  LET key == KeyOf(doc.base)
      known == key \in DOMAIN entries
      old == IF known THEN entries[key].aliases ELSE {}
      kept == IF known /\ Text(entries[key].seen) = Text(doc.seen) THEN entries[key] ELSE doc
  IN entries' = IF doc.terms = <<>> THEN entries
                ELSE [k \in DOMAIN entries \cup {key} |->
                        IF k = key THEN [kept EXCEPT !.aliases = doc.aliases \cup old]
                        ELSE entries[k]]

\* The site: the page gains a fragment.
Write(fragment) ==
  /\ Len(pieces) < MaxFragments
  /\ pieces' = Append(pieces, fragment)
  /\ UNCHANGED <<served, entries>>

\* A crawl indexes the page under one of its URLs.
Index(url) ==
  /\ pieces # <<>>
  /\ Put(Document(url, pieces))
  /\ UNCHANGED <<served, pieces>>

\* A refresh asks for the page by the stored URL and upserts what it gets.
Refetch(key) ==
  /\ Put(Document(entries[key].url, pieces))
  /\ UNCHANGED <<served, pieces>>

\* A refresh learns that the page is gone and removes the stored URL's key.
Gone(key) ==
  /\ entries' = [k \in DOMAIN entries \ {KeyOf(entries[key].url)} |-> entries[k]]
  /\ UNCHANGED <<served, pieces>>

Next ==
  \/ \E fragment \in Fragments[served.written] : Write(fragment)
  \/ \E url \in served.urls : Index(url)
  \/ \E key \in DOMAIN entries : Refetch(key)
  \/ \E key \in DOMAIN entries : Gone(key)

Spec == Init /\ [][Next]_vars

-----------------------------------------------------------------------------
(***************************************************************************)
(* Properties.                                                             *)
(***************************************************************************)

\* The same page: scheme, host, port and path agree but for one slash at the
\* end, and the query has the same segments, as often.  A path that still ends
\* in a slash without that one is another page.
TwoSlashes(path) == Len(path) > 2 /\ path[Len(path) - 1] = "" /\ Last(path) = ""

SamePage(u, v) ==
  LET Plain(path) == IF path = <<>> THEN <<"">> ELSE path
      Slashed(p, q) == p = Append(q, "") /\ q # <<>> /\ ~TwoSlashes(p)
  IN /\ <<u.scheme, u.host, u.port>> = <<v.scheme, v.host, v.port>>
     /\ \/ Plain(u.path) = Plain(v.path)
        \/ Slashed(u.path, Plain(v.path))
        \/ Slashed(v.path, Plain(u.path))
     /\ \A q \in 1..9 : Cardinality({i \in DOMAIN u.query : u.query[i] = q})
                          = Cardinality({i \in DOMAIN v.query : v.query[i] = q})

LeadsBack(k) == KeyOf(entries[k].url) = k

\* Pages share an entry exactly when the URLs they were indexed under mean the
\* same page, whose path tags it has, so that a page re-crawled, linked by an
\* alias or refreshed is never listed twice and never taken for another; and a
\* refresh finds an entry again by the URL it stores, unless the page's path
\* ends in two slashes, of which only one is stripped (canonical_chunks,
\* UrlKey::from_url; upsert, touch and remove of the index; path_tags).
OneEntryPerPage ==
  \A k, l \in DOMAIN entries :
    /\ \A u \in entries[k].aliases :
         /\ entries[k].tags = PathTags(u.path)
         /\ \A v \in entries[l].aliases : SamePage(u, v) <=> k = l
    /\ (\A u \in entries[k].aliases : ~TwoSlashes(u.path)) => LeadsBack(k)

\* What a test asks of canonicalization, `or a URL that round-trips through the
\* index acquires a second, different key': every entry is found again by the
\* URL it stores.  It does not hold: /a// is stored as /a/ under the key of /a/
\* as it stands, and the stored /a/ is read back as the page /a.
StoredUrlLeadsBack == \A k \in DOMAIN entries : LeadsBack(k)

\* What is read of a page is what its fragments say: the edges are the first
\* distinct web pages they link to, seen from the URL it was read under, the
\* outline the first of their headings, the title that of the front matter,
\* the head or the first heading, and the terms these and then the words of
\* the text, as far as they fit.  No quote, comment, script, image or stray
\* bracket of one fragment hides or invents a link of another (extract_links,
\* extract_md_links, atx_headings, distill, into_document).
ReadAsWritten ==
  \A key \in DOMAIN entries :
    LET entry == entries[key]
        markup == entry.kind \in {"html", "markdown"}
        front == IF entry.kind = "markdown" THEN entry.seen[1].front ELSE <<>>
        body == IF front = <<>> THEN entry.seen ELSE Tail(entry.seen)
        hrefs == IF markup THEN Concat(body, "links") \o Concat(body, "definitions") ELSE <<>>
        targets == SelectSeq([i \in DOMAIN hrefs |-> Join(entry.base, hrefs[i])],
                             LAMBDA t : t # <<>> /\ t[1].scheme \in {"http", "https"})
        First(i) == \A j \in 1..(i - 1) : KeyOf(targets[j][1]) # KeyOf(targets[i][1])
        Rank(i) == Cardinality({j \in 1..i : First(j)})
        headings == IF markup THEN Concat(body, "headings") ELSE <<>>
        outline == Take(SelectSeq(headings, LAMBDA h : h.level <= 3), MaxHeadings)
        tops == SelectSeq(headings, LAMBDA h : entry.kind = "markdown" \/ h.level = 1)
        heads == Concat(entry.seen, "front")
    IN /\ entry.edges = {KeyOf(targets[i][1]) :
                           i \in {j \in DOMAIN targets : Rank(j) <= MaxEdges}}
       /\ entry.outline = outline
       /\ markup => entry.title = IF front # <<>> THEN front
                                  ELSE IF entry.kind = "html" /\ heads # <<>> THEN <<heads[1]>>
                                  ELSE IF tops = <<>> THEN <<>> ELSE tops[1].text
       /\ entry.terms = Take(Words(entry.title) \o Concat(outline, "text")
                                \o Concat(body, "words"), MaxTerms)
=============================================================================
