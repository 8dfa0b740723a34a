------------------------ MODULE KnowledgeBase_proofs ------------------------
(***************************************************************************)
(* The safety of the knowledge base, for any writers, pages, contents and  *)
(* bounds.                                                                 *)
(*                                                                         *)
(* What a writer holds is related to what it will tell the graph: while a  *)
(* crawl is under way the halves differ exactly in the outcomes not yet    *)
(* folded in.  What the store holds is related to the holder of the lease: *)
(* whoever may publish the graph pulled it since, and so knows every page  *)
(* in it.                                                                  *)
(***************************************************************************)
EXTENDS KnowledgeBase, TLAPS

Told(w, p, change) == <<p, change>> \in pages[w]

\* A page still to be answered has no outcome; a stored one has a content.
OutcomeOK(w, p) ==
  /\ p \in todo[w] => ~Told(w, p, "stored") /\ ~Told(w, p, "removed") /\ ~Told(w, p, "unchanged")
  /\ Told(w, p, "stored") => links[w][p] \in Contents /\ ~Told(w, p, "removed")

\* The halves agree on a page but for its outcome.
AgreedOK(w, p) ==
  /\ Told(w, p, "removed") => links[w][p] = None
  /\ ~Told(w, p, "stored") /\ ~Told(w, p, "removed") =>
       links[w][p] = IF Live(graph[w], p) THEN graph[w][p].content ELSE None
  /\ Told(w, p, "unchanged") => links[w][p] # None

LocalOK(w) ==
  /\ pc[w] \notin {"sync", "refresh"} => pages[w] = {} /\ todo[w] = {}
  /\ \A p \in Pages : OutcomeOK(w, p)
  /\ agreed[w] => \A p \in Pages : AgreedOK(w, p)
  /\ pc[w] = "publish" /\ "links" \notin awaited[w] =>
       seen[w] # None /\ seen[w].docs = links[w]

\* The holder has pulled the graph since it took the lease.
Pulled(w) == pc[w] # "down" /\ ~(pc[w] = "open" /\ "graph" \in awaited[w])

OwnerOK(w) ==
  holder = w =>
    /\ Pulled(w) => \A p \in Pages : graphAt.nodes[p] # None => graph[w][p] # None
    /\ pc[w] = "publish" /\ "graph" \notin awaited[w] => graphAt.nodes = graph[w]

Inv == TypeOK /\ \A w \in Writers : LocalOK(w) /\ OwnerOK(w)
-----------------------------------------------------------------------------

\* A step of w leaves the others alone, and only the holder publishes the graph.
OthersSame(w) ==
  \A x \in Writers \ {w} :
    /\ pc'[x] = pc[x] /\ awaited'[x] = awaited[x]
    /\ graph'[x] = graph[x] /\ links'[x] = links[x] /\ agreed'[x] = agreed[x]
    /\ seen'[x] = seen[x] /\ todo'[x] = todo[x] /\ pages'[x] = pages[x]

StoreStep(w) ==
  /\ holder' = holder \/ holder' \in {w, None}
  /\ graphAt' = graphAt \/ (holder = w /\ holder' = w /\ graphAt'.nodes = graph[w])

LEMMA Kept ==
  ASSUME Inv, NEW w \in Writers, TypeOK', OthersSame(w), StoreStep(w), LocalOK(w)', OwnerOK(w)'
  PROVE  Inv'
<1>. SUFFICES ASSUME NEW x \in Writers \ {w} PROVE LocalOK(x)' /\ OwnerOK(x)'
  BY DEF Inv
<1>1. LocalOK(x) /\ OwnerOK(x)
  BY DEF Inv
<1>2. LocalOK(x)'
  BY <1>1 DEF OthersSame, LocalOK, OutcomeOK, AgreedOK, Told, Live
<1>3. OwnerOK(x)'
  <2>. SUFFICES ASSUME holder' = x PROVE OwnerOK(x)'
    BY DEF OwnerOK
  <2>1. holder = x /\ graphAt' = graphAt
    BY KnowledgeBaseAssumption DEF StoreStep
  <2>. QED
    BY <1>1, <2>1 DEF OthersSame, OwnerOK, Pulled
<1>. QED
  BY <1>2, <1>3

LEMMA InitInv == Init => Inv
<1>. SUFFICES ASSUME Init PROVE Inv
  OBVIOUS
<1>1. TypeOK
  <2>1. /\ 0 \in 0..MaxEdits /\ 0 \in 0..MaxPublished /\ 0 \in 0..MaxFaults
        /\ Unpublished.nodes \in [Pages -> MaybeNode] /\ NoHead.docs \in [Pages -> MaybeContent]
    BY KnowledgeBaseAssumption DEF Unpublished, NoHead, MaybeNode, MaybeContent
  <2>2. /\ Unpublished \in [version : 0..MaxPublished, nodes : [Pages -> MaybeNode]]
        /\ NoHead \in [version : 0..MaxPublished, docs : [Pages -> MaybeContent]]
    BY <2>1 DEF Unpublished, NoHead
  <2>. QED
    BY <2>1, <2>2 DEF Init, TypeOK
<1>2. ASSUME NEW w \in Writers PROVE LocalOK(w) /\ OwnerOK(w)
  BY KnowledgeBaseAssumption
     DEF Init, LocalOK, OutcomeOK, OwnerOK, Told
<1>. QED
  BY <1>1, <1>2 DEF Inv

-----------------------------------------------------------------------------

LEMMA AcquireInv == ASSUME Inv, NEW w \in Writers, Acquire(w) PROVE Inv'
<1>1. OthersSame(w) /\ StoreStep(w)
  BY DEF Inv, TypeOK, Acquire, Join, store, base, OthersSame, StoreStep
<1>2. TypeOK'
  BY DEF Inv, TypeOK, Acquire, Join, world, store, base
<1>3. /\ pc'[w] = "open" /\ awaited'[w] = Halves
      /\ UNCHANGED <<graph, links, agreed, pages, todo, seen>> /\ pc[w] = "down"
  BY DEF Inv, TypeOK, Acquire, Join, base
<1>4. LocalOK(w)'
  BY <1>3 DEF Inv, LocalOK, OutcomeOK, AgreedOK, Told, Live
<1>5. OwnerOK(w)'
  BY <1>3 DEF OwnerOK, Pulled, Halves
<1>. QED
  BY <1>1, <1>2, <1>4, <1>5, Kept

\* One half of an open arrives: only then is it known whether the halves agree.
LEMMA JoinedFacts ==
  ASSUME TypeOK, NEW w \in Writers, NEW half \in Halves, Joined(w, half)
  PROVE  /\ pc' \in [Writers -> {"down", "open", "idle", "sync", "refresh", "publish"}]
         /\ awaited' \in [Writers -> SUBSET Halves]
         /\ awaited'[w] = awaited[w] \ {half} /\ half \in awaited[w]
         /\ pc'[w] = IF awaited[w] = {half} THEN "idle" ELSE pc[w]
         /\ \A x \in Writers \ {w} : pc'[x] = pc[x] /\ awaited'[x] = awaited[x]
  BY DEF TypeOK, Joined

LEMMA PullGraphInv == ASSUME Inv, NEW w \in Writers, PullGraph(w) PROVE Inv'
<1>1. /\ pc[w] = "open" /\ Joined(w, "graph") /\ TypeOK /\ "graph" \in Halves
      /\ graph' = [graph EXCEPT ![w] = graphAt.nodes]
      /\ agreed' = [agreed EXCEPT ![w] = Agree(graphAt.nodes, links[w])]
      /\ UNCHANGED <<world, lease, store, links, seen, todo, pages, faults>>
  BY DEF Inv, PullGraph, Halves
<1>2. /\ graph'[w] = graphAt.nodes /\ agreed'[w] = Agree(graphAt.nodes, links[w])
      /\ graphAt.nodes \in [Pages -> MaybeNode]
  BY <1>1 DEF TypeOK
<1>3. OthersSame(w) /\ StoreStep(w)
  BY <1>1, JoinedFacts DEF TypeOK, lease, store, OthersSame, StoreStep
<1>4. TypeOK'
  BY <1>1, <1>2, JoinedFacts DEF TypeOK, world, lease, store, Agree
<1>5. LocalOK(w)'
  <2>1. pages[w] = {} /\ todo[w] = {} /\ UNCHANGED <<pages, todo>> /\ pc'[w] \notin {"sync", "refresh", "publish"}
    BY <1>1, JoinedFacts DEF Inv, LocalOK
  <2>2. ASSUME agreed'[w], NEW p \in Pages PROVE AgreedOK(w, p)'
    <3>1. Agree(graphAt.nodes, links[w])
      BY <1>2, <2>2
    <3>. QED
      BY <1>1, <1>2, <2>1, <3>1 DEF Agree, AgreedOK, Told, Live
  <2>. QED
    BY <2>1, <2>2 DEF LocalOK, OutcomeOK, Told
<1>6. OwnerOK(w)'
  BY <1>1, <1>2, JoinedFacts DEF OwnerOK, store
<1>. QED
  BY <1>3, <1>4, <1>5, <1>6, Kept

LEMMA LoadLinksInv == ASSUME Inv, NEW w \in Writers, LoadLinks(w) PROVE Inv'
<1>1. /\ pc[w] = "open" /\ Joined(w, "links") /\ TypeOK /\ "links" \in Halves
      /\ links' = [links EXCEPT ![w] = linksAt.docs]
      /\ seen' = [seen EXCEPT ![w] = Published]
      /\ agreed' = [agreed EXCEPT ![w] = Agree(graph[w], linksAt.docs)]
      /\ UNCHANGED <<world, lease, store, graph, todo, pages, faults>>
  BY DEF Inv, LoadLinks, Halves
<1>2. /\ links'[w] = linksAt.docs /\ agreed'[w] = Agree(graph[w], linksAt.docs)
      /\ linksAt.docs \in [Pages -> MaybeContent]
  BY <1>1 DEF TypeOK
<1>3. OthersSame(w) /\ StoreStep(w)
  BY <1>1, JoinedFacts DEF TypeOK, lease, store, OthersSame, StoreStep
<1>4. Published \in {None} \cup Heads
  BY <1>1, KnowledgeBaseAssumption DEF TypeOK, Published, Heads
<1>5. TypeOK'
  BY <1>1, <1>2, <1>4, JoinedFacts DEF TypeOK, world, lease, store, Agree
<1>6. LocalOK(w)'
  <2>1. pages[w] = {} /\ todo[w] = {} /\ UNCHANGED <<pages, todo>> /\ pc'[w] \notin {"sync", "refresh", "publish"}
    BY <1>1, JoinedFacts DEF Inv, LocalOK
  <2>2. ASSUME agreed'[w], NEW p \in Pages PROVE AgreedOK(w, p)'
    <3>1. Agree(graph[w], linksAt.docs)
      BY <1>2, <2>2
    <3>. QED
      BY <1>1, <1>2, <2>1, <3>1 DEF Agree, AgreedOK, Told, Live
  <2>. QED
    BY <2>1, <2>2 DEF LocalOK, OutcomeOK, Told
<1>7. OwnerOK(w)'
  BY <1>1, JoinedFacts DEF Inv, OwnerOK, Pulled, store, lease
<1>. QED
  BY <1>3, <1>5, <1>6, <1>7, Kept

\* A writer that is dropped holds nothing and says nothing.
LEMMA DroppedInv ==
  ASSUME Inv, NEW w \in Writers, Dropped(w), StoreStep(w), UNCHANGED world,
         holder' \in Writers \cup {None}, expired' \in BOOLEAN, faults' \in 0..MaxFaults,
         graphAt' \in [version : 0..MaxPublished, nodes : [Pages -> MaybeNode]],
         linksAt' \in [version : 0..MaxPublished, docs : [Pages -> MaybeContent]]
  PROVE  Inv'
<1>1. /\ Unpublished.nodes \in [Pages -> MaybeNode] /\ NoHead.docs \in [Pages -> MaybeContent]
  BY DEF Unpublished, NoHead, MaybeNode, MaybeContent
<1>2. TypeOK'
  BY <1>1 DEF Inv, TypeOK, Dropped, Ended, world
<1>3. OthersSame(w)
  BY DEF Inv, TypeOK, Dropped, Ended, OthersSame
<1>4. pc'[w] = "down" /\ pages'[w] = {} /\ todo'[w] = {} /\ agreed'[w] = FALSE
  BY DEF Inv, TypeOK, Dropped, Ended
<1>5. LocalOK(w)' /\ OwnerOK(w)'
  BY <1>4 DEF LocalOK, OutcomeOK, OwnerOK, Pulled, Told
<1>. QED
  BY <1>2, <1>3, <1>5, Kept

LEMMA ReleaseInv == ASSUME Inv, NEW w \in Writers, Release(w) PROVE Inv'
<1>1. StoreStep(w)
  BY DEF Release, store, StoreStep
<1>. QED
  BY <1>1, DroppedInv DEF Inv, TypeOK, Release, store

\* Time runs and the site changes: no writer's facts are about either.
LEMMA OutsideInv == ASSUME Inv, Expire \/ Edit PROVE Inv'
<1>1. TypeOK'
  <2>1. CASE Expire
    BY <2>1 DEF Inv, TypeOK, Expire, world, store, call, base
  <2>2. CASE Edit
    BY <2>2, KnowledgeBaseAssumption DEF Inv, TypeOK, Edit, lease, store, call, base
  <2>. QED
    BY <2>1, <2>2
<1>2. UNCHANGED <<holder, graphAt, pc, awaited, graph, links, agreed, seen, todo, pages>>
  BY DEF Expire, Edit, lease, store, call, base
<1>. QED
  BY <1>1, <1>2 DEF Inv, LocalOK, OwnerOK, OutcomeOK, AgreedOK, Told, Live, Pulled

-----------------------------------------------------------------------------

LEMMA StartInv == ASSUME Inv, NEW w \in Writers, StartSync(w) \/ StartRefresh(w) PROVE Inv'
<1>1. PICK due \in SUBSET Pages, next \in {"sync", "refresh"} :
        /\ pc[w] = "idle" /\ pc' = [pc EXCEPT ![w] = next]
        /\ todo' = [todo EXCEPT ![w] = due]
        /\ UNCHANGED <<world, lease, store, awaited, pages, base, seen, faults>>
  <2>1. CASE StartSync(w)
    BY <2>1 DEF StartSync
  <2>2. CASE StartRefresh(w)
    <3>1. PICK some \in SUBSET {p \in Pages : Live(graph[w], p)} \ {{}} :
            todo' = [todo EXCEPT ![w] = {p \in some : links[w][p] # None}]
      BY <2>2 DEF StartRefresh
    <3>2. {p \in some : links[w][p] # None} \in SUBSET Pages
      OBVIOUS
    <3>. QED
      BY <2>2, <3>1, <3>2 DEF StartRefresh
  <2>. QED
    BY <2>1, <2>2
<1>2. TypeOK'
  BY <1>1 DEF Inv, TypeOK, world, lease, store, base
<1>3. OthersSame(w) /\ StoreStep(w)
  BY <1>1 DEF Inv, TypeOK, lease, store, base, OthersSame, StoreStep
<1>4. pages'[w] = {} /\ pc'[w] = next /\ UNCHANGED <<pages, graph, links, agreed, seen, awaited>>
  BY <1>1 DEF Inv, TypeOK, LocalOK, base
<1>5. LocalOK(w)'
  <2>1. ASSUME agreed[w], NEW p \in Pages PROVE AgreedOK(w, p)'
    <3>1. AgreedOK(w, p)
      BY <2>1 DEF Inv, LocalOK
    <3>. QED
      BY <1>4, <3>1 DEF AgreedOK, Told, Live
  <2>2. \A p \in Pages : OutcomeOK(w, p)'
    BY <1>4 DEF OutcomeOK, Told
  <2>. QED
    BY <1>4, <2>1, <2>2 DEF LocalOK
<1>6. OwnerOK(w)'
  BY <1>1, <1>4 DEF Inv, OwnerOK, Pulled, lease, store
<1>. QED
  BY <1>2, <1>3, <1>5, <1>6, Kept

\* An answer sets what the index has of a page and adds at most one outcome.
Adds(w, p, content, new) ==
  /\ links' = [links EXCEPT ![w][p] = content] /\ content \in MaybeContent
  /\ pages' = [pages EXCEPT ![w] = @ \cup new]
  /\ \/ new = {<<p, "stored">>} /\ content \in Contents
     \/ new = {<<p, "removed">>} /\ content = None
     \/ new = {<<p, "unchanged">>} /\ content = links[w][p] /\ (agreed[w] => content # None)
     \/ new = {} /\ content = links[w][p]

\* A 304 confirms content that the index holds as long as the halves agree.
LEMMA AnswerAdds ==
  ASSUME Inv, NEW w \in Writers, NEW p \in Pages, Answer(w, p)
  PROVE  \E content, new : Adds(w, p, content, new)
<1>1. /\ links[w] \in [Pages -> MaybeContent] /\ links[w][p] \in MaybeContent
      /\ links = [links EXCEPT ![w][p] = links[w][p]]
      /\ pages = [pages EXCEPT ![w] = @ \cup {}]
      /\ site[p] \in Contents /\ site[p] # None /\ site[p] \in MaybeContent
  BY KnowledgeBaseAssumption DEF Inv, TypeOK, MaybeContent
<1>2. CASE NotModified(w, p)
  <2>1. ASSUME agreed[w] PROVE links[w][p] # None
    <3>1. CASE pc[w] = "sync"
      <4>1. OutcomeOK(w, p) /\ AgreedOK(w, p) /\ p \in todo[w]
        BY <2>1 DEF Inv, LocalOK, Answer
      <4>2. Live(graph[w], p) /\ graph[w][p].content = site[p]
        BY <1>1, <1>2, <3>1 DEF NotModified, Validator, Remembers
      <4>. QED
        BY <1>1, <4>1, <4>2 DEF OutcomeOK, AgreedOK
    <3>2. CASE pc[w] # "sync"
      BY <1>1, <1>2, <3>2 DEF NotModified, Validator
    <3>. QED
      BY <3>1, <3>2
  <2>2. Adds(w, p, links[w][p], {<<p, "unchanged">>})
    BY <1>1, <1>2, <2>1 DEF NotModified, Outcome, Adds
  <2>. QED
    BY <2>2
<1>3. CASE Body(w, p)
  <2>1. CASE links[w][p] = site[p]
    <3>1. Adds(w, p, site[p], {<<p, "unchanged">>})
      BY <1>1, <1>3, <2>1 DEF Body, Outcome, Adds
    <3>. QED
      BY <3>1
  <2>2. CASE links[w][p] # site[p]
    <3>1. Adds(w, p, site[p], {<<p, "stored">>})
      BY <1>1, <1>3, <2>2 DEF Body, Outcome, Adds
    <3>. QED
      BY <3>1
  <2>. QED
    BY <2>1, <2>2
<1>4. CASE Denied(w, p)
  <2>1. Adds(w, p, None, {<<p, "removed">>})
    BY <1>4 DEF Denied, Outcome, Adds, MaybeContent
  <2>. QED
    BY <2>1
<1>5. CASE NoAnswer
  <2>1. Adds(w, p, links[w][p], {})
    BY <1>1, <1>5 DEF NoAnswer, Adds
  <2>. QED
    BY <2>1
<1>. QED
  BY <1>2, <1>3, <1>4, <1>5 DEF Answer

\* The page answered had no outcome, and has at most one now.
LEMMA AnswerInv ==
  ASSUME Inv, NEW w \in Writers, NEW p \in Pages, Answer(w, p)
  PROVE  Inv'
<1>1. /\ p \in todo[w] /\ todo' = [todo EXCEPT ![w] = @ \ {p}]
      /\ UNCHANGED <<world, lease, store, pc, awaited, graph, agreed, seen, faults>>
  BY DEF Answer
<1>2. PICK content, new : Adds(w, p, content, new)
  BY AnswerAdds
<1>3. pc[w] \in {"sync", "refresh"}
  BY <1>1 DEF Inv, LocalOK
<1>4. /\ \A q \in Pages \ {p} : /\ links'[w][q] = links[w][q]
                                /\ q \in todo'[w] => q \in todo[w]
      /\ links'[w][p] = content /\ p \notin todo'[w] /\ pages'[w] = pages[w] \cup new
  BY <1>1, <1>2 DEF Inv, TypeOK, Adds
<1>5. TypeOK'
  <2>1. new \subseteq Pages \X {"unchanged", "stored", "removed"}
    BY <1>2 DEF Adds
  <2>. QED
    BY <1>1, <1>2, <2>1 DEF Inv, TypeOK, Adds, world, lease, store
<1>6. OthersSame(w) /\ StoreStep(w)
  BY <1>1, <1>2 DEF Inv, TypeOK, Adds, lease, store, OthersSame, StoreStep
<1>7. /\ OutcomeOK(w, p) /\ (agreed[w] => AgreedOK(w, p))
      /\ ~Told(w, p, "stored") /\ ~Told(w, p, "removed") /\ ~Told(w, p, "unchanged")
  BY <1>1 DEF Inv, LocalOK, OutcomeOK
<1>8. \A q \in Pages \ {p} : \A c : Told(w, q, c)' = Told(w, q, c)
  BY <1>2, <1>4 DEF Adds, Told
<1>9. ASSUME NEW q \in Pages \ {p} PROVE OutcomeOK(w, q)' /\ (agreed[w] => AgreedOK(w, q)')
  <2>1. OutcomeOK(w, q) /\ (agreed[w] => AgreedOK(w, q))
    BY DEF Inv, LocalOK
  <2>. QED
    BY <1>1, <1>4, <1>8, <2>1 DEF OutcomeOK, AgreedOK, Live
<1>10. OutcomeOK(w, p)' /\ (agreed[w] => AgreedOK(w, p)')
  <2>1. CASE new = {}
    BY <1>1, <1>2, <1>4, <1>7, <2>1 DEF Adds, OutcomeOK, AgreedOK, Told, Live
  <2>2. ASSUME NEW c \in {"stored", "removed", "unchanged"}, new = {<<p, c>>}
        PROVE  OutcomeOK(w, p)' /\ (agreed[w] => AgreedOK(w, p)')
    <3>1. \A d \in {"stored", "removed", "unchanged"} : Told(w, p, d)' <=> d = c
      BY <1>4, <1>7, <2>2 DEF Told
    <3>2. /\ c = "stored" => content \in Contents
          /\ c = "removed" => content = None
          /\ c = "unchanged" => content = links[w][p] /\ (agreed[w] => content # None)
      <4>1. new # {}
        BY <2>2
      <4>2. ASSUME NEW d, new = {<<p, d>>} PROVE c = d
        <5>1. <<p, c>> = <<p, d>>
          BY <2>2, <4>2
        <5>. QED
          BY <5>1
      <4>. QED
        BY <1>2, <4>1, <4>2 DEF Adds
    <3>3. OutcomeOK(w, p)'
      <4>1. Told(w, p, "stored")' => c = "stored"
        BY <3>1
      <4>2. Told(w, p, "removed")' => c = "removed"
        BY <3>1
      <4>. QED
        BY <1>4, <3>2, <4>1, <4>2 DEF OutcomeOK
    <3>4. ASSUME agreed[w] PROVE AgreedOK(w, p)'
      <4>1. links[w][p] = IF Live(graph[w], p) THEN graph[w][p].content ELSE None
        BY <1>7, <3>4 DEF AgreedOK
      <4>2. graph' = graph
        BY <1>1
      <4>3. CASE c = "unchanged"
        BY <1>4, <3>1, <3>2, <3>4, <4>1, <4>2, <4>3 DEF AgreedOK, Live
      <4>4. CASE c # "unchanged"
        BY <1>4, <3>1, <3>2, <4>4 DEF AgreedOK
      <4>. QED
        BY <4>3, <4>4
    <3>. QED
      BY <3>3, <3>4
  <2>. QED
    BY <1>2, <2>1, <2>2 DEF Adds
<1>11. LocalOK(w)'
  BY <1>1, <1>3, <1>9, <1>10 DEF LocalOK
<1>12. OwnerOK(w)'
  BY <1>1 DEF Inv, OwnerOK, Pulled, lease, store
<1>. QED
  BY <1>5, <1>6, <1>11, <1>12, Kept

\* An outcome once folded in, the halves agree on its page.
LEMMA IngestedFacts ==
  ASSUME TypeOK, NEW w \in Writers, LocalOK(w)
  PROVE  LET folded == Ingested(graph[w], links[w], pages[w])
         IN /\ folded \in [Pages -> MaybeNode]
            /\ \A p \in Pages : graph[w][p] # None => folded[p] # None
            /\ agreed[w] => Agree(folded, links[w])
<1>. DEFINE folded == Ingested(graph[w], links[w], pages[w])
<1>1. graph[w] \in [Pages -> MaybeNode]
  BY DEF TypeOK
<1>2. ASSUME NEW p \in Pages
      PROVE  /\ folded[p] \in MaybeNode
             /\ graph[w][p] # None => folded[p] # None
             /\ agreed[w] => links[w][p] = IF Live(folded, p) THEN folded[p].content ELSE None
  <2>1. OutcomeOK(w, p) /\ (agreed[w] => AgreedOK(w, p))
    BY DEF LocalOK
  <2>2. CASE Told(w, p, "stored")
    <3>1. folded[p] = [content |-> links[w][p], live |-> TRUE]
      BY <2>2 DEF Ingested, Told
    <3>2. folded[p] \in Node
      BY <2>1, <2>2, <3>1 DEF OutcomeOK, Node
    <3>. HIDE DEF folded
    <3>3. folded[p] # None
      BY <3>2, RecordAssumption
    <3>4. folded[p].live = TRUE /\ folded[p].content = links[w][p]
      BY <3>1
    <3>. QED
      BY <3>2, <3>3, <3>4 DEF Live, MaybeNode
  <2>3. CASE ~Told(w, p, "stored") /\ Told(w, p, "removed") /\ graph[w][p] # None
    <3>1. folded[p] = [graph[w][p] EXCEPT !.live = FALSE] /\ graph[w][p] \in Node
      BY <1>1, <2>3 DEF Ingested, Told, Tombstone, MaybeNode
    <3>2. folded[p] \in Node /\ ~folded[p].live
      BY <3>1 DEF Node
    <3>. QED
      BY <2>1, <2>3, <3>2, RecordAssumption DEF Live, MaybeNode, AgreedOK
  <2>4. CASE ~Told(w, p, "stored") /\ ~(Told(w, p, "removed") /\ graph[w][p] # None)
    <3>1. folded[p] = graph[w][p]
      BY <2>4 DEF Ingested, Told
    <3>. QED
      BY <1>1, <2>1, <2>4, <3>1 DEF AgreedOK, Live
  <2>. QED
    BY <2>2, <2>3, <2>4
<1>3. folded = [p \in Pages |-> folded[p]]
  BY DEF Ingested
<1>. HIDE DEF folded
<1>4. folded \in [Pages -> MaybeNode] /\ (agreed[w] => Agree(folded, links[w]))
  BY <1>2, <1>3 DEF Agree
<1>. QED
  BY <1>2, <1>4 DEF folded

LEMMA AbsorbInv == ASSUME Inv, NEW w \in Writers, Absorb(w) PROVE Inv'
<1>. DEFINE folded == Ingested(graph[w], links[w], pages[w])
<1>1. /\ folded \in [Pages -> MaybeNode]
      /\ \A p \in Pages : graph[w][p] # None => folded[p] # None
      /\ agreed[w] => Agree(folded, links[w])
  BY IngestedFacts DEF Inv
<1>2. /\ pc[w] \in {"sync", "refresh"} /\ todo[w] = {}
      /\ graph' = [graph EXCEPT ![w] = folded]
      /\ pages' = [pages EXCEPT ![w] = {}]
      /\ pc' = [pc EXCEPT ![w] = "publish"] /\ awaited' = [awaited EXCEPT ![w] = Halves]
      /\ UNCHANGED <<world, lease, store, links, agreed, seen, todo, faults>>
  BY DEF Absorb, Join
<1>. HIDE DEF folded
<1>3. TypeOK'
  BY <1>1, <1>2 DEF Inv, TypeOK, world, lease, store
<1>4. OthersSame(w) /\ StoreStep(w)
  BY <1>2 DEF Inv, TypeOK, lease, store, OthersSame, StoreStep
<1>5. graph'[w] = folded /\ pages'[w] = {} /\ pc'[w] = "publish" /\ awaited'[w] = Halves
  BY <1>2 DEF Inv, TypeOK
<1>6. LocalOK(w)'
  <2>1. ASSUME agreed[w], NEW p \in Pages PROVE AgreedOK(w, p)'
    BY <1>1, <1>2, <1>5, <2>1 DEF Agree, AgreedOK, Told, Live
  <2>2. \A p \in Pages : OutcomeOK(w, p)'
    BY <1>2, <1>5 DEF OutcomeOK, Told
  <2>. QED
    BY <1>2, <1>5, <2>1, <2>2 DEF LocalOK, Halves
<1>7. OwnerOK(w)'
  BY <1>1, <1>2, <1>5 DEF Inv, OwnerOK, Pulled, Halves, lease, store
<1>. QED
  BY <1>3, <1>4, <1>6, <1>7, Kept

LEMMA AbortInv == ASSUME Inv, NEW w \in Writers, Abort(w) PROVE Inv'
<1>. DEFINE folded == Ingested(graph[w], links[w], pages[w])
<1>1. agreed[w] => Agree(folded, links[w])
  BY IngestedFacts DEF Inv
<1>2. /\ pc[w] \in {"sync", "refresh"}
      /\ pc' = [pc EXCEPT ![w] = "idle"] /\ awaited' = [awaited EXCEPT ![w] = {}]
      /\ todo' = [todo EXCEPT ![w] = {}] /\ pages' = [pages EXCEPT ![w] = {}]
      /\ agreed' = [agreed EXCEPT ![w] = @ /\ folded = graph[w]]
      /\ faults < MaxFaults /\ faults' = faults + 1
      /\ UNCHANGED <<world, lease, store, graph, links, seen>>
  BY DEF Abort, Ended, Fault
<1>. HIDE DEF folded
<1>3. TypeOK'
  <2>1. faults' \in 0..MaxFaults
    BY <1>2, KnowledgeBaseAssumption DEF Inv, TypeOK
  <2>. QED
    BY <1>2, <2>1 DEF Inv, TypeOK, world, lease, store
<1>4. OthersSame(w) /\ StoreStep(w)
  BY <1>2 DEF Inv, TypeOK, lease, store, OthersSame, StoreStep
<1>5. /\ pages'[w] = {} /\ todo'[w] = {} /\ pc'[w] = "idle" /\ pc[w] \in {"sync", "refresh"}
      /\ agreed'[w] => agreed[w] /\ folded = graph[w]
  BY <1>2 DEF Inv, TypeOK
<1>6. LocalOK(w)'
  <2>1. ASSUME agreed'[w], NEW p \in Pages PROVE AgreedOK(w, p)'
    <3>1. Agree(graph[w], links[w])
      BY <1>1, <1>5, <2>1
    <3>. QED
      BY <1>2, <1>5, <3>1 DEF Agree, AgreedOK, Told, Live
  <2>2. \A p \in Pages : OutcomeOK(w, p)'
    BY <1>5 DEF OutcomeOK, Told
  <2>. QED
    BY <1>5, <2>1, <2>2 DEF LocalOK
<1>7. OwnerOK(w)'
  BY <1>2, <1>5 DEF Inv, OwnerOK, Pulled, lease, store
<1>. QED
  BY <1>3, <1>4, <1>6, <1>7, Kept

-----------------------------------------------------------------------------

LEMMA StartPublishInv == ASSUME Inv, NEW w \in Writers, StartPublish(w) PROVE Inv'
<1>1. /\ pc[w] = "idle" /\ pc' = [pc EXCEPT ![w] = "publish"]
      /\ awaited' = [awaited EXCEPT ![w] = Halves]
      /\ UNCHANGED <<world, lease, store, graph, links, agreed, seen, todo, pages, faults>>
  BY DEF StartPublish, Join, base
<1>2. TypeOK'
  BY <1>1 DEF Inv, TypeOK, world, lease, store
<1>3. OthersSame(w) /\ StoreStep(w)
  BY <1>1 DEF Inv, TypeOK, lease, store, OthersSame, StoreStep
<1>4. pc'[w] = "publish" /\ awaited'[w] = Halves /\ pages'[w] = {} /\ todo'[w] = {}
  BY <1>1 DEF Inv, TypeOK, LocalOK
<1>5. LocalOK(w)'
  <2>1. ASSUME agreed[w], NEW p \in Pages PROVE AgreedOK(w, p)'
    <3>1. AgreedOK(w, p)
      BY <2>1 DEF Inv, LocalOK
    <3>. QED
      BY <1>1, <3>1 DEF AgreedOK, Told, Live
  <2>2. \A p \in Pages : OutcomeOK(w, p)'
    BY <1>4 DEF OutcomeOK, Told
  <2>. QED
    BY <1>1, <1>4, <2>1, <2>2 DEF LocalOK, Halves
<1>6. OwnerOK(w)'
  BY <1>1, <1>4 DEF Inv, OwnerOK, Pulled, Halves, lease, store
<1>. QED
  BY <1>2, <1>3, <1>5, <1>6, Kept

\* What a publish may write.
LEMMA NewerFacts ==
  ASSUME TypeOK, NEW w \in Writers, Newer(w).version <= MaxPublished
  PROVE  /\ Newer(w) \in [version : 0..MaxPublished, nodes : [Pages -> MaybeNode]]
         /\ Newer(w).nodes = graph[w]
<1>1. /\ graphAt \in [version : 0..MaxPublished, nodes : [Pages -> MaybeNode]]
      /\ graph[w] \in [Pages -> MaybeNode]
  BY DEF TypeOK
<1>2. CASE graphAt.nodes = graph[w]
  BY <1>1, <1>2 DEF Newer
<1>3. CASE graphAt.nodes # graph[w]
  <2>1. Newer(w) = [version |-> graphAt.version + 1, nodes |-> graph[w]]
    BY <1>3 DEF Newer
  <2>2. graphAt.version + 1 \in 0..MaxPublished
    BY <1>1, <2>1, KnowledgeBaseAssumption
  <2>. QED
    BY <1>1, <2>1, <2>2
<1>. QED
  BY <1>2, <1>3

LEMMA NextHeadFacts ==
  ASSUME TypeOK, NEW w \in Writers, NextHead(w).version <= MaxPublished
  PROVE  /\ NextHead(w) \in [version : 0..MaxPublished, docs : [Pages -> MaybeContent]]
         /\ NextHead(w) \in Heads
         /\ NextHead(w).docs = links[w]
<1>1. linksAt.version \in 0..MaxPublished /\ links[w] \in [Pages -> MaybeContent]
  BY DEF TypeOK
<1>2. linksAt.version + 1 \in 1..MaxPublished /\ linksAt.version + 1 \in 0..MaxPublished
  BY <1>1, KnowledgeBaseAssumption DEF NextHead
<1>. QED
  BY <1>1, <1>2 DEF NextHead, Heads

LEMMA InFlightFacts ==
  ASSUME TypeOK, NEW w \in Writers, InFlight(w)
  PROVE  /\ graphAt' \in [version : 0..MaxPublished, nodes : [Pages -> MaybeNode]]
         /\ linksAt' \in [version : 0..MaxPublished, docs : [Pages -> MaybeContent]]
         /\ graphAt' = graphAt \/ (holder = w /\ graphAt'.nodes = graph[w])
<1>1. CASE UNCHANGED graphAt
  BY <1>1, NextHeadFacts DEF InFlight, TypeOK
<1>2. CASE holder = w /\ Newer(w).version <= MaxPublished /\ graphAt' = Newer(w)
  BY <1>2, NewerFacts, NextHeadFacts DEF InFlight, TypeOK
<1>. QED
  BY <1>1, <1>2 DEF InFlight, MayShip

\* A publish that ends early, whatever was still under way.
LEMMA EndedInv ==
  ASSUME Inv, NEW w \in Writers, pc[w] = "publish", InFlight(w), Ended(w, "idle"),
         UNCHANGED <<world, lease, base, todo, pages>>, faults' \in 0..MaxFaults,
         seen' = seen \/ seen' = [seen EXCEPT ![w] = None]
  PROVE  Inv'
<1>1. /\ pc' = [pc EXCEPT ![w] = "idle"] /\ awaited' = [awaited EXCEPT ![w] = {}]
      /\ UNCHANGED <<holder, graph, links, agreed, todo, pages>>
  BY DEF Ended, lease, base
<1>2. TypeOK'
  BY <1>1, InFlightFacts DEF Inv, TypeOK, world, lease
<1>3. OthersSame(w) /\ StoreStep(w)
  BY <1>1, InFlightFacts DEF Inv, TypeOK, OthersSame, StoreStep
<1>4. pc'[w] = "idle" /\ pages'[w] = {} /\ todo'[w] = {}
  BY <1>1 DEF Inv, TypeOK, LocalOK
<1>5. LocalOK(w)'
  <2>1. ASSUME agreed[w], NEW p \in Pages PROVE AgreedOK(w, p)'
    <3>1. AgreedOK(w, p)
      BY <2>1 DEF Inv, LocalOK
    <3>. QED
      BY <1>1, <3>1 DEF AgreedOK, Told, Live
  <2>2. \A p \in Pages : OutcomeOK(w, p)'
    BY <1>4 DEF OutcomeOK, Told
  <2>. QED
    BY <1>1, <1>4, <2>1, <2>2 DEF LocalOK
<1>6. OwnerOK(w)'
  BY <1>1, <1>4, InFlightFacts DEF Inv, OwnerOK, Pulled
<1>. QED
  BY <1>2, <1>3, <1>5, <1>6, Kept

LEMMA CutOffInv ==
  ASSUME Inv, NEW w \in Writers, GraphFenced(w) \/ LinksFenced(w) \/ PublishFails(w)
  PROVE  Inv'
<1>1. faults \in 0..MaxFaults /\ (faults < MaxFaults => faults + 1 \in 0..MaxFaults)
  BY KnowledgeBaseAssumption DEF Inv, TypeOK
<1>2. CASE GraphFenced(w)
  BY <1>1, <1>2, EndedInv DEF GraphFenced
<1>3. CASE LinksFenced(w)
  BY <1>1, <1>3, EndedInv DEF LinksFenced
<1>4. CASE PublishFails(w)
  BY <1>1, <1>4, EndedInv DEF PublishFails, Fault
<1>. QED
  BY <1>2, <1>3, <1>4

LEMMA CrashInv == ASSUME Inv, NEW w \in Writers, Crash(w) PROVE Inv'
<1>1. /\ graphAt' \in [version : 0..MaxPublished, nodes : [Pages -> MaybeNode]]
      /\ linksAt' \in [version : 0..MaxPublished, docs : [Pages -> MaybeContent]]
      /\ graphAt' = graphAt \/ (holder = w /\ graphAt'.nodes = graph[w])
  <2>1. CASE pc[w] = "publish"
    BY <2>1, InFlightFacts DEF Inv, Crash
  <2>2. CASE pc[w] # "publish"
    BY <2>2 DEF Inv, TypeOK, Crash, store
  <2>. QED
    BY <2>1, <2>2
<1>2. StoreStep(w) /\ holder' \in Writers \cup {None} /\ expired' \in BOOLEAN
  BY <1>1 DEF Inv, TypeOK, Crash, lease, StoreStep
<1>3. faults' \in 0..MaxFaults
  BY KnowledgeBaseAssumption DEF Inv, TypeOK, Crash, Fault
<1>. QED
  BY <1>1, <1>2, <1>3, DroppedInv DEF Crash

LEMMA ShipGraphInv == ASSUME Inv, NEW w \in Writers, ShipGraph(w) PROVE Inv'
<1>1. /\ pc[w] = "publish" /\ holder = w /\ TypeOK /\ "graph" \in Halves /\ Joined(w, "graph")
      /\ Newer(w).version <= MaxPublished /\ graphAt' = Newer(w) /\ expired' = FALSE
      /\ UNCHANGED <<world, holder, linksAt, graph, links, agreed, seen, todo, pages, faults>>
  BY DEF Inv, ShipGraph, MayShip, Halves, base
<1>2. TypeOK'
  BY <1>1, JoinedFacts, NewerFacts DEF TypeOK, world
<1>3. OthersSame(w) /\ StoreStep(w)
  BY <1>1, JoinedFacts, NewerFacts DEF TypeOK, OthersSame, StoreStep
<1>4. /\ pc'[w] \in {"publish", "idle"} /\ pages'[w] = {} /\ todo'[w] = {}
      /\ awaited'[w] = awaited[w] \ {"graph"}
  BY <1>1, JoinedFacts DEF Inv, LocalOK
<1>5. LocalOK(w)'
  <2>1. ASSUME agreed[w], NEW p \in Pages PROVE AgreedOK(w, p)'
    <3>1. AgreedOK(w, p)
      BY <2>1 DEF Inv, LocalOK
    <3>. QED
      BY <1>1, <3>1 DEF AgreedOK, Told, Live
  <2>2. \A p \in Pages : OutcomeOK(w, p)'
    BY <1>4 DEF OutcomeOK, Told
  <2>3. "links" \notin awaited'[w] => seen[w] # None /\ seen[w].docs = links[w]
    BY <1>1, <1>4 DEF Inv, LocalOK
  <2>. QED
    BY <1>1, <1>4, <2>1, <2>2, <2>3 DEF LocalOK
<1>6. OwnerOK(w)'
  BY <1>1, NewerFacts DEF OwnerOK
<1>. QED
  BY <1>2, <1>3, <1>5, <1>6, Kept

\* What HEAD is afterwards, and what the writer remembers of it.
LEMMA ShipLinksFacts ==
  ASSUME TypeOK, NEW w \in Writers, ShipLinks(w)
  PROVE  /\ linksAt' \in [version : 0..MaxPublished, docs : [Pages -> MaybeContent]]
         /\ seen' \in [Writers -> {None} \cup Heads]
         /\ \A x \in Writers \ {w} : seen'[x] = seen[x]
         /\ seen'[w] # None /\ seen'[w].docs = links[w]
<1>1. CASE Uploads(w) /\ NextHead(w).version <= MaxPublished /\ linksAt' = NextHead(w)
           /\ seen' = [seen EXCEPT ![w] = NextHead(w)]
  BY <1>1, NextHeadFacts, RecordAssumption DEF TypeOK
<1>2. CASE ~Uploads(w) /\ seen' = [seen EXCEPT ![w] = Previous(w)] /\ UNCHANGED linksAt
  <2>1. Previous(w).version # 0 /\ Previous(w).docs = links[w]
    BY <1>2 DEF Uploads
  <2>2. Previous(w) \in Heads
    BY <2>1, KnowledgeBaseAssumption DEF Previous, TypeOK, Heads
  <2>3. Previous(w) # None
    BY <2>2, RecordAssumption
  <2>. QED
    BY <1>2, <2>1, <2>2, <2>3 DEF TypeOK
<1>. QED
  BY <1>1, <1>2 DEF ShipLinks

LEMMA ShipLinksInv == ASSUME Inv, NEW w \in Writers, ShipLinks(w) PROVE Inv'
<1>1. /\ pc[w] = "publish" /\ TypeOK /\ "links" \in Halves /\ Joined(w, "links")
      /\ UNCHANGED <<world, lease, graphAt, graph, links, agreed, todo, pages, faults>>
  BY DEF Inv, ShipLinks, Halves, base
<1>2. TypeOK'
  BY <1>1, JoinedFacts, ShipLinksFacts DEF TypeOK, world, lease
<1>3. OthersSame(w) /\ StoreStep(w)
  BY <1>1, JoinedFacts, ShipLinksFacts DEF TypeOK, lease, OthersSame, StoreStep
<1>4. /\ pc'[w] \in {"publish", "idle"} /\ pages'[w] = {} /\ todo'[w] = {}
      /\ awaited'[w] = awaited[w] \ {"links"}
  BY <1>1, JoinedFacts DEF Inv, LocalOK
<1>5. LocalOK(w)'
  <2>1. ASSUME agreed[w], NEW p \in Pages PROVE AgreedOK(w, p)'
    <3>1. AgreedOK(w, p)
      BY <2>1 DEF Inv, LocalOK
    <3>. QED
      BY <1>1, <3>1 DEF AgreedOK, Told, Live
  <2>2. \A p \in Pages : OutcomeOK(w, p)'
    BY <1>4 DEF OutcomeOK, Told
  <2>. QED
    BY <1>1, <1>4, <2>1, <2>2, ShipLinksFacts DEF LocalOK
<1>6. OwnerOK(w)'
  BY <1>1, <1>4 DEF Inv, OwnerOK, Pulled, lease
<1>. QED
  BY <1>2, <1>3, <1>5, <1>6, Kept

-----------------------------------------------------------------------------

LEMMA NextInv == Inv /\ [Next]_vars => Inv'
<1>. SUFFICES ASSUME Inv, [Next]_vars PROVE Inv'
  OBVIOUS
<1>1. ASSUME NEW w \in Writers, Write(w) PROVE Inv'
  BY <1>1, AcquireInv, PullGraphInv, LoadLinksInv, ReleaseInv, StartInv, AnswerInv, AbsorbInv,
     StartPublishInv, ShipGraphInv, ShipLinksInv, CutOffInv, AbortInv, CrashInv DEF Write
<1>2. CASE UNCHANGED vars
  <2>1. UNCHANGED <<site, edits, holder, expired, graphAt, linksAt, pc, awaited, graph, links, seen,
                    todo, pages, faults, agreed>>
    BY <1>2 DEF vars, world, lease, store, call, base
  <2>2. TypeOK'
    BY <2>1 DEF Inv, TypeOK
  <2>3. ASSUME NEW w \in Writers PROVE LocalOK(w)' /\ OwnerOK(w)'
    <3>1. LocalOK(w) /\ OwnerOK(w)
      BY DEF Inv
    <3>2. LocalOK(w)'
      BY <2>1, <3>1 DEF LocalOK, OutcomeOK, AgreedOK, Told, Live
    <3>3. OwnerOK(w)'
      BY <2>1, <3>1 DEF OwnerOK, Pulled
    <3>. QED
      BY <3>2, <3>3
  <2>. QED
    BY <2>2, <2>3 DEF Inv
<1>. QED
  BY <1>1, <1>2, OutsideInv DEF Next

\* Between calls the halves of a writer hold the same pages with the same
\* content, through syncs, refreshes, evictions and failures, unless it opened
\* a torn pair or an operation ended between the two (sync, ingest_pages).
THEOREM Agreement == Spec => []HalvesAgree
<1>1. Inv => HalvesAgree
  BY DEF Inv, LocalOK, AgreedOK, Told, HalvesAgree, Agree
<1>. QED
  BY <1>1, InitInv, NextInv, PTL DEF Spec

\* While they do, a page counted as unchanged is one the index holds: a 304 to
\* a validator of the graph stands for a page of the index (crawl_seed).
THEOREM UnchangedHeld == Spec => []UnchangedIsHeldWhenAgreed
<1>1. Inv => UnchangedIsHeldWhenAgreed
  BY DEF Inv, TypeOK, LocalOK, AgreedOK, Told, UnchangedIsHeldWhenAgreed
<1>. QED
  BY <1>1, InitInv, NextInv, PTL DEF Spec

\* No page is ever lost from the published graph: whoever may replace it has
\* pulled it since, through crashes and takeovers (writer, publish).
THEOREM GraphGrows == Spec => NothingForgotten
<1>1. ASSUME Inv, [Next]_vars, NEW p \in Pages, graphAt.nodes[p] # None
      PROVE  graphAt'.nodes[p] # None
  <2>1. ASSUME NEW w \in Writers, pc[w] = "publish", holder = w,
               graphAt' = graphAt \/ graphAt'.nodes = graph[w]
        PROVE  graphAt'.nodes[p] # None
    BY <1>1, <2>1 DEF Inv, OwnerOK, Pulled
  <2>2. ASSUME NEW w \in Writers, pc[w] = "publish", InFlight(w)
        PROVE  graphAt'.nodes[p] # None
    BY <1>1, <2>1, <2>2, InFlightFacts DEF Inv
  <2>3. ASSUME NEW w \in Writers, ShipGraph(w) PROVE graphAt'.nodes[p] # None
    BY <1>1, <2>1, <2>3, NewerFacts DEF Inv, ShipGraph, MayShip
  <2>4. ASSUME NEW w \in Writers, Write(w), UNCHANGED graphAt PROVE graphAt'.nodes[p] # None
    BY <1>1, <2>4
  <2>5. CASE UNCHANGED graphAt
    BY <1>1, <2>5
  <2>6. ASSUME NEW w \in Writers, Write(w) PROVE graphAt'.nodes[p] # None
    BY <2>2, <2>3, <2>5, <2>6
       DEF Write, Acquire, PullGraph, LoadLinks, Release, StartSync, StartRefresh, Answer, Absorb,
           StartPublish, ShipLinks, GraphFenced, LinksFenced, PublishFails, Abort, Crash, store
  <2>. QED
    BY <1>1, <2>5, <2>6 DEF Next, Expire, Edit, vars, store
<1>2. Inv /\ [Next]_vars => [\A p \in Pages : graphAt.nodes[p] # None => graphAt'.nodes[p] # None]_vars
  BY <1>1
<1>. QED
  BY <1>2, InitInv, NextInv, PTL DEF Spec, NothingForgotten

\* A publish that returns to the holder of the lease left both halves of what
\* the writer holds in the bucket (publish, try_join).
THEOREM PublishedWhole == Spec => PublishCompletes
<1>1. ASSUME Inv, NEW w \in Writers, pc[w] = "publish", pc'[w] = "idle",
             ShipGraph(w) \/ ShipLinks(w), holder = w, seen'[w] = linksAt'
      PROVE  graphAt'.nodes = graph[w] /\ linksAt'.docs = links[w]
  <2>1. TypeOK /\ LocalOK(w) /\ OwnerOK(w) /\ {"graph", "links"} \subseteq Halves
    BY <1>1 DEF Inv, Halves
  <2>2. CASE ShipGraph(w)
    <3>1. awaited[w] = {"graph"} /\ seen'[w] = seen[w] /\ linksAt' = linksAt
      BY <1>1, <2>1, <2>2, JoinedFacts DEF ShipGraph
    <3>2. graphAt'.nodes = graph[w]
      BY <2>1, <2>2, NewerFacts DEF ShipGraph
    <3>. QED
      BY <1>1, <2>1, <3>1, <3>2 DEF LocalOK
  <2>3. CASE ShipLinks(w)
    <3>1. awaited[w] = {"links"} /\ graphAt' = graphAt
      BY <1>1, <2>1, <2>3, JoinedFacts DEF ShipLinks
    <3>2. graphAt.nodes = graph[w]
      BY <1>1, <2>1, <3>1 DEF OwnerOK
    <3>. QED
      BY <1>1, <2>1, <2>3, <3>1, <3>2, ShipLinksFacts
  <2>. QED
    BY <1>1, <2>2, <2>3
<1>. DEFINE Whole ==
       \A w \in Writers :
         /\ pc[w] = "publish" /\ pc'[w] = "idle"
         /\ ShipGraph(w) \/ ShipLinks(w)
         /\ holder = w
         /\ seen'[w] = linksAt'
         => graphAt'.nodes = graph[w] /\ linksAt'.docs = links[w]
<1>2. Inv => [Whole]_vars
  BY <1>1
<1>3. PublishCompletes <=> [][Whole]_vars
  BY DEF PublishCompletes
<1>. QED
  BY <1>2, <1>3, InitInv, NextInv, PTL DEF Spec
=============================================================================
