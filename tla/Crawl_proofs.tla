---------------------------- MODULE Crawl_proofs ----------------------------
(***************************************************************************)
(* Proofs about a crawl, for every web, every configuration and every      *)
(* order of completions: the budget, that no page is requested twice, the  *)
(* scope, robots.txt, that every request is accounted for, and what is     *)
(* reached.  Two inductive invariants: Inv, of the locals of the stream,   *)
(* and on top of it ReachInv, of the search they carry out.  PacerInv is   *)
(* the one of the pacing of its fetches, a component of its own.           *)
(***************************************************************************)
EXTENDS Crawl, CrawlPacing, Induction, FiniteSetTheorems, SequenceTheorems, TLAPS

(***************************************************************************)
(* The inductive invariant.                                                *)
(***************************************************************************)

\* The root, or a page that passes the link filters.
Linked(p) == p = Root \/ p \in config.scope \cap config.followable

\* A queued page has been seen, was never launched and is queued once; only
\* the root is queued at depth 0, and what is queued passed the link filters.
QueueOK ==
  /\ \A i \in DOMAIN frontier :
       /\ frontier[i].url \in visited
       /\ launches[frontier[i].url] = 0
       /\ Linked(frontier[i].url)
       /\ frontier[i].depth = 0 => frontier[i].url = Root
  /\ \A i, j \in DOMAIN frontier : frontier[i].url = frontier[j].url => i = j

\* A fetch in flight was launched, and is the only one of its page.
FlightOK ==
  /\ \A f \in in_flight :
       /\ launches[f.url] > 0
       /\ f.depth = 0 => f.url = Root
  /\ \A f, g \in in_flight : f.url = g.url => f = g

\* A launched page has been seen, and the policy of its host is known.
LaunchedOK ==
  \A p \in Pages :
    launches[p] > 0 =>
      /\ p \in visited
      /\ VerdictKnown(p)

\* No fetch was launched for a page that the rules of its host forbid.
AllowedOnly == \A p \in Pages : Disallowed(p) => launches[p] = 0

Inv ==
  /\ TypeOK
  /\ BudgetHeld
  /\ QueueOK
  /\ FlightOK
  /\ LaunchedOK
  /\ RequestedOnce
  /\ NoEscape
  /\ AllowedOnly
  /\ Accounting

-----------------------------------------------------------------------------

\* No page has been launched yet.
LEMMA InitInv == Init => Inv
<1>. SUFFICES ASSUME Init PROVE Inv
  OBVIOUS
<1>1. PICK crawl \in Crawls : site = crawl.site /\ config = crawl.config
  BY DEF Init
<1>2. site \in Site /\ config \in CrawlConfig
  BY <1>1, CrawlAssumption
<1>3. config.max_depth \in Nat /\ config.max_pages \in Nat /\ config.concurrency \in Nat \ {0}
      /\ config.max_retries \in Nat
  BY <1>2 DEF CrawlConfig
<1>4. IsFiniteSet(in_flight) /\ Cardinality(in_flight) = 0
  BY FS_EmptySet DEF Init
<1>5. TypeOK
  <2>1. frontier \in Seq(Entry)
    BY <1>3, CrawlAssumption DEF Init, Entry
  <2>. QED  BY <1>2, <1>4, <2>1, CrawlAssumption DEF Init, TypeOK
<1>6. BudgetHeld
  BY <1>3, <1>4 DEF Init, BudgetHeld
<1>7. DOMAIN frontier = {1} /\ frontier[1] = [url |-> Root, depth |-> 0]
  BY DEF Init
<1>8. QueueOK
  BY <1>7, CrawlAssumption DEF Init, QueueOK, Linked
<1>9. FlightOK /\ LaunchedOK /\ RequestedOnce /\ NoEscape /\ AllowedOnly
  BY DEF Init, FlightOK, LaunchedOK, RequestedOnce, NoEscape, AllowedOnly
<1>10. Accounting
  <2>1. {p \in Pages : launches[p] > 0} = {}
    BY DEF Init
  <2>2. Cardinality({p \in Pages : launches[p] > 0}) = 0
    BY <2>1, FS_EmptySet
  <2>3. successes = 0 /\ failed = 0 /\ Len(revalidated) = 0
    BY DEF Init
  <2>. QED  BY <1>4, <2>2, <2>3 DEF Accounting
<1>. QED  BY <1>5, <1>6, <1>8, <1>9, <1>10 DEF Inv

(***************************************************************************)
(* Sequences: the entries built from an order of pages, and the orders.    *)
(***************************************************************************)
LEMMA EntriesOf ==
  ASSUME NEW n \in Nat, NEW S, NEW order \in [1..n -> S], NEW d,
         NEW T, \A p \in S : [url |-> p, depth |-> d] \in T
  PROVE  LET t == [i \in DOMAIN order |-> [url |-> order[i], depth |-> d]]
         IN /\ t \in Seq(T) /\ Len(t) = n
            /\ \A i \in 1..n : t[i] = [url |-> order[i], depth |-> d]
<1>. DEFINE t == [i \in 1..n |-> [url |-> order[i], depth |-> d]]
<1>1. \A i \in 1..n : [url |-> order[i], depth |-> d] \in T
  OBVIOUS
<1>2. t \in [1..n -> T]
  BY <1>1
<1>3. t \in Seq(T) /\ Len(t) = n
  BY <1>2
<1>4. DOMAIN order = 1..n
  OBVIOUS
<1>. QED  BY <1>3, <1>4

\* An order of a finite set without repetitions leaves out no element.
LEMMA OrdersAll ==
  ASSUME NEW S, IsFiniteSet(S), NEW order \in SetToSeqs(S)
  PROVE  /\ Cardinality(S) \in Nat
         /\ order \in [1..Cardinality(S) -> S]
         /\ \A i, j \in 1..Cardinality(S) : order[i] = order[j] => i = j
         /\ \A p \in S : \E i \in 1..Cardinality(S) : order[i] = p
<1>. DEFINE n == Cardinality(S)
<1>1. n \in Nat
  BY FS_CardinalityType
<1>2. /\ order \in [1..n -> S]
      /\ \A i, j \in 1..n : order[i] = order[j] => i = j
  BY DEF SetToSeqs
<1>3. ASSUME NEW p \in S, \A i \in 1..n : order[i] # p PROVE FALSE
  <2>. DEFINE rest == S \ {p}
  <2>1. order \in [1..n -> rest]
    BY <1>2, <1>3
  <2>2. IsFiniteSet(rest) /\ Cardinality(rest) = n - 1
    BY <1>3, FS_RemoveElement
  <2>3. IsFiniteSet(1..n) /\ Cardinality(1..n) = n
    BY <1>1, FS_Interval
  <2>. HIDE DEF rest, n
  <2>4. \E i, j \in 1..n : i # j /\ order[i] = order[j]
    BY <1>1, <2>1, <2>2, <2>3, FS_PigeonHole
  <2>. QED
    BY <1>2, <2>4
<1>. QED
  BY <1>1, <1>2, <1>3

(***************************************************************************)
(* What Expand leaves in the queue: what was there, followed by pages not  *)
(* seen before, each once, all of them one deeper than the page expanded.  *)
(***************************************************************************)
Fresh(f, children, seen) ==
  IF Follows(f) THEN (children \cap config.scope \cap config.followable) \ seen
                ELSE {}

\* The queue has grown by the pages of fresh, each once, one deeper than f.
Grown(f, fresh) ==
  \E m \in Nat : \E order \in [1..m -> fresh] :
    /\ \A i, j \in 1..m : order[i] = order[j] => i = j
    /\ \A p \in fresh : \E i \in 1..m : order[i] = p
    /\ frontier' \in Seq(Entry)
    /\ Len(frontier) \in Nat
    /\ DOMAIN frontier = 1..Len(frontier)
    /\ DOMAIN frontier' = 1..(Len(frontier) + m)
    /\ \A i \in DOMAIN frontier : frontier'[i] = frontier[i]
    /\ \A j \in 1..m : frontier'[Len(frontier) + j] =
                         [url |-> order[j], depth |-> f.depth + 1]

LEMMA ExpandEntries ==
  ASSUME TypeOK, NEW f \in in_flight, NEW children \in SUBSET Pages,
         NEW seen \in SUBSET Pages, Expand(f, children, seen)
  PROVE  /\ Fresh(f, children, seen) \subseteq Pages
         /\ visited' = seen \cup Fresh(f, children, seen)
         /\ Grown(f, Fresh(f, children, seen))
<1>. DEFINE fresh == Fresh(f, children, seen)
<1>1. /\ visited' = seen \cup fresh
      /\ \E order \in SetToSeqs(fresh) :
           frontier' = frontier \o [i \in DOMAIN order |->
                                      [url |-> order[i], depth |-> f.depth + 1]]
  BY DEF Expand, Queue, ChildDepth, Remember, Fresh
<1>2. PICK order \in SetToSeqs(fresh) :
        frontier' = frontier \o [i \in DOMAIN order |->
                                   [url |-> order[i], depth |-> f.depth + 1]]
  BY <1>1
<1>3. frontier \in Seq(Entry) /\ f \in Flight /\ config \in CrawlConfig
  BY DEF TypeOK
<1>4. config.max_depth \in Nat /\ f.depth \in Nat
  BY <1>3 DEF CrawlConfig, Flight
<1>5. fresh \in SUBSET Pages
  BY DEF Fresh
<1>. DEFINE n == Cardinality(fresh)
            new == [i \in DOMAIN order |->
                      [url |-> order[i], depth |-> f.depth + 1]]
<1>6. \A p \in fresh : [url |-> p, depth |-> f.depth + 1] \in Entry
  BY <1>4, <1>5 DEF Entry, Fresh, Follows
<1>. HIDE DEF fresh
<1>7. /\ n \in Nat /\ order \in [1..n -> fresh]
      /\ \A i, j \in 1..n : order[i] = order[j] => i = j
      /\ \A p \in fresh : \E i \in 1..n : order[i] = p
  <2>1. IsFiniteSet(fresh)
    BY <1>5, FS_Subset, CrawlAssumption
  <2>. QED
    BY <1>2, <2>1, OrdersAll
<1>. HIDE DEF n
<1>8. /\ new \in Seq(Entry) /\ Len(new) = n
      /\ \A i \in 1..n : new[i] = [url |-> order[i], depth |-> f.depth + 1]
  BY <1>7, <1>6, EntriesOf
<1>. HIDE DEF new
<1>9. frontier' = frontier \o new
  BY <1>2 DEF new
<1>10. /\ frontier' \in Seq(Entry)
       /\ Len(frontier') = Len(frontier) + n
       /\ \A i \in 1..(Len(frontier) + n) :
            frontier'[i] = IF i <= Len(frontier) THEN frontier[i]
                                                 ELSE new[i - Len(frontier)]
  BY <1>3, <1>8, <1>9, ConcatProperties
<1>11. /\ Len(frontier) \in Nat /\ DOMAIN frontier = 1..Len(frontier)
       /\ DOMAIN frontier' = 1..(Len(frontier) + n)
  BY <1>3, <1>10, LenProperties
<1>12. \A i \in DOMAIN frontier : frontier'[i] = frontier[i]
  BY <1>7, <1>10, <1>11
<1>13. ASSUME NEW j \in 1..n
       PROVE  frontier'[Len(frontier) + j] = [url |-> order[j], depth |-> f.depth + 1]
  <2>1. /\ Len(frontier) + j \in 1..(Len(frontier) + n)
        /\ ~(Len(frontier) + j <= Len(frontier))
        /\ (Len(frontier) + j) - Len(frontier) = j
    BY <1>7, <1>11
  <2>. QED
    BY <2>1, <1>8, <1>10
<1>14. Grown(f, fresh)
  BY <1>7, <1>10, <1>11, <1>12, <1>13 DEF Grown
<1>. QED
  BY <1>1, <1>5, <1>14 DEF fresh

\* The same, of the invariant: no page is in the queue twice.
LEMMA ExpandQueue ==
  ASSUME Inv, NEW f \in in_flight, NEW children \in SUBSET Pages,
         NEW seen \in SUBSET Pages, visited \subseteq seen,
         Expand(f, children, seen), site' = site, config' = config,
         launches' = launches
  PROVE  /\ frontier' \in Seq(Entry)
         /\ visited' \subseteq Pages /\ visited \subseteq visited'
         /\ QueueOK'
<1>1. TypeOK /\ f \in Flight /\ config \in CrawlConfig /\ launches \in [Pages -> Nat]
  BY DEF Inv, TypeOK
<1>. DEFINE fresh == Fresh(f, children, seen)
<1>2. f.depth \in Nat
  BY <1>1 DEF CrawlConfig, Flight
<1>3. \A p \in fresh : p \notin seen /\ p \in config.scope \cap config.followable
  BY DEF Fresh
<1>4. fresh \subseteq Pages /\ visited' = seen \cup fresh /\ Grown(f, fresh)
  BY <1>1, ExpandEntries
<1>. HIDE DEF fresh
<1>5. PICK n \in Nat : \E order \in [1..n -> fresh] :
        /\ \A i, j \in 1..n : order[i] = order[j] => i = j
        /\ frontier' \in Seq(Entry)
        /\ Len(frontier) \in Nat
        /\ DOMAIN frontier = 1..Len(frontier)
        /\ DOMAIN frontier' = 1..(Len(frontier) + n)
        /\ \A i \in DOMAIN frontier : frontier'[i] = frontier[i]
        /\ \A j \in 1..n : frontier'[Len(frontier) + j] =
                             [url |-> order[j], depth |-> f.depth + 1]
  BY <1>4 DEF Grown
<1>6. PICK order \in [1..n -> fresh] :
        /\ \A i, j \in 1..n : order[i] = order[j] => i = j
        /\ frontier' \in Seq(Entry)
        /\ Len(frontier) \in Nat
        /\ DOMAIN frontier = 1..Len(frontier)
        /\ DOMAIN frontier' = 1..(Len(frontier) + n)
        /\ \A i \in DOMAIN frontier : frontier'[i] = frontier[i]
        /\ \A j \in 1..n : frontier'[Len(frontier) + j] =
                             [url |-> order[j], depth |-> f.depth + 1]
  BY <1>5
\* An element of the new queue is an old one, or a page not seen before.
<1>7. ASSUME NEW i \in DOMAIN frontier'
       PROVE  \/ /\ i \in DOMAIN frontier /\ frontier'[i] = frontier[i]
                 /\ frontier'[i].url \in visited
              \/ \E j \in 1..n :
                   /\ i = Len(frontier) + j /\ frontier'[i].url = order[j]
                   /\ frontier'[i].url \in fresh
                   /\ frontier'[i].depth = f.depth + 1
  <2>1. CASE i \in DOMAIN frontier
    BY <2>1, <1>6 DEF Inv, QueueOK
  <2>2. CASE i \notin DOMAIN frontier
    <3>1. PICK j \in 1..n : i = Len(frontier) + j
      <4>1. i - Len(frontier) \in 1..n /\ i = Len(frontier) + (i - Len(frontier))
        BY <2>2, <1>6
      <4>. QED
        BY <4>1
    <3>2. frontier'[i] = [url |-> order[j], depth |-> f.depth + 1]
      BY <3>1, <1>6
    <3>3. order[j] \in fresh
      BY <3>1
    <3>. QED
      BY <3>1, <3>2, <3>3
  <2>. QED  BY <2>1, <2>2
<1>8. \A p \in fresh : p \in Pages /\ p \notin visited /\ launches[p] = 0
  BY <1>1, <1>3, <1>4 DEF Inv, LaunchedOK
<1>9. ASSUME NEW i \in DOMAIN frontier'
       PROVE  /\ frontier'[i].url \in visited'
              /\ launches[frontier'[i].url] = 0
              /\ Linked(frontier'[i].url)
              /\ frontier'[i].depth = 0 => frontier'[i].url = Root
  <2>1. CASE i \in DOMAIN frontier /\ frontier'[i] = frontier[i]
    BY <2>1, <1>4 DEF Inv, QueueOK
  <2>2. CASE frontier'[i].url \in fresh /\ frontier'[i].depth = f.depth + 1
    BY <2>2, <1>2, <1>3, <1>4, <1>8 DEF Linked
  <2>. QED  BY <2>1, <2>2, <1>7
<1>10. ASSUME NEW i \in DOMAIN frontier', NEW j \in DOMAIN frontier',
              frontier'[i].url = frontier'[j].url
       PROVE  i = j
  <2>1. CASE frontier'[i].url \in visited
    BY <2>1, <1>7, <1>8, <1>10 DEF Inv, QueueOK
  <2>2. CASE frontier'[i].url \notin visited
    BY <2>2, <1>6, <1>7, <1>10
  <2>. QED  BY <2>1, <2>2
<1>11. QueueOK'
  BY <1>9, <1>10 DEF QueueOK, Linked
<1>. QED  BY <1>4, <1>6, <1>11

\* Taking the first page off the queue, which may then be launched.
LEMMA TailQueue ==
  ASSUME Inv, frontier # <<>>, frontier' = Tail(frontier), visited' = visited,
         config' = config,
         \A p \in Pages : p # Head(frontier).url => launches'[p] = launches[p]
  PROVE  /\ Head(frontier) \in Entry /\ 1 \in DOMAIN frontier
         /\ frontier[1] = Head(frontier)
         /\ frontier' \in Seq(Entry)
         /\ QueueOK'
<1>1. frontier \in Seq(Entry)
  BY DEF Inv, TypeOK
<1>2. /\ Head(frontier) \in Entry /\ frontier[1] = Head(frontier)
      /\ Len(frontier) \in Nat \ {0}
      /\ DOMAIN frontier = 1..Len(frontier)
      /\ frontier' \in Seq(Entry)
      /\ DOMAIN frontier' = 1..(Len(frontier) - 1)
      /\ \A i \in 1..(Len(frontier) - 1) : frontier'[i] = frontier[i + 1]
  BY <1>1
<1>3. \A i \in DOMAIN frontier' :
        /\ i + 1 \in DOMAIN frontier
        /\ frontier'[i] = frontier[i + 1]
        /\ i + 1 # 1
  BY <1>2
<1>4. 1 \in DOMAIN frontier
  BY <1>2
<1>5. \A i \in DOMAIN frontier' :
        /\ frontier'[i].url \in Pages
        /\ frontier'[i].url # Head(frontier).url
  <2>1. \A i \in DOMAIN frontier : frontier[i] \in Entry
    BY <1>1
  <2>2. \A i \in DOMAIN frontier : frontier[i].url \in Pages
    BY <2>1 DEF Entry
  <2>. QED  BY <2>2, <1>2, <1>3, <1>4 DEF Inv, QueueOK
<1>6. \A i, j \in DOMAIN frontier' :
        frontier'[i].url = frontier'[j].url => i = j
  <2>. SUFFICES ASSUME NEW i \in DOMAIN frontier', NEW j \in DOMAIN frontier',
                       frontier'[i].url = frontier'[j].url
                PROVE  i = j
    OBVIOUS
  <2>1. /\ i + 1 \in DOMAIN frontier /\ j + 1 \in DOMAIN frontier
        /\ frontier[i + 1].url = frontier[j + 1].url
    BY <1>3
  <2>2. i + 1 = j + 1
    BY <2>1 DEF Inv, QueueOK
  <2>. QED  BY <2>2, <1>2
<1>. QED  BY <1>2, <1>3, <1>4, <1>5, <1>6 DEF Inv, QueueOK, Linked

\* A fetch that completes leaves one fetch less in flight.
LEMMA FlightRemoved ==
  ASSUME Inv, NEW f \in in_flight, in_flight' = in_flight \ {f},
         launches' = launches
  PROVE  /\ in_flight' \subseteq Flight /\ IsFiniteSet(in_flight')
         /\ Cardinality(in_flight) \in Nat \ {0}
         /\ Cardinality(in_flight') = Cardinality(in_flight) - 1
         /\ FlightOK'
<1>1. in_flight \subseteq Flight /\ IsFiniteSet(in_flight)
  BY DEF Inv, TypeOK
<1>2. /\ Cardinality(in_flight) \in Nat
      /\ Cardinality(in_flight') = Cardinality(in_flight) - 1
      /\ IsFiniteSet(in_flight')
  BY <1>1, FS_RemoveElement, FS_CardinalityType
<1>3. Cardinality(in_flight) # 0
  BY <1>1, FS_EmptySet
<1>. QED  BY <1>1, <1>2, <1>3 DEF Inv, FlightOK

-----------------------------------------------------------------------------

LEMMA FetchRobotsInv == ASSUME Inv, FetchRobots PROVE Inv'
<1>1. PICK policy \in {"rules", "allow_all"} :
        robots' = [robots EXCEPT ![site.host[Head(frontier).url]] = policy]
  BY DEF FetchRobots
<1>. DEFINE h == site.host[Head(frontier).url]
<1>2. robots[h] = "unfetched" /\ robots' = [robots EXCEPT ![h] = policy]
  BY <1>1 DEF FetchRobots
<1>3. UNCHANGED <<site, config, status, visited, frontier, in_flight, successes,
                  failed, revalidated, launches, yielded>>
  BY DEF FetchRobots, given, records, history
<1>. HIDE DEF h
<1>4. site \in Site /\ robots \in [Hosts -> {"unfetched", "rules", "allow_all"}]
      /\ launches \in [Pages -> Nat]
  BY DEF Inv, TypeOK
<1>5. TypeOK'
  BY <1>2, <1>3, <1>4 DEF Inv, TypeOK, Entry, Flight
<1>6. BudgetHeld' /\ QueueOK' /\ FlightOK' /\ RequestedOnce' /\ NoEscape'
      /\ Accounting'
  BY <1>3 DEF Inv, BudgetHeld, QueueOK, FlightOK, RequestedOnce, NoEscape,
              Accounting, Linked
\* A page launched before is on a host whose policy was known already.
<1>7. \A p \in Pages : /\ site.host[p] # h => robots'[site.host[p]] = robots[site.host[p]]
                       /\ site.host[p] = h => robots'[site.host[p]] = policy
  BY <1>2, <1>4 DEF Site
<1>8. \A p \in Pages : launches[p] > 0 /\ config.respect_robots
                         => robots[site.host[p]] # "unfetched"
  BY DEF Inv, LaunchedOK, VerdictKnown
<1>9. LaunchedOK'
  BY <1>1, <1>3, <1>7, <1>8 DEF Inv, LaunchedOK, VerdictKnown
<1>10. AllowedOnly'
  BY <1>2, <1>3, <1>4, <1>7, <1>8 DEF Inv, AllowedOnly, Disallowed
<1>. QED  BY <1>5, <1>6, <1>9, <1>10 DEF Inv

LEMMA LaunchInv == ASSUME Inv, Launch PROVE Inv'
<1>. DEFINE entry == Head(frontier)
            p0 == entry.url
            g == [url |-> entry.url, depth |-> entry.depth, attempt |-> 0]
<1>1. /\ frontier # <<>> /\ status = "crawling"
      /\ Cardinality(in_flight) < config.concurrency
      /\ successes + Cardinality(in_flight) < config.max_pages
      /\ VerdictKnown(p0) /\ ~Disallowed(p0)
      /\ in_flight' = in_flight \cup {g}
      /\ launches' = [launches EXCEPT ![p0] = @ + 1]
      /\ frontier' = Tail(frontier)
  BY DEF Launch, CanFill, BudgetLeft
<1>2. UNCHANGED <<site, config, status, visited, successes, failed, revalidated,
                  robots, yielded>>
  BY DEF Launch, given, records
<1>. HIDE DEF p0, g, entry
<1>3. /\ config \in CrawlConfig /\ in_flight \subseteq Flight
      /\ IsFiniteSet(in_flight) /\ launches \in [Pages -> Nat]
      /\ successes \in Nat /\ failed \in Nat /\ revalidated \in Seq(Pages)
  BY DEF Inv, TypeOK
<1>4. /\ entry \in Entry /\ frontier' \in Seq(Entry) /\ QueueOK'
      /\ p0 \in visited /\ launches[p0] = 0 /\ Linked(p0)
      /\ entry.depth = 0 => p0 = Root
  <2>1. \A p \in Pages : p # p0 => launches'[p] = launches[p]
    BY <1>1, <1>3
  <2>2. /\ entry \in Entry /\ 1 \in DOMAIN frontier /\ frontier[1] = entry
        /\ frontier' \in Seq(Entry) /\ QueueOK'
    BY <1>1, <1>2, <2>1, TailQueue DEF entry, p0
  <2>. QED  BY <2>2 DEF Inv, QueueOK, p0
<1>5. p0 \in Pages /\ g.url = p0 /\ g.depth = entry.depth
  BY <1>4 DEF Entry, p0, g
<1>6. g \in Flight
  BY <1>3, <1>4 DEF Entry, Flight, CrawlConfig, g
\* No fetch of this page is in flight yet.
<1>7. g \notin in_flight
  BY <1>4, <1>5 DEF Inv, FlightOK
<1>8. /\ IsFiniteSet(in_flight') /\ Cardinality(in_flight) \in Nat
      /\ Cardinality(in_flight') = Cardinality(in_flight) + 1
  BY <1>1, <1>3, <1>7, FS_AddElement, FS_CardinalityType
<1>9. /\ launches' \in [Pages -> Nat] /\ launches'[p0] = 1
      /\ \A p \in Pages : p # p0 => launches'[p] = launches[p]
  BY <1>1, <1>3, <1>4, <1>5
<1>10. TypeOK'
  BY <1>1, <1>2, <1>3, <1>4, <1>6, <1>8, <1>9 DEF Inv, TypeOK, Entry, Flight
<1>11. BudgetHeld'
  BY <1>1, <1>2, <1>3, <1>8 DEF BudgetHeld, CrawlConfig
<1>12. FlightOK'
  <2>1. ASSUME NEW f \in in_flight'
        PROVE  launches'[f.url] > 0 /\ (f.depth = 0 => f.url = Root)
    <3>1. CASE f = g
      BY <3>1, <1>4, <1>5, <1>9
    <3>2. CASE f \in in_flight
      <4>1. launches[f.url] > 0 /\ (f.depth = 0 => f.url = Root)
            /\ f.url \in Pages
        BY <3>2, <1>3 DEF Inv, FlightOK, Flight
      <4>. QED  BY <4>1, <1>4, <1>9
    <3>. QED  BY <3>1, <3>2, <1>1
  <2>2. ASSUME NEW f \in in_flight', NEW k \in in_flight', f.url = k.url
        PROVE  f = k
    <3>1. \A x \in in_flight : x.url # p0
      BY <1>4 DEF Inv, FlightOK
    <3>. QED  BY <2>2, <3>1, <1>1, <1>5 DEF Inv, FlightOK
  <2>. QED  BY <2>1, <2>2 DEF FlightOK
<1>13. LaunchedOK'
  <2>. SUFFICES ASSUME NEW p \in Pages, launches'[p] > 0
                PROVE  p \in visited /\ VerdictKnown(p)
    BY <1>2 DEF LaunchedOK, VerdictKnown
  <2>1. CASE p = p0
    BY <2>1, <1>1, <1>4
  <2>2. CASE p # p0
    BY <2>2, <1>9 DEF Inv, LaunchedOK
  <2>. QED  BY <2>1, <2>2
<1>14. RequestedOnce'
  BY <1>9 DEF Inv, RequestedOnce
<1>15. NoEscape'
  BY <1>2, <1>4, <1>9 DEF Inv, NoEscape, Linked
<1>16. AllowedOnly'
  <2>. SUFFICES ASSUME NEW p \in Pages, Disallowed(p)
                PROVE  launches'[p] = 0
    BY <1>2 DEF AllowedOnly, Disallowed
  <2>1. p # p0
    BY <1>1
  <2>. QED  BY <2>1, <1>9 DEF Inv, AllowedOnly
<1>17. Accounting'
  <2>. DEFINE L == {p \in Pages : launches[p] > 0}
  <2>1. {p \in Pages : launches'[p] > 0} = L \cup {p0}
    BY <1>5, <1>9
  <2>2. p0 \notin L /\ IsFiniteSet(L)
    BY <1>4, FS_Subset, CrawlAssumption
  <2>. HIDE DEF L
  <2>3. Cardinality(L \cup {p0}) = Cardinality(L) + 1 /\ Cardinality(L) \in Nat
    BY <2>2, FS_AddElement, FS_CardinalityType
  <2>4. Cardinality(L) = successes + failed + Len(revalidated)
                           + Cardinality(in_flight)
    BY <1>1 DEF Inv, Accounting, L
  <2>5. Len(revalidated) \in Nat
    BY <1>3
  <2>6. Cardinality({p \in Pages : launches'[p] > 0}) = Cardinality(L) + 1
    BY <2>1, <2>3
  <2>. QED  BY <2>3, <2>4, <2>5, <2>6, <1>2, <1>3, <1>8 DEF Accounting
<1>. QED  BY <1>4, <1>10, <1>11, <1>12, <1>13, <1>14, <1>15, <1>16, <1>17 DEF Inv

\* A page that robots.txt forbids leaves the queue; the root ends the crawl.
LEMMA SkipInv == ASSUME Inv, SkipDisallowed \/ RootDisallowed PROVE Inv'
<1>1. /\ frontier # <<>> /\ frontier' = Tail(frontier)
      /\ status = "crawling" /\ status' \in {"crawling", "failed"}
  BY DEF SkipDisallowed, RootDisallowed, CanFill
<1>2. UNCHANGED <<site, config, visited, in_flight, successes, failed,
                  revalidated, robots, launches, yielded>>
  BY DEF SkipDisallowed, RootDisallowed, given, records, history
<1>3. frontier' \in Seq(Entry) /\ QueueOK'
  BY <1>1, <1>2, TailQueue
<1>4. TypeOK'
  BY <1>1, <1>2, <1>3 DEF Inv, TypeOK, Entry, Flight
<1>5. BudgetHeld' /\ FlightOK' /\ RequestedOnce' /\ NoEscape'
  BY <1>2 DEF Inv, BudgetHeld, FlightOK, RequestedOnce, NoEscape
<1>6. LaunchedOK' /\ AllowedOnly'
  BY <1>2 DEF Inv, LaunchedOK, VerdictKnown, AllowedOnly, Disallowed
<1>7. Accounting'
  BY <1>1, <1>2 DEF Inv, Accounting
<1>. QED  BY <1>3, <1>4, <1>5, <1>6, <1>7 DEF Inv

\* A retry replaces the fetch by the same one with one attempt more.
LEMMA RetryInv == ASSUME Inv, NEW f \in in_flight, Retry(f) PROVE Inv'
<1>. DEFINE g == [f EXCEPT !.attempt = f.attempt + 1]
            rest == in_flight \ {f}
<1>1. f.attempt < config.max_retries /\ in_flight' = rest \cup {g}
  BY DEF Retry, RetriesLeft
<1>2. UNCHANGED <<site, config, status, visited, frontier, successes, failed,
                  revalidated, robots, launches, yielded>>
  BY DEF Retry, given, records, history
<1>3. /\ config \in CrawlConfig /\ in_flight \subseteq Flight /\ f \in Flight
      /\ IsFiniteSet(in_flight)
  BY DEF Inv, TypeOK
<1>4. g \in Flight /\ g.url = f.url /\ g.depth = f.depth
  BY <1>1, <1>3 DEF Flight, CrawlConfig
<1>5. g \notin rest
  BY <1>4 DEF Inv, FlightOK
<1>6. /\ IsFiniteSet(in_flight')
      /\ Cardinality(in_flight') = Cardinality(in_flight)
  <2>1. /\ IsFiniteSet(rest) /\ Cardinality(in_flight) \in Nat
        /\ Cardinality(rest) = Cardinality(in_flight) - 1
    BY <1>3, FS_RemoveElement, FS_CardinalityType
  <2>. HIDE DEF rest, g
  <2>2. Cardinality(rest \cup {g}) = Cardinality(rest) + 1
        /\ IsFiniteSet(rest \cup {g})
    BY <2>1, <1>5, FS_AddElement
  <2>. QED  BY <2>1, <2>2, <1>1
<1>. HIDE DEF g
<1>7. TypeOK'
  BY <1>1, <1>2, <1>3, <1>4, <1>6 DEF Inv, TypeOK, Entry, Flight
<1>8. BudgetHeld' /\ Accounting'
  BY <1>2, <1>6 DEF Inv, BudgetHeld, Accounting
<1>9. FlightOK'
  BY <1>1, <1>2, <1>4 DEF Inv, FlightOK
<1>10. QueueOK' /\ RequestedOnce' /\ NoEscape'
  BY <1>2 DEF Inv, QueueOK, Linked, RequestedOnce, NoEscape
<1>11. LaunchedOK' /\ AllowedOnly'
  BY <1>2 DEF Inv, LaunchedOK, VerdictKnown, AllowedOnly, Disallowed
<1>. QED  BY <1>7, <1>8, <1>9, <1>10, <1>11 DEF Inv

LEMMA RevalidatedInv == ASSUME Inv, NEW f \in in_flight, Revalidated(f) PROVE Inv'
<1>1. /\ status = "crawling" /\ in_flight' = in_flight \ {f}
      /\ revalidated' = Append(revalidated, f.url)
      /\ Expand(f, config.known_edges[f.url], visited \cup {f.url})
  BY DEF Revalidated, Awaiting
<1>2. UNCHANGED <<site, config, status, successes, failed, robots, launches,
                  yielded>>
  BY DEF Revalidated, given, history
<1>3. /\ config \in CrawlConfig /\ f \in Flight /\ visited \subseteq Pages
      /\ successes \in Nat /\ failed \in Nat /\ revalidated \in Seq(Pages)
  BY DEF Inv, TypeOK
<1>4. f.url \in Pages /\ config.known_edges[f.url] \in SUBSET Pages
  BY <1>3 DEF Flight, CrawlConfig
<1>5. /\ frontier' \in Seq(Entry) /\ visited' \subseteq Pages
      /\ visited \subseteq visited' /\ QueueOK'
  BY <1>1, <1>2, <1>3, <1>4, ExpandQueue
<1>6. /\ in_flight' \subseteq Flight /\ IsFiniteSet(in_flight')
      /\ Cardinality(in_flight) \in Nat \ {0}
      /\ Cardinality(in_flight') = Cardinality(in_flight) - 1
      /\ FlightOK'
  BY <1>1, <1>2, FlightRemoved
<1>7. /\ revalidated' \in Seq(Pages) /\ Len(revalidated) \in Nat
      /\ Len(revalidated') = Len(revalidated) + 1
  BY <1>1, <1>3, <1>4
<1>8. TypeOK'
  BY <1>2, <1>5, <1>6, <1>7 DEF Inv, TypeOK, Entry, Flight
<1>9. BudgetHeld'
  BY <1>2, <1>3, <1>6 DEF Inv, BudgetHeld, CrawlConfig
<1>10. Accounting'
  BY <1>1, <1>2, <1>3, <1>6, <1>7 DEF Inv, Accounting
<1>11. RequestedOnce' /\ NoEscape'
  BY <1>2 DEF Inv, RequestedOnce, NoEscape
<1>12. LaunchedOK' /\ AllowedOnly'
  BY <1>2, <1>5 DEF Inv, LaunchedOK, VerdictKnown, AllowedOnly, Disallowed
<1>. QED  BY <1>5, <1>6, <1>8, <1>9, <1>10, <1>11, <1>12 DEF Inv

\* Completions that queue nothing.
LEMMA ChildFailedInv == ASSUME Inv, NEW f \in in_flight, ChildFailed(f) PROVE Inv'
<1>1. in_flight' = in_flight \ {f} /\ failed' = failed + 1
  BY DEF ChildFailed, CountFailure
<1>2. UNCHANGED <<site, config, status, visited, frontier, successes,
                  revalidated, robots, launches, yielded>>
  BY DEF ChildFailed, given, history
<1>3. /\ config \in CrawlConfig /\ successes \in Nat /\ failed \in Nat
      /\ Len(revalidated) \in Nat
  BY DEF Inv, TypeOK
<1>4. /\ in_flight' \subseteq Flight /\ IsFiniteSet(in_flight')
      /\ Cardinality(in_flight) \in Nat \ {0}
      /\ Cardinality(in_flight') = Cardinality(in_flight) - 1
      /\ FlightOK'
  BY <1>1, <1>2, FlightRemoved
<1>5. TypeOK'
  BY <1>1, <1>2, <1>4 DEF Inv, TypeOK, Entry, Flight
<1>6. BudgetHeld'
  BY <1>2, <1>3, <1>4 DEF Inv, BudgetHeld, CrawlConfig
<1>7. Accounting'
  BY <1>1, <1>2, <1>3, <1>4 DEF Inv, Accounting
<1>8. QueueOK' /\ RequestedOnce' /\ NoEscape'
  BY <1>2 DEF Inv, QueueOK, Linked, RequestedOnce, NoEscape
<1>9. LaunchedOK' /\ AllowedOnly'
  BY <1>2 DEF Inv, LaunchedOK, VerdictKnown, AllowedOnly, Disallowed
<1>. QED  BY <1>4, <1>5, <1>6, <1>7, <1>8, <1>9 DEF Inv

LEMMA EscapedInv == ASSUME Inv, NEW f \in in_flight, Escaped(f) PROVE Inv'
<1>1. in_flight' = in_flight \ {f} /\ successes' = successes + 1
  BY DEF Escaped
<1>2. UNCHANGED <<site, config, status, visited, frontier, failed,
                  revalidated, robots, launches, yielded>>
  BY DEF Escaped, given, history
<1>3. /\ config \in CrawlConfig /\ successes \in Nat /\ failed \in Nat
      /\ Len(revalidated) \in Nat
  BY DEF Inv, TypeOK
<1>4. /\ in_flight' \subseteq Flight /\ IsFiniteSet(in_flight')
      /\ Cardinality(in_flight) \in Nat \ {0}
      /\ Cardinality(in_flight') = Cardinality(in_flight) - 1
      /\ FlightOK'
  BY <1>1, <1>2, FlightRemoved
<1>5. TypeOK'
  BY <1>1, <1>2, <1>4 DEF Inv, TypeOK, Entry, Flight
<1>6. BudgetHeld'
  BY <1>1, <1>2, <1>3, <1>4 DEF Inv, BudgetHeld, CrawlConfig
<1>7. Accounting'
  BY <1>1, <1>2, <1>3, <1>4 DEF Inv, Accounting
<1>8. QueueOK' /\ RequestedOnce' /\ NoEscape'
  BY <1>2 DEF Inv, QueueOK, Linked, RequestedOnce, NoEscape
<1>9. LaunchedOK' /\ AllowedOnly'
  BY <1>2 DEF Inv, LaunchedOK, VerdictKnown, AllowedOnly, Disallowed
<1>. QED  BY <1>4, <1>5, <1>6, <1>7, <1>8, <1>9 DEF Inv

LEMMA AcceptedInv == ASSUME Inv, NEW f \in in_flight, Accepted(f) PROVE Inv'
<1>. DEFINE effective == site.final[f.url]
<1>1. /\ in_flight' = in_flight \ {f} /\ successes' = successes + 1
      /\ f.depth > 0 => effective \in config.scope
      /\ Expand(f, site.links[effective], visited \cup {effective})
      /\ yielded' = IF effective \in config.indexed
                      THEN [yielded EXCEPT ![effective] = @ + 1]
                      ELSE yielded
  BY DEF Accepted, StaysInScope
<1>2. UNCHANGED <<site, config, status, failed, revalidated, robots, launches>>
  BY DEF Accepted, given
<1>3. /\ site \in Site /\ config \in CrawlConfig /\ f \in Flight
      /\ visited \subseteq Pages /\ successes \in Nat /\ failed \in Nat
      /\ Len(revalidated) \in Nat /\ yielded \in [Pages -> Nat]
  BY DEF Inv, TypeOK
<1>4. f.url \in Pages /\ f.depth \in Nat /\ effective \in Pages
      /\ site.links[effective] \in SUBSET Pages
  BY <1>3 DEF Flight, CrawlConfig, Site
<1>5. effective = site.final[Root] \/ effective \in config.scope
  BY <1>1, <1>4 DEF Inv, FlightOK
<1>. HIDE DEF effective
<1>6. /\ frontier' \in Seq(Entry) /\ visited' \subseteq Pages
      /\ visited \subseteq visited' /\ QueueOK'
  <2>1. visited \cup {effective} \in SUBSET Pages
    BY <1>3, <1>4
  <2>. QED  BY <2>1, <1>1, <1>2, <1>4, ExpandQueue
<1>7. /\ in_flight' \subseteq Flight /\ IsFiniteSet(in_flight')
      /\ Cardinality(in_flight) \in Nat \ {0}
      /\ Cardinality(in_flight') = Cardinality(in_flight) - 1
      /\ FlightOK'
  BY <1>1, <1>2, FlightRemoved
<1>8. yielded' \in [Pages -> Nat]
      /\ \A p \in Pages : p # effective => yielded'[p] = yielded[p]
  BY <1>1, <1>3, <1>4
<1>9. TypeOK'
  BY <1>1, <1>2, <1>6, <1>7, <1>8 DEF Inv, TypeOK, Entry, Flight
<1>10. BudgetHeld'
  BY <1>1, <1>2, <1>3, <1>7 DEF Inv, BudgetHeld, CrawlConfig
<1>11. Accounting'
  BY <1>1, <1>2, <1>3, <1>7 DEF Inv, Accounting
<1>12. RequestedOnce' /\ NoEscape'
  BY <1>2, <1>5, <1>8 DEF Inv, RequestedOnce, NoEscape
<1>13. LaunchedOK' /\ AllowedOnly'
  BY <1>2, <1>6 DEF Inv, LaunchedOK, VerdictKnown, AllowedOnly, Disallowed
<1>. QED  BY <1>6, <1>7, <1>9, <1>10, <1>11, <1>12, <1>13 DEF Inv

\* The crawl ends, with everything in flight dropped or nothing left.
LEMMA EndInv ==
  ASSUME Inv, Finish \/ \E f \in in_flight : RootFailed(f)
  PROVE  Inv'
<1>1. /\ status' \in {"done", "failed"}
      /\ \/ status' = "failed" /\ in_flight' = {}
         \/ status = "crawling" /\ in_flight' = in_flight
  BY DEF Finish, RootFailed, Awaiting
<1>2. UNCHANGED <<site, config, visited, frontier, successes, failed,
                  revalidated, robots, launches, yielded>>
  BY DEF Finish, RootFailed, given, records, history
<1>3. /\ config \in CrawlConfig /\ successes \in Nat
      /\ Cardinality(in_flight) \in Nat /\ IsFiniteSet(in_flight)
  BY FS_CardinalityType DEF Inv, TypeOK
<1>4. /\ IsFiniteSet(in_flight') /\ Cardinality(in_flight') \in Nat
      /\ Cardinality(in_flight') <= Cardinality(in_flight)
  BY <1>1, <1>3, FS_EmptySet
<1>5. TypeOK'
  BY <1>1, <1>2, <1>4 DEF Inv, TypeOK, Entry, Flight
<1>6. BudgetHeld'
  BY <1>2, <1>3, <1>4 DEF Inv, BudgetHeld, CrawlConfig
<1>7. FlightOK'
  BY <1>1, <1>2 DEF Inv, FlightOK
<1>8. Accounting'
  BY <1>1, <1>2 DEF Inv, Accounting
<1>9. QueueOK' /\ RequestedOnce' /\ NoEscape'
  BY <1>2 DEF Inv, QueueOK, Linked, RequestedOnce, NoEscape
<1>10. LaunchedOK' /\ AllowedOnly'
  BY <1>2 DEF Inv, LaunchedOK, VerdictKnown, AllowedOnly, Disallowed
<1>. QED  BY <1>5, <1>6, <1>7, <1>8, <1>9, <1>10 DEF Inv

-----------------------------------------------------------------------------

LEMMA NextInv == Inv /\ [Next]_vars => Inv'
<1>. SUFFICES ASSUME Inv, [Next]_vars PROVE Inv'
  OBVIOUS
<1>1. CASE FetchRobots
  BY <1>1, FetchRobotsInv
<1>2. CASE Launch
  BY <1>2, LaunchInv
<1>3. CASE SkipDisallowed \/ RootDisallowed
  BY <1>3, SkipInv
<1>4. ASSUME NEW f \in in_flight, Retry(f) PROVE Inv'
  BY <1>4, RetryInv
<1>5. ASSUME NEW f \in in_flight, Revalidated(f) PROVE Inv'
  BY <1>5, RevalidatedInv
<1>6. ASSUME NEW f \in in_flight, ChildFailed(f) PROVE Inv'
  BY <1>6, ChildFailedInv
<1>7. ASSUME NEW f \in in_flight, Escaped(f) PROVE Inv'
  BY <1>7, EscapedInv
<1>8. ASSUME NEW f \in in_flight, Accepted(f) PROVE Inv'
  BY <1>8, AcceptedInv
<1>9. CASE Finish \/ \E f \in in_flight : RootFailed(f)
  BY <1>9, EndInv
<1>10. CASE UNCHANGED vars
  <2>1. UNCHANGED <<site, config, status, visited, frontier, in_flight,
                    successes, failed, revalidated, robots, launches, yielded>>
    BY <1>10 DEF vars, given, records, history
  <2>2. TypeOK'
    BY <2>1 DEF Inv, TypeOK, Entry, Flight
  <2>3. BudgetHeld' /\ Accounting' /\ FlightOK' /\ QueueOK'
    BY <2>1 DEF Inv, BudgetHeld, Accounting, FlightOK, QueueOK, Linked
  <2>4. LaunchedOK' /\ AllowedOnly' /\ RequestedOnce' /\ NoEscape'
    BY <2>1 DEF Inv, LaunchedOK, VerdictKnown, AllowedOnly, Disallowed,
                RequestedOnce, NoEscape
  <2>. QED  BY <2>2, <2>3, <2>4 DEF Inv
<1>. QED  BY <1>1, <1>2, <1>3, <1>4, <1>5, <1>6, <1>7, <1>8, <1>9, <1>10
          DEF Next, Fill, Complete

LEMMA Invariance == Spec => []Inv
  BY InitInv, NextInv, PTL DEF Spec

\* The locals of the stream body keep their types on every web.
THEOREM Types == Spec => []TypeOK
<1>1. Inv => TypeOK
  BY DEF Inv
<1>. QED  BY <1>1, Invariance, PTL

\* Bodies received plus fetches in flight never exceed the budget, nor fetches
\* in flight the concurrency, for any site, budget and concurrency.
THEOREM Budget == Spec => []BudgetHeld
<1>1. Inv => BudgetHeld
  BY DEF Inv
<1>. QED  BY <1>1, Invariance, PTL

\* No fetch is launched twice for a URL, in any order of completions.
THEOREM Once == Spec => []RequestedOnce
<1>1. Inv => RequestedOnce
  BY DEF Inv
<1>. QED  BY <1>1, Invariance, PTL

\* Links and redirects never take the crawl out of scope.
THEOREM Confined == Spec => []NoEscape
<1>1. Inv => NoEscape
  BY DEF Inv
<1>. QED  BY <1>1, Invariance, PTL

\* A page that was yielded is where a launched fetch ended.
YieldedLaunched ==
  \A p \in Pages :
    yielded[p] > 0 => \E q \in Pages : launches[q] > 0 /\ site.final[q] = p

\* Launches are never forgotten, and only a body that arrived is yielded.
LEMMA YieldedNext == Inv /\ YieldedLaunched /\ [Next]_vars => YieldedLaunched'
<1>. SUFFICES ASSUME Inv, YieldedLaunched, [Next]_vars PROVE YieldedLaunched'
  OBVIOUS
<1>1. launches \in [Pages -> Nat] /\ yielded \in [Pages -> Nat] /\ in_flight \subseteq Flight
  BY DEF Inv, TypeOK
<1>2. CASE \E f \in in_flight : Accepted(f)
  <2>1. PICK f \in in_flight : Accepted(f)
    BY <1>2
  <2>2. /\ UNCHANGED <<site, launches>>
        /\ yielded' \in {yielded, [yielded EXCEPT ![site.final[f.url]] = @ + 1]}
    BY <2>1 DEF Accepted, given
  <2>3. f.url \in Pages /\ launches[f.url] > 0
    BY <1>1 DEF Flight, Inv, FlightOK
  <2>4. \A p \in Pages : p # site.final[f.url] => yielded'[p] = yielded[p]
    BY <1>1, <2>2
  <2>. QED
    BY <2>2, <2>3, <2>4 DEF YieldedLaunched
<1>3. CASE UNCHANGED <<site, launches, yielded>>
  BY <1>3 DEF YieldedLaunched
<1>4. CASE Launch
  <2>1. PICK q : launches' = [launches EXCEPT ![q] = @ + 1]
    BY <1>4 DEF Launch
  <2>2. \A p \in Pages : launches[p] > 0 => launches'[p] > 0
    BY <1>1, <2>1
  <2>. QED
    BY <1>4, <2>2 DEF Launch, given, YieldedLaunched
<1>5. CASE FetchRobots \/ SkipDisallowed \/ RootDisallowed \/ Finish \/ UNCHANGED vars
  BY <1>3, <1>5 DEF FetchRobots, SkipDisallowed, RootDisallowed, Finish, vars, given, history
<1>6. CASE \E f \in in_flight : Complete(f) /\ ~Accepted(f)
  BY <1>3, <1>6 DEF Complete, Retry, Revalidated, ChildFailed, RootFailed, Escaped,
                    given, history
<1>. QED
  BY <1>2, <1>4, <1>5, <1>6 DEF Next, Fill, Complete

\* On any site, no fetch is launched for a URL that the robots.txt of its host
\* forbids, and such a page is yielded only as the end of a redirect of a URL
\* that was allowed: the verdict is on what is queued, not on where it leads.
THEOREM Polite == Spec => []RobotsHonoured
<1>1. Init => YieldedLaunched
  BY DEF Init, YieldedLaunched
<1>2. Inv /\ YieldedLaunched => RobotsHonoured
  <2>. SUFFICES ASSUME Inv, YieldedLaunched, NEW p \in Pages, Disallowed(p)
                PROVE  /\ launches[p] = 0
                       /\ yielded[p] > 0 =>
                            \E q \in Pages : /\ launches[q] > 0 /\ ~Disallowed(q)
                                            /\ site.final[q] = p
    BY DEF RobotsHonoured
  <2>1. \A q \in Pages : launches[q] > 0 => ~Disallowed(q)
    BY DEF Inv, AllowedOnly
  <2>. QED
    BY <2>1 DEF Inv, AllowedOnly, YieldedLaunched
<1>. QED  BY <1>1, <1>2, YieldedNext, Invariance, PTL DEF Spec

\* Every request is in flight, a success, a failure or a 304, exactly once.
THEOREM Accounted == Spec => []Accounting
<1>1. Inv => Accounting
  BY DEF Inv
<1>. QED  BY <1>1, Invariance, PTL

-----------------------------------------------------------------------------
(***************************************************************************)
(* What a crawl can still do only shrinks.                                 *)
(***************************************************************************)

Queued == {frontier[i].url : i \in DOMAIN frontier}

\* A fetch in flight is work: its page will not be launched again, and this
\* attempt has not been answered.
LEMMA FlightIsWork ==
  ASSUME Inv, NEW f \in in_flight
  PROVE  /\ f.url \in Pages /\ f.attempt \in Nat /\ config.max_retries \in Nat
         /\ f.url \notin ToLaunch
         /\ <<f.url, f.attempt>> \in ToSend
<1>1. f \in Flight /\ config \in CrawlConfig
  BY DEF Inv, TypeOK
<1>2. config.max_retries \in Nat
  BY <1>1 DEF CrawlConfig
<1>3. f.url \in Pages /\ f.attempt \in 0..config.max_retries
  BY <1>1 DEF Flight
<1>4. f.url \in visited /\ launches[f.url] > 0
  BY <1>3 DEF Inv, FlightOK, LaunchedOK
<1>5. f.url \notin ToLaunch
  <2>1. \A i \in DOMAIN frontier : launches[frontier[i].url] = 0
    BY DEF Inv, QueueOK
  <2>. QED
    BY <2>1, <1>4 DEF ToLaunch
<1>6. <<f.url, f.attempt>> \in ToSend
  <2>1. f.attempt <= f.attempt
    BY <1>2, <1>3
  <2>. QED
    BY <1>3, <2>1 DEF ToSend
<1>. QED
  BY <1>2, <1>3, <1>5, <1>6

\* Once it is answered, that attempt is never made again.
LEMMA AnsweredShrinks ==
  ASSUME Inv, NEW f \in in_flight, in_flight' = in_flight \ {f},
         ToLaunch' \subseteq ToLaunch, config' = config
  PROVE  ToSend' \subseteq ToSend /\ ToSend' # ToSend
<1>1. ToSend' \subseteq ToSend
  BY DEF ToSend
<1>2. \A g \in in_flight' : g.url # f.url
  BY DEF Inv, FlightOK
<1>3. f.url \notin ToLaunch'
  BY FlightIsWork
<1>4. <<f.url, f.attempt>> \notin ToSend'
  BY <1>2, <1>3 DEF ToSend
<1>. QED
  BY <1>1, <1>4, FlightIsWork

\* The pages that a body or a revalidation queues had not been seen before.
LEMMA ExpandShrinks ==
  ASSUME Inv, NEW f \in in_flight, NEW children \in SUBSET Pages,
         NEW seen \in SUBSET Pages, visited \subseteq seen, Expand(f, children, seen)
  PROVE  ToLaunch' \subseteq ToLaunch
<1>. DEFINE fresh == Fresh(f, children, seen)
<1>1. fresh \cap seen = {}
  BY DEF Fresh
<1>2. fresh \subseteq Pages /\ visited' = seen \cup fresh /\ Grown(f, fresh)
  BY ExpandEntries DEF Inv
<1>. HIDE DEF fresh
<1>3. PICK m \in Nat : \E order \in [1..m -> fresh] :
        /\ Len(frontier) \in Nat
        /\ DOMAIN frontier = 1..Len(frontier)
        /\ DOMAIN frontier' = 1..(Len(frontier) + m)
        /\ \A i \in DOMAIN frontier : frontier'[i] = frontier[i]
        /\ \A j \in 1..m : frontier'[Len(frontier) + j] =
                             [url |-> order[j], depth |-> f.depth + 1]
  BY <1>2 DEF Grown
<1>4. PICK order \in [1..m -> fresh] :
        /\ Len(frontier) \in Nat
        /\ DOMAIN frontier = 1..Len(frontier)
        /\ DOMAIN frontier' = 1..(Len(frontier) + m)
        /\ \A i \in DOMAIN frontier : frontier'[i] = frontier[i]
        /\ \A j \in 1..m : frontier'[Len(frontier) + j] =
                             [url |-> order[j], depth |-> f.depth + 1]
  BY <1>3
<1>5. ASSUME NEW i \in DOMAIN frontier'
      PROVE  frontier'[i].url \in Queued \cup fresh
  <2>1. CASE i \in DOMAIN frontier
    BY <2>1, <1>4 DEF Queued
  <2>2. CASE i \notin DOMAIN frontier
    <3>1. i - Len(frontier) \in 1..m /\ i = Len(frontier) + (i - Len(frontier))
      BY <2>2, <1>4
    <3>2. PICK j \in 1..m : i = Len(frontier) + j
      BY <3>1
    <3>3. frontier'[i] = [url |-> order[j], depth |-> f.depth + 1] /\ order[j] \in fresh
      BY <3>2, <1>4
    <3>. QED
      BY <3>3
  <2>. QED
    BY <2>1, <2>2
<1>. QED
  BY <1>1, <1>2, <1>5 DEF ToLaunch, Queued

\* A page taken off the queue is not launched again.
LEMMA TailShrinks ==
  ASSUME Inv, frontier # <<>>, frontier' = Tail(frontier), visited' = visited
  PROVE  /\ Head(frontier).url \in ToLaunch
         /\ ToLaunch' = ToLaunch \ {Head(frontier).url}
<1>1. frontier \in Seq(Entry)
  BY DEF Inv, TypeOK
<1>2. /\ Head(frontier) = frontier[1]
      /\ Len(frontier) \in Nat \ {0}
      /\ DOMAIN frontier = 1..Len(frontier)
      /\ DOMAIN frontier' = 1..(Len(frontier) - 1)
      /\ \A i \in 1..(Len(frontier) - 1) : frontier'[i] = frontier[i + 1]
  BY <1>1
<1>3. 1 \in DOMAIN frontier
  BY <1>2
<1>4. \A i \in DOMAIN frontier' :
        i + 1 \in DOMAIN frontier /\ i + 1 # 1 /\ frontier'[i] = frontier[i + 1]
  BY <1>2
<1>5. \A i \in DOMAIN frontier \ {1} :
        i - 1 \in DOMAIN frontier' /\ frontier'[i - 1] = frontier[i]
  <2>. SUFFICES ASSUME NEW i \in DOMAIN frontier \ {1}
                PROVE  i - 1 \in DOMAIN frontier' /\ frontier'[i - 1] = frontier[i]
    OBVIOUS
  <2>1. i \in Nat /\ i - 1 \in 1..(Len(frontier) - 1) /\ (i - 1) + 1 = i
    BY <1>2
  <2>. QED
    BY <2>1, <1>2
<1>6. /\ Head(frontier).url \in visited
      /\ \A i \in DOMAIN frontier : i # 1 => frontier[i].url # Head(frontier).url
  BY <1>2, <1>3 DEF Inv, QueueOK
<1>7. Queued = Queued' \cup {Head(frontier).url}
  <2>1. Queued' \subseteq Queued
    BY <1>4 DEF Queued
  <2>2. Head(frontier).url \in Queued
    BY <1>2, <1>3 DEF Queued
  <2>3. \A i \in DOMAIN frontier : i # 1 => frontier[i].url \in Queued'
    BY <1>5 DEF Queued
  <2>4. Queued \subseteq Queued' \cup {Head(frontier).url}
    BY <2>3, <1>2 DEF Queued
  <2>. QED
    BY <2>1, <2>2, <2>4
<1>8. Head(frontier).url \notin Queued'
  BY <1>4, <1>6 DEF Queued
<1>9. ToLaunch = (Pages \ visited) \cup Queued /\ ToLaunch' = (Pages \ visited) \cup Queued'
  BY DEF ToLaunch, Queued
<1>. QED
  BY <1>6, <1>7, <1>8, <1>9

\* What a step of a crawl does to the work that is left.
Shrunk ==
  /\ ToLaunch' \subseteq ToLaunch /\ ToSend' \subseteq ToSend /\ ToAsk' \subseteq ToAsk
  /\ status' = "crawling" =>
       <<ToLaunch, ToSend, ToAsk>>' # <<ToLaunch, ToSend, ToAsk>>

\* The host of the next page has answered.
LEMMA FetchRobotsShrinks == ASSUME Inv, FetchRobots PROVE Shrunk
<1>. DEFINE p == Head(frontier).url
            h == site.host[p]
<1>1. /\ frontier # <<>> /\ robots[h] = "unfetched"
      /\ \E policy \in {"rules", "allow_all"} : robots' = [robots EXCEPT ![h] = policy]
      /\ UNCHANGED <<site, config, visited, frontier, in_flight>>
  BY DEF FetchRobots, CanFill, given
<1>2. robots \in [Hosts -> {"unfetched", "rules", "allow_all"}] /\ frontier \in Seq(Entry)
      /\ site \in Site
  BY DEF Inv, TypeOK
<1>3. p \in Pages
  <2>1. Head(frontier) \in Entry
    BY <1>1, <1>2
  <2>. QED
    BY <2>1 DEF Entry
<1>4. h \in Hosts
  BY <1>2, <1>3 DEF Site
<1>. HIDE DEF h
<1>5. robots'[h] # "unfetched" /\ \A k \in Hosts : k # h => robots'[k] = robots[k]
  BY <1>1, <1>2, <1>4
<1>6. p \in ToAsk /\ p \notin ToAsk'
  BY <1>1, <1>3, <1>5 DEF ToAsk, h
<1>7. ToAsk' \subseteq ToAsk
  <2>1. \A q \in Pages : site.host[q] \in Hosts
    BY <1>2 DEF Site
  <2>. QED
    BY <2>1, <1>1, <1>5 DEF ToAsk
<1>8. ToLaunch' = ToLaunch /\ ToSend' = ToSend
  BY <1>1 DEF ToLaunch, ToSend
<1>. QED
  BY <1>6, <1>7, <1>8 DEF Shrunk

\* The next page is launched.
LEMMA LaunchShrinks == ASSUME Inv, Launch PROVE Shrunk
<1>. DEFINE p == Head(frontier).url
            g == [url |-> p, depth |-> Head(frontier).depth, attempt |-> 0]
<1>1. /\ frontier # <<>> /\ frontier' = Tail(frontier) /\ in_flight' = in_flight \cup {g}
      /\ UNCHANGED <<site, config, visited, robots>>
  BY DEF Launch, CanFill, given
<1>2. p \in ToLaunch /\ ToLaunch' = ToLaunch \ {p}
  BY <1>1, TailShrinks
<1>3. g.url = p
  OBVIOUS
<1>. HIDE DEF p, g
<1>4. ToSend' \subseteq ToSend
  BY <1>1, <1>2, <1>3 DEF ToSend
<1>5. ToAsk' = ToAsk
  BY <1>1 DEF ToAsk
<1>. QED
  BY <1>2, <1>4, <1>5 DEF Shrunk

\* The next page is dropped.
LEMMA SkipShrinks == ASSUME Inv, SkipDisallowed \/ RootDisallowed PROVE Shrunk
<1>. DEFINE p == Head(frontier).url
<1>1. /\ frontier # <<>> /\ frontier' = Tail(frontier) /\ in_flight' = in_flight
      /\ UNCHANGED <<site, config, visited, robots>>
  BY DEF SkipDisallowed, RootDisallowed, CanFill, given
<1>2. p \in ToLaunch /\ ToLaunch' = ToLaunch \ {p}
  BY <1>1, TailShrinks
<1>. HIDE DEF p
<1>3. ToSend' \subseteq ToSend
  BY <1>1, <1>2 DEF ToSend
<1>4. ToAsk' = ToAsk
  BY <1>1 DEF ToAsk
<1>. QED
  BY <1>2, <1>3, <1>4 DEF Shrunk

\* An attempt failed, and the next one is made.
LEMMA RetryShrinks == ASSUME Inv, NEW f \in in_flight, Retry(f) PROVE Shrunk
<1>. DEFINE g == [f EXCEPT !.attempt = f.attempt + 1]
<1>1. /\ in_flight' = (in_flight \ {f}) \cup {g}
      /\ UNCHANGED <<site, config, visited, frontier, robots>>
  BY DEF Retry, given
<1>2. f \in Flight /\ f.attempt \in Nat /\ config.max_retries \in Nat
      /\ f.url \notin ToLaunch /\ <<f.url, f.attempt>> \in ToSend
  BY FlightIsWork DEF Inv, TypeOK
<1>3. g.url = f.url /\ g.attempt = f.attempt + 1
  BY <1>2 DEF Flight
<1>. HIDE DEF g
<1>4. ToLaunch' = ToLaunch /\ ToAsk' = ToAsk
  BY <1>1 DEF ToLaunch, ToAsk
<1>5. ToSend' \subseteq ToSend
  <2>1. \A n \in 0..config.max_retries : g.attempt <= n => f.attempt <= n
    BY <1>2, <1>3
  <2>. QED
    BY <2>1, <1>1, <1>3, <1>4 DEF ToSend
<1>6. <<f.url, f.attempt>> \notin ToSend'
  <2>1. \A e \in in_flight' : e.url = f.url => e = g
    BY <1>1 DEF Inv, FlightOK
  <2>2. ~(g.attempt <= f.attempt)
    BY <1>2, <1>3
  <2>. QED
    BY <2>1, <2>2, <1>2, <1>4 DEF ToSend
<1>. QED
  BY <1>2, <1>4, <1>5, <1>6 DEF Shrunk

\* A fetch ends, one way or another.
LEMMA CompleteShrinks ==
  ASSUME Inv, NEW f \in in_flight,
         Revalidated(f) \/ ChildFailed(f) \/ Escaped(f) \/ Accepted(f)
  PROVE  Shrunk
<1>1. /\ in_flight' = in_flight \ {f}
      /\ UNCHANGED <<site, config, robots>>
  BY DEF Revalidated, ChildFailed, Escaped, Accepted, given
<1>2. ToLaunch' \subseteq ToLaunch
  <2>1. /\ site \in Site /\ config \in CrawlConfig /\ visited \subseteq Pages
        /\ f.url \in Pages
    BY FlightIsWork DEF Inv, TypeOK
  <2>2. CASE Revalidated(f)
    <3>1. config.known_edges[f.url] \in SUBSET Pages
      BY <2>1 DEF CrawlConfig
    <3>2. Expand(f, config.known_edges[f.url], visited \cup {f.url})
      BY <2>2 DEF Revalidated
    <3>. QED
      BY <2>1, <3>1, <3>2, ExpandShrinks
  <2>3. CASE Accepted(f)
    <3>1. site.final[f.url] \in Pages
      BY <2>1 DEF Site
    <3>2. site.links[site.final[f.url]] \in SUBSET Pages
      BY <2>1, <3>1 DEF Site
    <3>3. Expand(f, site.links[site.final[f.url]], visited \cup {site.final[f.url]})
      BY <2>3 DEF Accepted
    <3>. QED
      BY <2>1, <3>1, <3>2, <3>3, ExpandShrinks
  <2>4. CASE ChildFailed(f) \/ Escaped(f)
    BY <2>4 DEF ChildFailed, Escaped, ToLaunch
  <2>. QED
    BY <2>2, <2>3, <2>4
<1>3. ToSend' \subseteq ToSend /\ ToSend' # ToSend
  BY <1>1, <1>2, AnsweredShrinks
<1>4. ToAsk' = ToAsk
  BY <1>1 DEF ToAsk
<1>. QED
  BY <1>2, <1>3, <1>4 DEF Shrunk

\* The last step: the stream ends.
LEMMA EndShrinks ==
  ASSUME Inv, Finish \/ \E f \in in_flight : RootFailed(f)
  PROVE  Shrunk
<1>1. /\ status' # "crawling" /\ in_flight' \subseteq in_flight
      /\ UNCHANGED <<site, config, visited, frontier, robots>>
  BY DEF Finish, RootFailed, given
<1>. QED
  BY <1>1 DEF Shrunk, ToLaunch, ToSend, ToAsk

WorkFinite == IsFiniteSet(ToLaunch) /\ IsFiniteSet(ToSend) /\ IsFiniteSet(ToAsk)

LEMMA WorkIsFinite == Inv => WorkFinite
<1>. SUFFICES ASSUME Inv PROVE WorkFinite
  OBVIOUS
<1>1. IsFiniteSet(Pages) /\ visited \subseteq Pages /\ config.max_retries \in Nat
  BY CrawlAssumption DEF Inv, TypeOK, CrawlConfig
<1>2. ToLaunch \subseteq Pages /\ ToAsk \subseteq Pages
  BY <1>1 DEF Inv, QueueOK, ToLaunch, ToAsk
<1>3. IsFiniteSet(Pages \X (0..config.max_retries))
  <2>1. IsFiniteSet(0..config.max_retries)
    BY <1>1, FS_Interval
  <2>. QED
    BY <2>1, <1>1, FS_Product
<1>4. ToSend \subseteq Pages \X (0..config.max_retries)
  BY DEF ToSend
<1>. QED
  BY <1>1, <1>2, <1>3, <1>4, FS_Subset DEF WorkFinite

\* There is only so much work and every step but the last uses some of it up,
\* for good, whatever the web answers and in whatever order: a crawl whose
\* fetches keep being answered cannot go on for ever.
THEOREM WorkRunsOut == Spec => []WorkFinite /\ WorkShrinks
<1>1. Inv /\ Next => status = "crawling" /\ Shrunk
  <2>. SUFFICES ASSUME Inv, Next PROVE status = "crawling" /\ Shrunk
    OBVIOUS
  <2>1. status = "crawling"
    BY DEF Next, Fill, Complete, FetchRobots, Launch, SkipDisallowed, RootDisallowed,
           CanFill, Retry, Revalidated, ChildFailed, RootFailed, Escaped, Accepted,
           Finish, Awaiting
  <2>2. CASE Fill
    BY <2>1, <2>2, FetchRobotsShrinks, LaunchShrinks, SkipShrinks DEF Fill
  <2>3. ASSUME NEW f \in in_flight, Complete(f) PROVE Shrunk
    BY <2>3, RetryShrinks, CompleteShrinks, EndShrinks DEF Complete
  <2>4. CASE Finish
    BY <2>1, <2>4, EndShrinks
  <2>. QED
    BY <2>1, <2>2, <2>3, <2>4 DEF Next
<1>2. Inv /\ [Next]_vars =>
        [/\ status = "crawling"
         /\ ToLaunch' \subseteq ToLaunch /\ ToSend' \subseteq ToSend /\ ToAsk' \subseteq ToAsk
         /\ status' = "crawling" =>
              <<ToLaunch, ToSend, ToAsk>>' # <<ToLaunch, ToSend, ToAsk>>]_vars
  BY <1>1 DEF Shrunk
<1>. QED
  BY <1>2, WorkIsFinite, Invariance, PTL DEF Spec, WorkShrinks

(***************************************************************************)
(* How far a page is.  Within is a recursive function of the links: that   *)
(* it is what its equations say is a fact to be proved, before anything    *)
(* can be said of the pages within n hops.                                 *)
(***************************************************************************)

\* The equations of Within.
WithinIs ==
  /\ Within[0] = {Root}
  /\ \A n \in Nat :
       /\ Within[n] \subseteq Pages
       /\ Within[n + 1] = Within[n] \cup UNION {Hops(p) : p \in Within[n]}

LEMMA HopsPages == ASSUME TypeOK, NEW p \in Pages PROVE Hops(p) \in SUBSET Pages
<1>1. site \in Site /\ config \in CrawlConfig
  BY DEF TypeOK
<1>2. config.scope \subseteq Pages
  BY <1>1 DEF CrawlConfig
<1>. QED
  BY <1>2 DEF Hops

LEMMA WithinSteps == TypeOK => WithinIs
<1>. SUFFICES ASSUME TypeOK PROVE WithinIs
  OBVIOUS
<1>. DEFINE onward == [S \in SUBSET Pages |-> S \cup UNION {Hops(p) : p \in S}]
            Body(g) == [n \in Nat |-> IF n = 0 THEN {Root}
                          ELSE g[n - 1] \cup UNION {Hops(p) : p \in g[n - 1]}]
            Sets == SUBSET Pages
            start == {Root}
<1>1. onward \in [Sets -> Sets] /\ start \in Sets
  BY HopsPages, CrawlAssumption
<1>2. PICK f \in [Nat -> Sets] :
        f[0] = start /\ \A i \in Nat : f[i + 1] = onward[f[i]]
  <2>. HIDE DEF onward, Sets, start
  <2>1. \E f : Rounds(Sets, start, onward, f)
    BY <1>1, RecursionOnNat
  <2>. QED
    BY <2>1 DEF Rounds
<1>. HIDE DEF onward
<1>3. f = Body(f)
  <2>1. ASSUME NEW n \in Nat, n # 0
        PROVE  f[n] = f[n - 1] \cup UNION {Hops(p) : p \in f[n - 1]}
    <3>1. n - 1 \in Nat /\ (n - 1) + 1 = n
      BY <2>1
    <3>2. f[n] = onward[f[n - 1]]
      BY <1>2, <3>1
    <3>. QED
      BY <1>2, <3>1, <3>2 DEF onward
  <2>. QED
    BY <1>2, <2>1
<1>4. Within = Body(Within)
  <2>1. Within = CHOOSE g : g = Body(g)
    BY Zenon DEF Within
  <2>. HIDE DEF Body
  <2>. QED
    BY <1>3, <2>1, Zenon
<1>5. Within[0] = {Root}
  <2>1. Body(Within)[0] = {Root}
    OBVIOUS
  <2>. QED
    BY <1>4, <2>1
<1>6. ASSUME NEW n \in Nat
      PROVE  Within[n + 1] = Within[n] \cup UNION {Hops(p) : p \in Within[n]}
  <2>1. n + 1 \in Nat /\ n + 1 # 0 /\ (n + 1) - 1 = n
    OBVIOUS
  <2>2. Body(Within)[n + 1] = Within[n] \cup UNION {Hops(p) : p \in Within[n]}
    BY <2>1
  <2>. QED
    BY <1>4, <2>2
<1>7. \A n \in Nat : Within[n] \subseteq Pages
  <2>. DEFINE T == {n \in Nat : Within[n] \subseteq Pages}
  <2>1. 0 \in T
    BY <1>5, CrawlAssumption
  <2>2. \A n \in Nat : n \in T => n + 1 \in T
    BY <1>6, HopsPages
  <2>. HIDE DEF T
  <2>3. Nat \subseteq T
    BY <2>1, <2>2, Always
  <2>. QED
    BY <2>3 DEF T
<1>. QED
  BY <1>5, <1>6, <1>7 DEF WithinIs

LEMMA SameWithin ==
  ASSUME UNCHANGED <<site, config, revalidated>> PROVE Within' = Within
<1>1. \A p : Hops(p)' = Hops(p)
  BY DEF Hops, Served
<1>. QED
  BY SMT DEF Within, Hops, Served

\* What is within m hops is within n >= m hops.
LEMMA Farther ==
  ASSUME TypeOK, NEW n \in Nat, NEW m \in 0..n
  PROVE  Within[m] \subseteq Within[n]
<1>. DEFINE T == {k \in Nat : \A i \in 0..k : Within[i] \subseteq Within[k]}
<1>1. 0 \in T
  OBVIOUS
<1>2. ASSUME NEW k \in Nat, k \in T PROVE k + 1 \in T
  <2>1. Within[k] \subseteq Within[k + 1]
    BY WithinSteps DEF WithinIs
  <2>2. ASSUME NEW i \in 0..(k + 1) PROVE Within[i] \subseteq Within[k + 1]
    <3>1. CASE i = k + 1
      BY <3>1
    <3>2. CASE i # k + 1
      <4>1. i \in 0..k
        BY <3>2
      <4>. QED
        BY <4>1, <2>1, <1>2
    <3>. QED
      BY <3>1, <3>2
  <2>. QED
    BY <2>2
<1>3. \A k \in Nat : k \in T => k + 1 \in T
  BY <1>2
<1>. HIDE DEF T
<1>4. Nat \subseteq T
  BY <1>1, <1>3, Always
<1>. QED
  BY <1>4 DEF T

\* One hop from a page within n hops.
LEMMA OneFarther ==
  ASSUME TypeOK, NEW n \in Nat, NEW p \in Within[n]
  PROVE  Hops(p) \subseteq Within[n + 1]
<1>1. Within[n + 1] = Within[n] \cup UNION {Hops(x) : x \in Within[n]}
  BY WithinSteps DEF WithinIs
<1>. HIDE DEF Hops
<1>. QED
  BY <1>1

\* Another 304 can only bring pages nearer.
LEMMA WithinGrows ==
  ASSUME TypeOK, TypeOK', site' = site, config' = config,
         Range(revalidated) \subseteq Range(revalidated)',
         NEW n \in Nat
  PROVE  Within[n] \subseteq Within'[n]
<1>1. WithinIs /\ WithinIs'
  <2>1. (TypeOK => WithinIs)'
    BY WithinSteps, PTL
  <2>. QED
    BY <2>1, WithinSteps
<1>2. \A p : Hops(p) \subseteq Hops(p)'
  BY DEF Hops, Served
<1>. DEFINE T == {k \in Nat : Within[k] \subseteq Within'[k]}
<1>3. 0 \in T
  BY <1>1 DEF WithinIs
<1>4. ASSUME NEW k \in Nat, k \in T PROVE k + 1 \in T
  <2>1. /\ Within[k + 1] = Within[k] \cup UNION {Hops(p) : p \in Within[k]}
        /\ Within'[k + 1] = Within'[k] \cup UNION {Hops(p)' : p \in Within'[k]}
    BY <1>1 DEF WithinIs
  <2>2. ASSUME NEW q \in Within[k + 1] PROVE q \in Within'[k + 1]
    <3>1. CASE q \in Within[k]
      BY <3>1, <2>1, <1>4
    <3>2. ASSUME NEW p \in Within[k], q \in Hops(p) PROVE q \in Within'[k + 1]
      BY <3>2, <2>1, <1>2, <1>4
    <3>. QED
      BY <3>1, <3>2, <2>1
  <2>. QED
    BY <2>2
<1>5. \A k \in Nat : k \in T => k + 1 \in T
  BY <1>4
<1>. HIDE DEF T
<1>6. Nat \subseteq T
  BY <1>3, <1>5, Always
<1>. QED
  BY <1>6 DEF T

-----------------------------------------------------------------------------
(***************************************************************************)
(* What is still to come, and the inductive invariant of the search.       *)
(***************************************************************************)

\* A page queued or in flight, with the depth it was found at.
Found(f) == [url |-> f.url, depth |-> f.depth]

Pending == {frontier[i] : i \in DOMAIN frontier} \cup {Found(f) : f \in in_flight}

IsPending(p) == \E e \in Pending : e.url = p

\* Nothing so far has kept the crawl from a page.
Uncut ==
  /\ status # "failed"
  /\ failed = 0
  /\ revalidated = <<>>
  /\ \A p \in Pages : ~Disallowed(p)

Shallow == config.concurrency = 1 \/ config.max_depth <= 2

Reachable == \A e \in Pending : e.url \in Within[e.depth]

\* What was yielded is where a page within max_depth hops ended.
YieldedReached ==
  \A p \in Pages :
    yielded[p] > 0 =>
      /\ p \in config.indexed
      /\ \E q \in Within[config.max_depth] : Served(q) /\ site.final[q] = p

\* While the root is to come, nothing else is.
RootFirst == \A e, g \in Pending : e.depth = 0 => g.depth = 0

\* With one fetch at a time the depths in the queue never fall, and no two of
\* what is to come are more than one apart.
OneAtATime ==
  config.concurrency = 1 =>
    /\ \A i, j \in DOMAIN frontier :
         i <= j => /\ frontier[i].depth <= frontier[j].depth
                   /\ frontier[j].depth <= frontier[i].depth + 1
    /\ \A f \in in_flight : \A i \in DOMAIN frontier :
         /\ f.depth <= frontier[i].depth
         /\ frontier[i].depth <= f.depth + 1

\* Every depth is a shortest one.
Shortest ==
  \A e \in Pending : \A n \in Nat : e.url \in Within[n] => e.depth <= n

\* A page that was dealt with early enough left none of its links out.
Expanded ==
  \A n \in Nat : \A p \in visited \cap Within[n] :
    n < config.max_depth /\ ~IsPending(p) => Hops(p) \subseteq visited

\* A page that was dealt with was yielded, unless an index filter refused it.
YieldedAll ==
  \A p \in visited :
    Served(p) /\ site.final[p] \in config.indexed /\ ~IsPending(p) =>
      yielded[site.final[p]] > 0

ReachInv ==
  /\ Reachable
  /\ YieldedReached
  /\ RootFirst
  /\ OneAtATime
  /\ Root \in visited
  /\ status = "done" => in_flight = {}
  /\ Uncut /\ Shallow => Shortest /\ Expanded /\ YieldedAll

-----------------------------------------------------------------------------

\* Every page to come has been seen, and is to come once.
LEMMA PendingOnce ==
  ASSUME Inv
  PROVE  /\ config.max_depth \in Nat
         /\ Pending \subseteq Entry
         /\ \A e \in Pending : /\ e.url \in Pages /\ e.depth \in Nat
                               /\ e.depth <= config.max_depth
                               /\ e.url \in visited
                               /\ e.depth = 0 => e.url = Root
         /\ \A e, g \in Pending : e.url = g.url => e = g
         /\ \A f \in in_flight : Found(f) \in Pending
         /\ \A i \in DOMAIN frontier : frontier[i] \in Pending
<1>1. /\ config \in CrawlConfig /\ frontier \in Seq(Entry) /\ in_flight \subseteq Flight
      /\ launches \in [Pages -> Nat]
  BY DEF Inv, TypeOK
<1>2. config.max_depth \in Nat
  BY <1>1 DEF CrawlConfig
<1>3. \A i \in DOMAIN frontier : frontier[i] \in Entry
  BY <1>1
<1>4. \A f \in in_flight : /\ Found(f) \in Entry
                           /\ Found(f).url = f.url /\ Found(f).depth = f.depth
  BY <1>1 DEF Found, Entry, Flight
<1>5. Pending \subseteq Entry
  BY <1>3, <1>4 DEF Pending
<1>6. \A e \in Entry : e.url \in Pages /\ e.depth \in Nat /\ e.depth <= config.max_depth
  BY <1>2 DEF Entry
<1>7. \A i \in DOMAIN frontier : /\ frontier[i].url \in visited
                                 /\ launches[frontier[i].url] = 0
                                 /\ frontier[i].depth = 0 => frontier[i].url = Root
  BY DEF Inv, QueueOK
<1>8. \A f \in in_flight : /\ f.url \in visited /\ launches[f.url] > 0
                           /\ f.depth = 0 => f.url = Root
  BY <1>1 DEF Inv, FlightOK, LaunchedOK, Flight
<1>9. ASSUME NEW e \in Pending, NEW g \in Pending, e.url = g.url PROVE e = g
  <2>1. ASSUME NEW i \in DOMAIN frontier, NEW j \in DOMAIN frontier,
               frontier[i].url = frontier[j].url
        PROVE  frontier[i] = frontier[j]
    BY <2>1 DEF Inv, QueueOK
  <2>2. ASSUME NEW i \in DOMAIN frontier, NEW f \in in_flight, frontier[i].url = f.url
        PROVE  FALSE
    <3>1. launches[f.url] = 0 /\ launches[f.url] > 0
      BY <2>2, <1>7, <1>8
    <3>. QED
      BY <3>1
  <2>3. ASSUME NEW f \in in_flight, NEW k \in in_flight, f.url = k.url
        PROVE  Found(f) = Found(k)
    BY <2>3 DEF Inv, FlightOK
  <2>. QED
    BY <1>9, <1>4, <2>1, <2>2, <2>3 DEF Pending
<1>10. \A e \in Pending : e.url \in visited /\ (e.depth = 0 => e.url = Root)
  BY <1>4, <1>7, <1>8 DEF Pending
<1>. QED
  BY <1>2, <1>5, <1>6, <1>9, <1>10 DEF Pending

\* A fetch that completes takes its page from what is to come.
LEMMA PendingGone ==
  ASSUME Inv, NEW f \in in_flight, in_flight' = in_flight \ {f}, frontier' = frontier
  PROVE  Pending' = Pending \ {Found(f)}
<1>1. Pending' = {frontier[i] : i \in DOMAIN frontier} \cup {Found(g) : g \in in_flight \ {f}}
  BY DEF Pending, Found
<1>2. \A i \in DOMAIN frontier : frontier[i] # Found(f)
  BY DEF Inv, QueueOK, FlightOK, Found
<1>3. \A g \in in_flight \ {f} : Found(g) # Found(f)
  BY DEF Inv, FlightOK, Found
<1>. QED
  BY <1>1, <1>2, <1>3 DEF Pending

\* The same, when its links are queued.
LEMMA PendingGrown ==
  ASSUME Inv, NEW f \in in_flight, in_flight' = in_flight \ {f},
         NEW fresh, Grown(f, fresh)
  PROVE  /\ Pending' = (Pending \ {Found(f)})
                         \cup {[url |-> q, depth |-> f.depth + 1] : q \in fresh}
         /\ \A i \in DOMAIN frontier' :
              \/ i \in DOMAIN frontier /\ frontier'[i] = frontier[i]
              \/ /\ \A j \in DOMAIN frontier : j < i
                 /\ frontier'[i].depth = f.depth + 1
<1>. DEFINE new == {[url |-> q, depth |-> f.depth + 1] : q \in fresh}
<1>1. PICK m \in Nat : \E order \in [1..m -> fresh] :
        /\ \A p \in fresh : \E i \in 1..m : order[i] = p
        /\ Len(frontier) \in Nat
        /\ DOMAIN frontier = 1..Len(frontier)
        /\ DOMAIN frontier' = 1..(Len(frontier) + m)
        /\ \A i \in DOMAIN frontier : frontier'[i] = frontier[i]
        /\ \A j \in 1..m : frontier'[Len(frontier) + j] =
                             [url |-> order[j], depth |-> f.depth + 1]
  BY DEF Grown
<1>2. PICK order \in [1..m -> fresh] :
        /\ \A p \in fresh : \E i \in 1..m : order[i] = p
        /\ Len(frontier) \in Nat
        /\ DOMAIN frontier = 1..Len(frontier)
        /\ DOMAIN frontier' = 1..(Len(frontier) + m)
        /\ \A i \in DOMAIN frontier : frontier'[i] = frontier[i]
        /\ \A j \in 1..m : frontier'[Len(frontier) + j] =
                             [url |-> order[j], depth |-> f.depth + 1]
  BY <1>1
<1>3. ASSUME NEW i \in DOMAIN frontier'
      PROVE  \/ i \in DOMAIN frontier /\ frontier'[i] = frontier[i]
             \/ /\ \A j \in DOMAIN frontier : j < i
                /\ frontier'[i].depth = f.depth + 1
                /\ frontier'[i] \in new
  <2>1. CASE i \in DOMAIN frontier
    BY <2>1, <1>2
  <2>2. CASE i \notin DOMAIN frontier
    <3>1. PICK j \in 1..m : i = Len(frontier) + j
      <4>1. i - Len(frontier) \in 1..m /\ i = Len(frontier) + (i - Len(frontier))
        BY <2>2, <1>2
      <4>. QED
        BY <4>1
    <3>2. frontier'[i] = [url |-> order[j], depth |-> f.depth + 1] /\ order[j] \in fresh
      BY <3>1, <1>2
    <3>3. frontier'[i] \in new
      BY <3>2
    <3>4. \A k \in DOMAIN frontier : k < i
      BY <2>2, <3>1, <1>2
    <3>. QED
      BY <3>2, <3>3, <3>4
  <2>. QED
    BY <2>1, <2>2
<1>4. \A i \in DOMAIN frontier : i \in DOMAIN frontier' /\ frontier'[i] = frontier[i]
  BY <1>2
<1>5. \A x \in new : \E i \in DOMAIN frontier' : frontier'[i] = x
  <2>. SUFFICES ASSUME NEW q \in fresh
                PROVE  \E i \in DOMAIN frontier' :
                         frontier'[i] = [url |-> q, depth |-> f.depth + 1]
    OBVIOUS
  <2>1. PICK j \in 1..m : order[j] = q
    BY <1>2
  <2>2. Len(frontier) + j \in DOMAIN frontier'
    BY <1>2
  <2>. QED
    BY <1>2, <2>1, <2>2
<1>. HIDE DEF new
<1>6. {frontier'[i] : i \in DOMAIN frontier'} = {frontier[i] : i \in DOMAIN frontier} \cup new
  BY <1>3, <1>4, <1>5
<1>7. Pending' = {frontier'[i] : i \in DOMAIN frontier'} \cup {Found(g) : g \in in_flight \ {f}}
  BY DEF Pending, Found
<1>8. \A i \in DOMAIN frontier : frontier[i] # Found(f)
  BY DEF Inv, QueueOK, FlightOK, Found
<1>9. \A g \in in_flight \ {f} : Found(g) # Found(f)
  BY DEF Inv, FlightOK, Found
<1>10. Pending' = (Pending \ {Found(f)}) \cup new
  BY <1>6, <1>7, <1>8, <1>9 DEF Pending
<1>. QED
  BY <1>3, <1>10 DEF new

\* Whoever completes next, nothing to come is nearer, unless it is within one
\* hop of the last level, where nothing is followed any more.
LEMMA Ahead ==
  ASSUME Inv, RootFirst, OneAtATime, Shallow, NEW f \in in_flight, NEW e \in Pending
  PROVE  f.depth <= e.depth \/ config.max_depth <= e.depth + 1
<1>1. /\ config.max_depth \in Nat /\ e.depth \in Nat /\ f.depth \in Nat
      /\ Found(f) \in Pending /\ Found(f).depth = f.depth
  BY PendingOnce DEF Found
<1>2. CASE config.max_depth <= 2
  BY <1>1, <1>2 DEF RootFirst
<1>3. CASE config.concurrency = 1
  <2>1. \A g \in in_flight : g = f
    <3>1. IsFiniteSet(in_flight) /\ Cardinality(in_flight) <= 1
      BY <1>3 DEF Inv, TypeOK, BudgetHeld
    <3>2. IsFiniteSet(in_flight \ {f}) /\ Cardinality(in_flight \ {f}) = Cardinality(in_flight) - 1
      BY <3>1, FS_RemoveElement
    <3>3. Cardinality(in_flight) \in Nat /\ Cardinality(in_flight \ {f}) \in Nat
      BY <3>1, <3>2, FS_CardinalityType
    <3>4. Cardinality(in_flight \ {f}) = 0
      BY <3>1, <3>2, <3>3
    <3>5. in_flight \ {f} = {}
      BY <3>2, <3>4, FS_EmptySet
    <3>. QED
      BY <3>5
  <2>2. CASE \E i \in DOMAIN frontier : e = frontier[i]
    BY <2>2, <1>3 DEF OneAtATime
  <2>3. CASE e = Found(f)
    BY <2>3, <1>1
  <2>. QED
    BY <2>1, <2>2, <2>3 DEF Pending
<1>. QED
  BY <1>2, <1>3 DEF Shallow

\* The search goes level by level: when nothing nearer than n is to come, every
\* page within n hops has been seen.
LEMMA Levels ==
  ASSUME Inv, Shortest, Expanded, Root \in visited, NEW n \in 0..config.max_depth,
         \A e \in Pending : n <= e.depth
  PROVE  Within[n] \subseteq visited
<1>1. TypeOK /\ config.max_depth \in Nat /\ n \in Nat
  BY PendingOnce DEF Inv
<1>2. WithinIs
  BY <1>1, WithinSteps
<1>. DEFINE S == {k \in 0..n : Within[k] \subseteq visited}
<1>3. 0 \in S
  BY <1>1, <1>2 DEF WithinIs
<1>4. ASSUME NEW k \in 0..n, k \in S, k # n PROVE k + 1 \in S
  <2>1. k \in Nat /\ k < config.max_depth /\ k + 1 \in 0..n /\ k < n
    BY <1>1, <1>4
  <2>2. Within[k + 1] = Within[k] \cup UNION {Hops(p) : p \in Within[k]}
    BY <2>1, <1>2 DEF WithinIs
  <2>3. ASSUME NEW p \in Within[k] PROVE Hops(p) \subseteq visited
    <3>1. p \in visited
      BY <1>4
    <3>2. ~IsPending(p)
      <4>. SUFFICES ASSUME NEW e \in Pending, e.url = p PROVE FALSE
        BY DEF IsPending
      <4>1. e.depth <= k /\ n <= e.depth /\ e.depth \in Nat
        BY <2>1, PendingOnce DEF Shortest
      <4>. QED
        BY <4>1, <2>1, <1>1
    <3>. QED
      BY <2>1, <3>1, <3>2 DEF Expanded
  <2>. HIDE DEF S
  <2>4. Within[k] \subseteq visited
    BY <1>4 DEF S
  <2>5. Within[k + 1] \subseteq visited
    BY <2>2, <2>3, <2>4
  <2>. QED
    BY <2>1, <2>5 DEF S
<1>5. \A k \in 0..n : k \in S /\ k # n => k + 1 \in S
  BY <1>4
<1>. HIDE DEF S
<1>6. \A k \in 0..n : k \in S
  BY <1>1, <1>3, <1>5, UpTo
<1>. QED
  BY <1>1, <1>6 DEF S

-----------------------------------------------------------------------------

LEMMA InitReach == Init /\ Inv => ReachInv
<1>. SUFFICES ASSUME Init, Inv PROVE ReachInv
  OBVIOUS
<1>. DEFINE first == [url |-> Root, depth |-> 0]
<1>1. /\ DOMAIN frontier = {1} /\ frontier[1] = first /\ in_flight = {}
      /\ visited = {Root} /\ yielded = [p \in Pages |-> 0] /\ status = "crawling"
  BY DEF Init
<1>2. Pending = {first}
  BY <1>1 DEF Pending
<1>3. Within[0] = {Root}
  BY WithinSteps DEF Inv, WithinIs
<1>4. Reachable /\ RootFirst /\ Shortest
  BY <1>2, <1>3 DEF Reachable, RootFirst, Shortest
<1>5. YieldedReached /\ OneAtATime
  BY <1>1 DEF YieldedReached, OneAtATime
<1>6. \A p \in visited : IsPending(p)
  BY <1>1, <1>2 DEF IsPending
<1>7. Expanded /\ YieldedAll
  BY <1>6 DEF Expanded, YieldedAll
<1>. QED
  BY <1>1, <1>4, <1>5, <1>7 DEF ReachInv

\* A step that queues nothing, and drops something only if it cuts the crawl
\* short.
LEMMA KeptReach ==
  ASSUME Inv, ReachInv, UNCHANGED <<site, config, revalidated, visited, yielded>>,
         Pending' \subseteq Pending, OneAtATime', status' = "done" => in_flight' = {},
         Uncut' => Uncut /\ Pending' = Pending
  PROVE  ReachInv'
<1>1. Within' = Within
  BY SameWithin
<1>2. \A p : Hops(p)' = Hops(p) /\ (Served(p)' <=> Served(p))
  BY DEF Hops, Served
<1>3. Reachable' /\ RootFirst'
  BY <1>1 DEF ReachInv, Reachable, RootFirst
<1>4. YieldedReached'
  BY <1>1, <1>2 DEF ReachInv, YieldedReached
<1>5. ASSUME Uncut', Shallow' PROVE Shortest' /\ Expanded' /\ YieldedAll'
  <2>1. Pending' = Pending /\ Shortest /\ Expanded /\ YieldedAll
    BY <1>5 DEF ReachInv, Shallow
  <2>2. \A p : IsPending(p)' <=> IsPending(p)
    BY <2>1 DEF IsPending
  <2>3. Shortest'
    BY <1>1, <2>1 DEF Shortest
  <2>4. Expanded'
    BY <1>1, <1>2, <2>1, <2>2 DEF Expanded
  <2>5. YieldedAll'
    BY <1>2, <2>1, <2>2 DEF YieldedAll
  <2>. QED
    BY <2>3, <2>4, <2>5
<1>. QED
  BY <1>3, <1>4, <1>5 DEF ReachInv

\* The queue loses its first entry, or nothing.
LEMMA TailOrder ==
  ASSUME Inv, OneAtATime, config' = config, in_flight' \subseteq in_flight,
         \/ frontier' = frontier
         \/ frontier # <<>> /\ frontier' = Tail(frontier)
  PROVE  OneAtATime'
<1>1. frontier \in Seq(Entry)
  BY DEF Inv, TypeOK
<1>2. CASE frontier' = frontier
  BY <1>2 DEF OneAtATime
<1>3. CASE frontier # <<>> /\ frontier' = Tail(frontier)
  <2>1. \A i \in DOMAIN frontier' : /\ i \in Nat /\ i + 1 \in DOMAIN frontier
                                     /\ frontier'[i] = frontier[i + 1]
    BY <1>1, <1>3
  <2>2. \A i, j \in DOMAIN frontier' : i <= j => i + 1 <= j + 1
    BY <2>1
  <2>. QED
    BY <2>1, <2>2 DEF OneAtATime
<1>. QED
  BY <1>2, <1>3

LEMMA FetchRobotsReach ==
  ASSUME Inv, Inv', ReachInv, FetchRobots PROVE ReachInv'
<1>1. UNCHANGED <<site, config, status, visited, frontier, in_flight, failed,
                  revalidated, yielded>>
  BY DEF FetchRobots, given, records, history
<1>2. Pending' = Pending /\ OneAtATime'
  BY <1>1 DEF ReachInv, OneAtATime, Pending, Found
<1>3. ASSUME NEW p \in Pages, Disallowed(p) PROVE Disallowed(p)'
  <2>1. robots[site.host[p]] = "rules" /\ site \in Site
        /\ robots \in [Hosts -> {"unfetched", "rules", "allow_all"}]
    BY <1>3 DEF Disallowed, Inv, TypeOK
  <2>2. robots'[site.host[p]] = "rules"
    BY <2>1 DEF FetchRobots, Site
  <2>. QED
    BY <1>1, <1>3, <2>2 DEF Disallowed
<1>4. Uncut' => Uncut
  BY <1>1, <1>3 DEF Uncut
<1>5. status' = "done" => in_flight' = {}
  BY <1>1 DEF ReachInv
<1>. QED
  BY <1>1, <1>2, <1>4, <1>5, KeptReach

\* The page at the head of the queue is in flight now; with one fetch at a
\* time nothing else is.
LEMMA LaunchReach ==
  ASSUME Inv, Inv', ReachInv, Launch PROVE ReachInv'
<1>. DEFINE entry == Head(frontier)
            g == [url |-> entry.url, depth |-> entry.depth, attempt |-> 0]
<1>1. /\ frontier # <<>> /\ status = "crawling" /\ frontier' = Tail(frontier)
      /\ Cardinality(in_flight) < config.concurrency
      /\ in_flight' = in_flight \cup {g}
  BY DEF Launch, CanFill
<1>2. UNCHANGED <<site, config, status, visited, failed, revalidated, robots, yielded>>
  BY DEF Launch, given, records
<1>3. frontier \in Seq(Entry) /\ IsFiniteSet(in_flight)
  BY DEF Inv, TypeOK
<1>4. /\ 1 \in DOMAIN frontier /\ frontier[1] = entry /\ entry \in Entry
      /\ \A i \in DOMAIN frontier' : /\ i \in Nat /\ i + 1 \in DOMAIN frontier
                                      /\ frontier'[i] = frontier[i + 1]
      /\ \A i \in DOMAIN frontier : i # 1 => i - 1 \in DOMAIN frontier'
                                              /\ (i - 1) + 1 = i
      /\ \A i \in DOMAIN frontier : i \in Nat /\ 1 <= i
  BY <1>1, <1>3
<1>5. Found(g) = entry
  BY <1>4 DEF Entry, Found
<1>. HIDE DEF entry, g
<1>6. {frontier[i] : i \in DOMAIN frontier} = {frontier'[i] : i \in DOMAIN frontier'} \cup {entry}
  <2>1. ASSUME NEW i \in DOMAIN frontier
        PROVE  frontier[i] \in {frontier'[k] : k \in DOMAIN frontier'} \cup {entry}
    <3>1. CASE i = 1
      BY <3>1, <1>4
    <3>2. CASE i # 1
      <4>1. i - 1 \in DOMAIN frontier' /\ frontier'[i - 1] = frontier[i]
        BY <3>2, <1>4
      <4>. QED
        BY <4>1
    <3>. QED
      BY <3>1, <3>2
  <2>. QED
    BY <2>1, <1>4
<1>7. Pending' = Pending
  <2>1. {Found(f) : f \in in_flight'} = {Found(f) : f \in in_flight} \cup {entry}
    BY <1>1, <1>5
  <2>2. Pending' = {frontier'[i] : i \in DOMAIN frontier'} \cup {Found(f) : f \in in_flight'}
    BY DEF Pending, Found
  <2>. QED
    BY <1>6, <2>1, <2>2 DEF Pending
<1>8. OneAtATime'
  <2>. SUFFICES ASSUME config.concurrency = 1 PROVE OneAtATime'
    BY <1>2 DEF OneAtATime
  <2>1. in_flight' = {g}
    <3>1. Cardinality(in_flight) = 0
      BY <1>1, <1>3, FS_CardinalityType
    <3>. QED
      BY <1>1, <1>3, <3>1, FS_EmptySet
  <2>2. g.depth = frontier[1].depth
    BY <1>4 DEF g
  <2>3. \A i \in DOMAIN frontier' : /\ g.depth <= frontier'[i].depth
                                     /\ frontier'[i].depth <= g.depth + 1
    BY <1>4, <2>2 DEF ReachInv, OneAtATime
  <2>4. \A i, j \in DOMAIN frontier' : i <= j => i + 1 <= j + 1
    BY <1>4
  <2>5. \A i, j \in DOMAIN frontier' :
          i <= j => /\ frontier'[i].depth <= frontier'[j].depth
                    /\ frontier'[j].depth <= frontier'[i].depth + 1
    BY <1>4, <2>4 DEF ReachInv, OneAtATime
  <2>. QED
    BY <2>1, <2>3, <2>5 DEF OneAtATime
<1>9. Uncut' => Uncut
  BY <1>2 DEF Uncut, Disallowed
<1>10. status' # "done"
  BY <1>1, <1>2
<1>. QED
  BY <1>2, <1>7, <1>8, <1>9, <1>10, KeptReach

\* Steps that cut the crawl short.
LEMMA CutReach ==
  ASSUME Inv, Inv', ReachInv,
         \/ SkipDisallowed \/ RootDisallowed
         \/ \E f \in in_flight : ChildFailed(f) \/ RootFailed(f)
  PROVE  ReachInv'
<1>1. UNCHANGED <<site, config, revalidated, visited, yielded, robots>>
  BY DEF SkipDisallowed, RootDisallowed, ChildFailed, RootFailed, given, records, history
<1>2. /\ status' # "done" /\ in_flight' \subseteq in_flight
      /\ \/ frontier' = frontier
         \/ frontier # <<>> /\ frontier' = Tail(frontier)
  BY DEF SkipDisallowed, RootDisallowed, ChildFailed, RootFailed, CanFill, Awaiting, records
<1>3. OneAtATime'
  BY <1>1, <1>2, TailOrder DEF ReachInv
<1>4. Pending' \subseteq Pending
  <2>1. \A i \in DOMAIN frontier' : \E j \in DOMAIN frontier : frontier'[i] = frontier[j]
    <3>1. frontier \in Seq(Entry)
      BY DEF Inv, TypeOK
    <3>2. CASE frontier # <<>> /\ frontier' = Tail(frontier)
      <4>1. \A i \in DOMAIN frontier' : i + 1 \in DOMAIN frontier
                                        /\ frontier'[i] = frontier[i + 1]
        BY <3>1, <3>2
      <4>. QED
        BY <4>1
    <3>. QED
      BY <3>2, <1>2
  <2>. QED
    BY <2>1, <1>2 DEF Pending, Found
<1>5. ~Uncut'
  <2>1. CASE SkipDisallowed \/ RootDisallowed
    <3>1. Disallowed(Head(frontier).url) /\ frontier # <<>>
      BY <2>1 DEF SkipDisallowed, RootDisallowed, CanFill
    <3>2. Head(frontier).url \in Pages
      <4>1. frontier \in Seq(Entry)
        BY DEF Inv, TypeOK
      <4>2. Head(frontier) \in Entry
        BY <3>1, <4>1
      <4>. QED
        BY <4>2 DEF Entry
    <3>. QED
      BY <3>1, <3>2, <1>1 DEF Uncut, Disallowed
  <2>2. ASSUME NEW f \in in_flight, ChildFailed(f) \/ RootFailed(f) PROVE ~Uncut'
    <3>1. failed \in Nat
      BY DEF Inv, TypeOK
    <3>. QED
      BY <2>2, <3>1 DEF ChildFailed, RootFailed, CountFailure, Uncut
  <2>. QED
    BY <2>1, <2>2
<1>. QED
  BY <1>1, <1>2, <1>3, <1>4, <1>5, KeptReach

LEMMA RetryReach ==
  ASSUME Inv, Inv', ReachInv, NEW f \in in_flight, Retry(f) PROVE ReachInv'
<1>. DEFINE g == [f EXCEPT !.attempt = f.attempt + 1]
<1>1. in_flight' = (in_flight \ {f}) \cup {g} /\ status = "crawling"
  BY DEF Retry, Awaiting
<1>2. UNCHANGED <<site, config, status, visited, frontier, failed, revalidated,
                  robots, yielded>>
  BY DEF Retry, given, records, history
<1>3. Found(g) = Found(f) /\ g.depth = f.depth
  <2>1. f \in Flight
    BY DEF Inv, TypeOK
  <2>. QED
    BY <2>1 DEF Flight, Found
<1>. HIDE DEF g
<1>4. {Found(k) : k \in in_flight'} = {Found(k) : k \in in_flight}
  BY <1>1, <1>3
<1>5. Pending' = Pending
  BY <1>2, <1>4 DEF Pending, Found
<1>6. OneAtATime'
  BY <1>1, <1>2, <1>3 DEF ReachInv, OneAtATime
<1>7. Uncut' => Uncut
  BY <1>2 DEF Uncut, Disallowed
<1>. QED
  BY <1>1, <1>2, <1>5, <1>6, <1>7, KeptReach

LEMMA FinishReach ==
  ASSUME Inv, Inv', ReachInv, Finish PROVE ReachInv'
<1>1. UNCHANGED <<site, config, visited, frontier, in_flight, failed, revalidated,
                  robots, yielded>>
  BY DEF Finish, given, records, history
<1>2. status = "crawling" /\ in_flight = {}
  BY DEF Finish, Awaiting
<1>3. Pending' = Pending /\ OneAtATime'
  BY <1>1 DEF Pending, Found, ReachInv, OneAtATime
<1>4. Uncut' => Uncut
  BY <1>1, <1>2 DEF Uncut, Disallowed
<1>. QED
  BY <1>1, <1>2, <1>3, <1>4, KeptReach

\* A fetch is over and its links are queued: the order of the queue.
LEMMA GrownOrder ==
  ASSUME Inv, RootFirst, OneAtATime, config' = config, NEW f \in in_flight,
         in_flight' = in_flight \ {f}, NEW fresh, Grown(f, fresh)
  PROVE  RootFirst' /\ OneAtATime'
<1>. DEFINE new == {[url |-> q, depth |-> f.depth + 1] : q \in fresh}
<1>1. /\ Pending' = (Pending \ {Found(f)}) \cup new
      /\ \A i \in DOMAIN frontier' :
           \/ i \in DOMAIN frontier /\ frontier'[i] = frontier[i]
           \/ /\ \A j \in DOMAIN frontier : j < i
              /\ frontier'[i].depth = f.depth + 1
  BY PendingGrown
<1>2. /\ \A e \in Pending : e.depth \in Nat /\ (e.depth = 0 => e.url = Root)
      /\ \A e, g \in Pending : e.url = g.url => e = g
      /\ Found(f) \in Pending /\ Found(f).depth = f.depth /\ f.depth \in Nat
  <2>1. Found(f).depth = f.depth
    BY DEF Found
  <2>2. /\ \A e \in Pending : e.depth \in Nat /\ (e.depth = 0 => e.url = Root)
        /\ \A e, g \in Pending : e.url = g.url => e = g
        /\ Found(f) \in Pending
    BY PendingOnce
  <2>. QED
    BY <2>1, <2>2
<1>3. \A e \in new : e.depth = f.depth + 1
  OBVIOUS
<1>. HIDE DEF new
<1>4. RootFirst'
  <2>1. \A e \in Pending \ {Found(f)} : e.depth # 0
    BY <1>2 DEF RootFirst
  <2>2. \A e \in Pending' : e.depth # 0
    BY <1>1, <1>2, <1>3, <2>1
  <2>. QED
    BY <2>2 DEF RootFirst
<1>5. ASSUME config.concurrency = 1 PROVE in_flight' = {}
  <2>1. IsFiniteSet(in_flight) /\ Cardinality(in_flight) <= 1
    BY <1>5 DEF Inv, TypeOK, BudgetHeld
  <2>2. /\ IsFiniteSet(in_flight \ {f})
        /\ Cardinality(in_flight \ {f}) = Cardinality(in_flight) - 1
    BY <2>1, FS_RemoveElement
  <2>3. Cardinality(in_flight) \in Nat /\ Cardinality(in_flight \ {f}) \in Nat
    BY <2>1, <2>2, FS_CardinalityType
  <2>4. Cardinality(in_flight \ {f}) = 0
    BY <2>1, <2>2, <2>3
  <2>. QED
    BY <2>2, <2>4, FS_EmptySet
<1>6. ASSUME config.concurrency = 1,
             NEW i \in DOMAIN frontier', NEW j \in DOMAIN frontier', i <= j
      PROVE  /\ frontier'[i].depth <= frontier'[j].depth
             /\ frontier'[j].depth <= frontier'[i].depth + 1
  <2>1. \A k \in DOMAIN frontier : /\ k \in Nat /\ frontier[k].depth \in Nat
                                   /\ f.depth <= frontier[k].depth
                                   /\ frontier[k].depth <= f.depth + 1
    <3>1. \A k \in DOMAIN frontier : k \in Nat /\ frontier[k] \in Pending
      BY PendingOnce DEF Inv, TypeOK
    <3>. QED
      BY <3>1, <1>2, <1>6 DEF OneAtATime
  <2>2. CASE i \in DOMAIN frontier /\ frontier'[i] = frontier[i]
             /\ j \in DOMAIN frontier /\ frontier'[j] = frontier[j]
    BY <2>2, <1>6 DEF OneAtATime
  <2>3. CASE i \in DOMAIN frontier /\ frontier'[i] = frontier[i]
             /\ frontier'[j].depth = f.depth + 1
    BY <2>1, <2>3, <1>2
  <2>4. CASE frontier'[i].depth = f.depth + 1 /\ frontier'[j].depth = f.depth + 1
    BY <2>4, <1>2
  <2>5. CASE /\ \A k \in DOMAIN frontier : k < i
             /\ j \in DOMAIN frontier
    <3>1. i \in Nat
      <4>1. frontier' \in Seq(Entry)
        BY DEF Grown
      <4>. QED
        BY <4>1
    <3>. QED
      BY <2>1, <2>5, <3>1, <1>6
  <2>. QED
    BY <2>2, <2>3, <2>4, <2>5, <1>1
<1>7. OneAtATime'
  BY <1>5, <1>6 DEF OneAtATime
<1>. QED
  BY <1>4, <1>7

\* What a page is known to lead to is within one hop more.
LEMMA GrownReach ==
  ASSUME Inv, Inv', Reachable, site' = site, config' = config,
         Range(revalidated) \subseteq Range(revalidated)',
         NEW f \in in_flight, in_flight' = in_flight \ {f},
         NEW fresh, Grown(f, fresh), fresh \subseteq Hops(f.url)'
  PROVE  Reachable'
<1>. DEFINE new == {[url |-> q, depth |-> f.depth + 1] : q \in fresh}
<1>1. Pending' = (Pending \ {Found(f)}) \cup new
  BY PendingGrown
<1>2. TypeOK /\ TypeOK'
  BY DEF Inv
<1>3. ASSUME NEW e \in Pending PROVE e.url \in Within'[e.depth]
  <2>1. e.depth \in Nat /\ e.url \in Within[e.depth]
    BY PendingOnce DEF Reachable
  <2>. QED
    BY <2>1, <1>2, WithinGrows
<1>4. ASSUME NEW q \in fresh PROVE q \in Within'[f.depth + 1]
  <2>1. /\ Found(f) \in Pending /\ Found(f).url = f.url /\ Found(f).depth = f.depth
        /\ f.depth \in Nat
    <3>1. Found(f).url = f.url /\ Found(f).depth = f.depth
      BY DEF Found
    <3>2. Found(f) \in Pending /\ Found(f).depth \in Nat
      BY PendingOnce
    <3>. QED
      BY <3>1, <3>2
  <2>2. f.url \in Within'[f.depth]
    BY <2>1, <1>3
  <2>3. WithinIs'
    <3>1. (TypeOK => WithinIs)'
      BY WithinSteps, PTL
    <3>. QED
      BY <3>1, <1>2
  <2>4. Within'[f.depth + 1] = Within'[f.depth] \cup UNION {Hops(p)' : p \in Within'[f.depth]}
    BY <2>1, <2>3 DEF WithinIs
  <2>5. q \in Hops(f.url)'
    OBVIOUS
  <2>. HIDE DEF Hops
  <2>. QED
    BY <2>2, <2>4, <2>5
<1>5. \A e \in new : e.url \in Within'[e.depth]
  BY <1>4
<1>. HIDE DEF new
<1>. QED
  BY <1>1, <1>3, <1>5 DEF Reachable

LEMMA RevalidatedReach ==
  ASSUME Inv, Inv', ReachInv, NEW f \in in_flight, Revalidated(f) PROVE ReachInv'
<1>. DEFINE children == config.known_edges[f.url]
            seen == visited \cup {f.url}
            fresh == Fresh(f, children, seen)
<1>1. /\ status = "crawling" /\ in_flight' = in_flight \ {f}
      /\ revalidated' = Append(revalidated, f.url)
      /\ Expand(f, children, seen)
  BY DEF Revalidated, Awaiting
<1>2. UNCHANGED <<site, config, status, successes, failed, robots, launches, yielded>>
  BY DEF Revalidated, given, history
<1>3. /\ TypeOK /\ TypeOK' /\ config \in CrawlConfig /\ f \in Flight
      /\ visited \subseteq Pages /\ revalidated \in Seq(Pages)
  BY DEF Inv, TypeOK
<1>4. f.url \in Pages /\ children \in SUBSET Pages /\ seen \in SUBSET Pages
  BY <1>3 DEF Flight, CrawlConfig
<1>. HIDE DEF children, seen
<1>5. visited' = seen \cup fresh /\ Grown(f, fresh)
  BY <1>1, <1>3, <1>4, ExpandEntries
<1>6. /\ Range(revalidated) \subseteq Range(revalidated)'
      /\ f.url \in Range(revalidated)'
      /\ revalidated' # <<>>
  <2>1. /\ Len(revalidated) \in Nat /\ DOMAIN revalidated = 1..Len(revalidated)
        /\ DOMAIN revalidated' = 1..(Len(revalidated) + 1)
        /\ \A i \in DOMAIN revalidated : revalidated'[i] = revalidated[i]
        /\ revalidated'[Len(revalidated) + 1] = f.url
    BY <1>1, <1>3, <1>4
  <2>2. Len(revalidated) + 1 \in DOMAIN revalidated'
    BY <2>1
  <2>. QED
    BY <2>1, <2>2 DEF Range
<1>7. fresh \subseteq Hops(f.url)'
  <2>1. fresh \subseteq children \cap config.scope \cap config.followable
    BY DEF Fresh
  <2>. QED
    BY <2>1, <1>2, <1>6 DEF Hops, children
<1>. HIDE DEF fresh
<1>8. Reachable'
  BY <1>1, <1>2, <1>5, <1>6, <1>7, GrownReach DEF ReachInv
<1>9. RootFirst' /\ OneAtATime'
  BY <1>1, <1>2, <1>5, GrownOrder DEF ReachInv
<1>10. YieldedReached'
  <2>. SUFFICES ASSUME NEW p \in Pages, yielded[p] > 0
                PROVE  /\ p \in config.indexed
                       /\ \E q \in Within'[config.max_depth] : Served(q) /\ site.final[q] = p
    BY <1>2 DEF YieldedReached, Served
  <2>1. config.max_depth \in Nat
    BY PendingOnce
  <2>2. Within[config.max_depth] \subseteq Within'[config.max_depth]
    BY <2>1, <1>2, <1>3, <1>6, WithinGrows
  <2>. QED
    BY <2>2 DEF ReachInv, YieldedReached
<1>11. Root \in visited'
  BY <1>5 DEF ReachInv, seen
<1>12. ~Uncut' /\ status' # "done"
  BY <1>1, <1>2, <1>6 DEF Uncut
<1>. QED
  BY <1>8, <1>9, <1>10, <1>11, <1>12 DEF ReachInv

\* A child whose redirect led out of scope has no links that count.
LEMMA EscapedReach ==
  ASSUME Inv, Inv', ReachInv, NEW f \in in_flight, Escaped(f) PROVE ReachInv'
<1>1. /\ status = "crawling" /\ in_flight' = in_flight \ {f}
      /\ f.depth > 0 /\ site.final[f.url] \notin config.scope
  BY DEF Escaped, Awaiting, StaysInScope
<1>2. UNCHANGED <<site, config, status, visited, frontier, failed, revalidated, robots,
                  launches, yielded>>
  BY DEF Escaped, given, history
<1>3. Pending' = Pending \ {Found(f)}
  BY <1>1, <1>2, PendingGone
<1>4. Within' = Within /\ \A p : Hops(p)' = Hops(p) /\ (Served(p)' <=> Served(p))
  BY <1>2, SameWithin DEF Hops, Served
<1>5. Reachable' /\ RootFirst'
  BY <1>3, <1>4 DEF ReachInv, Reachable, RootFirst
<1>6. YieldedReached'
  BY <1>2, <1>4 DEF ReachInv, YieldedReached
<1>7. OneAtATime'
  BY <1>1, <1>2, TailOrder DEF ReachInv
<1>8. ASSUME Uncut', Shallow' PROVE Shortest' /\ Expanded' /\ YieldedAll'
  <2>1. Shortest /\ Expanded /\ YieldedAll /\ revalidated = <<>>
    BY <1>2, <1>8 DEF ReachInv, Shallow, Uncut, Disallowed
  <2>2. ~Served(f.url) /\ Hops(f.url) = {}
    <3>1. f.url # Root
      <4>1. Found(f) \in Pending /\ Found(f).url = f.url /\ Found(f).depth = f.depth
        <5>1. Found(f) \in Pending
          BY PendingOnce
        <5>. QED
          BY <5>1 DEF Found
      <4>2. Within[0] = {Root}
        BY WithinSteps DEF Inv, WithinIs
      <4>3. f.depth \in Nat
        BY <4>1, PendingOnce
      <4>. QED
        BY <1>1, <2>1, <4>1, <4>2, <4>3 DEF Shortest
    <3>2. ~Served(f.url)
      BY <3>1, <1>1 DEF Served
    <3>3. Range(revalidated) = {}
      BY <2>1 DEF Range
    <3>. QED
      BY <3>2, <3>3 DEF Hops
  <2>3. \A p : p # f.url /\ ~IsPending(p)' => ~IsPending(p)
    BY <1>3 DEF IsPending, Found
  <2>4. Shortest'
    BY <1>3, <1>4, <2>1 DEF Shortest
  <2>5. Expanded'
    BY <1>2, <1>4, <2>1, <2>2, <2>3 DEF Expanded
  <2>6. YieldedAll'
    BY <1>2, <1>4, <2>1, <2>2, <2>3 DEF YieldedAll
  <2>. QED
    BY <2>4, <2>5, <2>6
<1>. QED
  BY <1>1, <1>2, <1>5, <1>6, <1>7, <1>8 DEF ReachInv

\* A body: its links are queued, its page is yielded.  Every page within the
\* hops that are left for its links has been seen before or is queued now.
LEMMA AcceptedReach ==
  ASSUME Inv, Inv', ReachInv, NEW f \in in_flight, Accepted(f) PROVE ReachInv'
<1>. DEFINE effective == site.final[f.url]
            children == site.links[effective]
            seen == visited \cup {effective}
            fresh == Fresh(f, children, seen)
            new == {[url |-> q, depth |-> f.depth + 1] : q \in fresh}
<1>1. /\ status = "crawling" /\ in_flight' = in_flight \ {f}
      /\ f.depth > 0 => effective \in config.scope
      /\ Expand(f, children, seen)
      /\ yielded' = IF effective \in config.indexed
                      THEN [yielded EXCEPT ![effective] = @ + 1]
                      ELSE yielded
  BY DEF Accepted, Awaiting, StaysInScope
<1>2. UNCHANGED <<site, config, status, failed, revalidated, robots, launches>>
  BY DEF Accepted, given
<1>3. /\ TypeOK /\ site \in Site /\ config \in CrawlConfig /\ f \in Flight
      /\ visited \subseteq Pages /\ yielded \in [Pages -> Nat]
  BY DEF Inv, TypeOK
<1>4. /\ f.url \in Pages /\ f.depth \in Nat /\ config.max_depth \in Nat
      /\ f.depth <= config.max_depth
      /\ effective \in Pages /\ site.final[effective] = effective
      /\ children \in SUBSET Pages /\ seen \in SUBSET Pages
  <2>1. f.url \in Pages /\ f.depth \in Nat /\ config.max_depth \in Nat
        /\ f.depth <= config.max_depth
    BY <1>3 DEF Flight, CrawlConfig
  <2>2. /\ site.final \in [Pages -> Pages]
        /\ \A p \in Pages : site.final[site.final[p]] = site.final[p]
        /\ site.links \in [Pages -> SUBSET Pages]
    BY <1>3 DEF Site
  <2>3. effective \in Pages /\ site.final[effective] = effective
    BY <2>1, <2>2
  <2>. QED
    BY <1>3, <2>1, <2>2, <2>3
<1>5. Served(f.url)
  BY <1>1, <1>4 DEF Inv, FlightOK, Served
<1>6. children \cap config.scope \cap config.followable \subseteq Hops(f.url)
  BY <1>5 DEF Hops
<1>7. /\ revalidated = <<>> => Hops(f.url) = children \cap config.scope \cap config.followable
      /\ revalidated = <<>> => Hops(effective) \subseteq children \cap config.scope \cap config.followable
  <2>1. revalidated = <<>> => Range(revalidated) = {}
    BY DEF Range
  <2>. QED
    BY <2>1, <1>4, <1>5 DEF Hops
<1>8. Within' = Within /\ \A p : Hops(p)' = Hops(p) /\ (Served(p)' <=> Served(p))
  BY <1>2, SameWithin DEF Hops, Served
<1>. HIDE DEF effective, children
<1>9. visited' = seen \cup fresh /\ Grown(f, fresh)
  <2>. HIDE DEF seen, fresh
  <2>. QED
    BY <1>1, <1>3, <1>4, ExpandEntries DEF fresh
<1>10. /\ \A q \in fresh : q \notin seen /\ f.depth < config.max_depth
       /\ f.depth < config.max_depth =>
            children \cap config.scope \cap config.followable \subseteq visited'
       /\ fresh \subseteq Hops(f.url)
  BY <1>6, <1>9 DEF Fresh, Follows
<1>. HIDE DEF fresh
<1>11. Pending' = (Pending \ {Found(f)}) \cup new
  BY <1>1, <1>9, PendingGrown
<1>12. Found(f) \in Pending /\ Found(f).url = f.url /\ Found(f).depth = f.depth
  <2>1. Found(f) \in Pending
    BY PendingOnce
  <2>. QED
    BY <2>1 DEF Found
<1>13. Reachable'
  BY <1>1, <1>2, <1>8, <1>9, <1>10, GrownReach DEF ReachInv
<1>14. RootFirst' /\ OneAtATime'
  BY <1>1, <1>2, <1>9, GrownOrder DEF ReachInv
<1>15. /\ \A p \in Pages : p # effective => yielded'[p] = yielded[p]
       /\ effective \in config.indexed => yielded'[effective] > 0
       /\ \A p \in Pages : yielded[p] > 0 => yielded'[p] > 0
       /\ effective \notin config.indexed => yielded' = yielded
  BY <1>1, <1>3, <1>4
<1>16. YieldedReached'
  <2>. SUFFICES ASSUME NEW p \in Pages, yielded'[p] > 0
                PROVE  /\ p \in config.indexed
                       /\ \E q \in Within[config.max_depth] : Served(q) /\ site.final[q] = p
    BY <1>2, <1>8 DEF YieldedReached
  <2>1. CASE yielded[p] > 0
    BY <2>1 DEF ReachInv, YieldedReached
  <2>2. CASE ~(yielded[p] > 0)
    <3>1. p = effective /\ effective \in config.indexed
      BY <2>2, <1>15
    <3>2. f.url \in Within[f.depth]
      BY <1>12 DEF ReachInv, Reachable
    <3>3. f.url \in Within[config.max_depth]
      <4>1. f.depth \in 0..config.max_depth
        BY <1>4
      <4>. QED
        BY <4>1, <3>2, <1>3, <1>4, Farther
    <3>. QED
      BY <3>1, <3>3, <1>5 DEF effective
  <2>. QED
    BY <2>1, <2>2
<1>17. Root \in visited'
  BY <1>9 DEF ReachInv
<1>18. ASSUME Uncut', Shallow' PROVE Shortest' /\ Expanded' /\ YieldedAll'
  <2>1. Shortest /\ Expanded /\ YieldedAll /\ Shallow /\ Uncut /\ revalidated = <<>>
    BY <1>2, <1>18 DEF ReachInv, Shallow, Uncut, Disallowed
  \* Nothing nearer than n is to come: every page within n hops has been seen.
  <2>2. ASSUME NEW n \in Nat, n < config.max_depth, n <= f.depth
        PROVE  Within[n] \subseteq visited
    <3>1. n \in 0..config.max_depth
      BY <2>2, <1>4
    <3>2. \A e \in Pending : n <= e.depth
      <4>. SUFFICES ASSUME NEW e \in Pending PROVE n <= e.depth
        OBVIOUS
      <4>1. f.depth <= e.depth \/ config.max_depth <= e.depth + 1
        BY <2>1, Ahead DEF ReachInv
      <4>2. e.depth \in Nat
        BY PendingOnce
      <4>. QED
        BY <4>1, <4>2, <2>2, <1>4
    <3>. QED
      BY <2>1, <3>1, <3>2, Levels DEF ReachInv
  <2>3. Shortest'
    <3>. SUFFICES ASSUME NEW e \in Pending', NEW n \in Nat, e.url \in Within[n]
                  PROVE  e.depth <= n
      BY <1>8 DEF Shortest
    <3>1. CASE e \in Pending
      BY <3>1, <2>1 DEF Shortest
    <3>2. ASSUME NEW q \in fresh, e = [url |-> q, depth |-> f.depth + 1], ~(e.depth <= n)
          PROVE  FALSE
      <4>1. n <= f.depth /\ n < config.max_depth /\ q \in Within[n] /\ q \notin seen
        BY <3>2, <1>4, <1>10
      <4>. QED
        BY <4>1, <2>2
    <3>. QED
      BY <3>1, <3>2, <1>11
  <2>4. /\ \A q \in fresh : IsPending(q)'
        /\ \A p : p # f.url /\ ~IsPending(p)' => ~IsPending(p)
    <3>1. \A q \in fresh : [url |-> q, depth |-> f.depth + 1] \in Pending'
      BY <1>11
    <3>2. \A q : [url |-> q, depth |-> f.depth + 1].url = q
      OBVIOUS
    <3>3. \A q \in fresh : \E e \in Pending' : e.url = q
      BY <3>1, <3>2
    <3>4. \A e \in Pending : e.url # f.url => e \in Pending'
      BY <1>11, <1>12
    <3>. QED
      BY <3>3, <3>4 DEF IsPending
  <2>5. Expanded'
    <3>. SUFFICES ASSUME NEW n \in Nat, NEW p \in visited', p \in Within[n],
                         n < config.max_depth, ~IsPending(p)'
                  PROVE  Hops(p) \subseteq visited'
      BY <1>2, <1>8 DEF Expanded
    <3>1. CASE p = f.url
      <4>1. f.depth <= n
        BY <3>1, <2>1, <1>12 DEF Shortest
      <4>2. f.depth < config.max_depth
        BY <4>1, <1>4
      <4>. QED
        BY <3>1, <4>2, <2>1, <1>7, <1>10
    <3>2. CASE p = effective /\ f.depth <= n
      <4>1. f.depth < config.max_depth
        BY <3>2, <1>4
      <4>. QED
        BY <3>2, <4>1, <2>1, <1>7, <1>10
    <3>3. CASE p # f.url /\ p \in visited
      <4>1. Hops(p) \subseteq visited
        BY <3>3, <2>1, <2>4 DEF Expanded
      <4>. QED
        BY <4>1, <1>9
    <3>4. CASE p # f.url /\ p = effective /\ n < f.depth
      <4>1. n <= f.depth
        BY <3>4, <1>4
      <4>2. Within[n] \subseteq visited
        BY <4>1, <2>2
      <4>3. p \in visited
        BY <4>2
      <4>. QED
        BY <3>3, <3>4, <4>3
    <3>5. p \notin fresh
      BY <2>4
    <3>. QED
      BY <3>1, <3>2, <3>3, <3>4, <3>5, <1>4, <1>9
  <2>6. YieldedAll'
    <3>. SUFFICES ASSUME NEW p \in visited', Served(p), site.final[p] \in config.indexed,
                         ~IsPending(p)'
                  PROVE  yielded'[site.final[p]] > 0
      BY <1>2, <1>8 DEF YieldedAll
    <3>1. CASE p = f.url \/ p = effective
      BY <3>1, <1>4, <1>15 DEF effective
    <3>2. CASE p # f.url /\ p \in visited
      <4>1. yielded[site.final[p]] > 0
        BY <3>2, <2>1, <2>4 DEF YieldedAll
      <4>2. site.final[p] \in Pages
        BY <3>2, <1>3 DEF Site
      <4>. QED
        BY <4>1, <4>2, <1>15
    <3>3. p \notin fresh
      BY <2>4
    <3>. QED
      BY <3>1, <3>2, <3>3, <1>9
  <2>. QED
    BY <2>3, <2>5, <2>6
<1>. QED
  BY <1>1, <1>2, <1>13, <1>14, <1>16, <1>17, <1>18 DEF ReachInv

LEMMA NextReach == Inv /\ Inv' /\ ReachInv /\ [Next]_vars => ReachInv'
<1>. SUFFICES ASSUME Inv, Inv', ReachInv, [Next]_vars PROVE ReachInv'
  OBVIOUS
<1>1. CASE FetchRobots
  BY <1>1, FetchRobotsReach
<1>2. CASE Launch
  BY <1>2, LaunchReach
<1>3. CASE SkipDisallowed \/ RootDisallowed \/ \E f \in in_flight : ChildFailed(f) \/ RootFailed(f)
  BY <1>3, CutReach
<1>4. ASSUME NEW f \in in_flight, Retry(f) PROVE ReachInv'
  BY <1>4, RetryReach
<1>5. ASSUME NEW f \in in_flight, Revalidated(f) PROVE ReachInv'
  BY <1>5, RevalidatedReach
<1>6. ASSUME NEW f \in in_flight, Escaped(f) PROVE ReachInv'
  BY <1>6, EscapedReach
<1>7. ASSUME NEW f \in in_flight, Accepted(f) PROVE ReachInv'
  BY <1>7, AcceptedReach
<1>8. CASE Finish
  BY <1>8, FinishReach
<1>9. CASE UNCHANGED vars
  <2>1. UNCHANGED <<site, config, status, visited, frontier, in_flight, failed,
                    revalidated, robots, yielded>>
    BY <1>9 DEF vars, given, records, history
  <2>2. Pending' = Pending /\ OneAtATime'
    BY <2>1 DEF ReachInv, OneAtATime, Pending, Found
  <2>3. Uncut' => Uncut
    BY <2>1 DEF Uncut, Disallowed
  <2>4. status' = "done" => in_flight' = {}
    BY <2>1 DEF ReachInv
  <2>. QED
    BY <2>1, <2>2, <2>3, <2>4, KeptReach
<1>. QED
  BY <1>1, <1>2, <1>3, <1>4, <1>5, <1>6, <1>7, <1>8, <1>9 DEF Next, Fill, Complete

LEMMA ReachInvariance == Spec => [](Inv /\ ReachInv)
<1>1. Init => Inv /\ ReachInv
  BY InitInv, InitReach
<1>2. (Inv /\ ReachInv) /\ [Next]_vars => (Inv /\ ReachInv)'
  BY NextInv, NextReach
<1>. QED
  BY <1>1, <1>2, PTL DEF Spec

\* A page is queued and requested only at a depth at which links the crawl
\* really followed reach it.
THEOREM ReachedByLinks == Spec => []WithinReach
<1>1. Inv /\ ReachInv => WithinReach
  <2>. SUFFICES ASSUME Inv, ReachInv PROVE WithinReach
    OBVIOUS
  <2>1. \A i \in DOMAIN frontier : frontier[i] \in Pending
    BY DEF Pending
  <2>2. \A f \in in_flight : /\ Found(f) \in Pending
                             /\ Found(f).url = f.url /\ Found(f).depth = f.depth
    BY DEF Pending, Found
  <2>. QED
    BY <2>1, <2>2 DEF ReachInv, Reachable, WithinReach
<1>. QED
  BY <1>1, ReachInvariance, PTL

\* One fetch at a time, or a depth of two at most: a crawl that nothing cut
\* short yields the indexed pages within max_depth hops and no others, in
\* whatever order its fetches complete.
THEOREM SamePages == Spec => []SameSetWhenShallow
<1>1. Inv /\ ReachInv => SameSetWhenShallow
  <2>. SUFFICES ASSUME Inv, ReachInv, ~CutShort, Shallow PROVE YieldsAllWithinReach
    BY DEF SameSetWhenShallow, Shallow
  <2>1. /\ status = "done" /\ failed = 0 /\ revalidated = <<>> /\ frontier = <<>>
        /\ \A p \in Pages : ~Disallowed(p)
    <3>1. failed \in Nat
      BY DEF Inv, TypeOK
    <3>. QED
      BY <3>1 DEF CutShort
  <2>2. Shortest /\ Expanded /\ YieldedAll
    BY <2>1 DEF ReachInv, Uncut
  <2>3. Pending = {}
    BY <2>1 DEF ReachInv, Pending
  <2>4. config.max_depth \in Nat /\ config.max_depth \in 0..config.max_depth
    BY PendingOnce
  <2>5. Within[config.max_depth] \subseteq visited
    BY <2>2, <2>3, <2>4, Levels DEF ReachInv
  <2>6. ASSUME NEW q \in Within[config.max_depth], Served(q),
               site.final[q] \in config.indexed
        PROVE  site.final[q] \in Pages /\ yielded[site.final[q]] > 0
    <3>1. ~IsPending(q) /\ q \in visited
      BY <2>3, <2>5 DEF IsPending
    <3>2. site.final[q] \in Pages
      BY <3>1 DEF Inv, TypeOK, Site
    <3>. QED
      BY <2>2, <2>6, <3>1, <3>2 DEF YieldedAll
  <2>. QED
    BY <2>6 DEF ReachInv, YieldedReached, YieldsAllWithinReach
<1>. QED
  BY <1>1, ReachInvariance, PTL

(***************************************************************************)
(* The pacing of a crawl, for any hosts, fetches, interval, backoffs and   *)
(* any pauses of the stream body.  Two arguments about the slots: those of *)
(* fetches polled in time are kept to the instant, and no fetch is ever    *)
(* sent before its slot, of which a host has one each interval.            *)
(***************************************************************************)

\* A fetch that has a slot and was not sent yet waits; its slot is a delay
\* before its first poll, counted from then, and a deadline after.
Placed(f) == worker[f].state # "idle"
Waiting(f) == worker[f].state \in {"reserved", "sleeping"}
Slot(f) == IF worker[f].state = "reserved" THEN now + worker[f].time ELSE worker[f].time

\* A first attempt was sent by the fetches that have left their slot, and by
\* no others.
SentLeft ==
  \A f \in Fetches :
    /\ sent_at[f] # Never <=> Placed(f) /\ ~Waiting(f)
    /\ sent_at[f] # Never => sent_at[f] <= now

\* Where a fetch that is not overdue stands: its slot, at which it was sent.
Place(f) == IF Waiting(f) THEN Slot(f) ELSE sent_at[f]
Prompt == {f \in Fetches \ overdue : Placed(f)}

\* No such slot has passed, and the next free one is at least the interval
\* later.
SlotsAhead ==
  \A f \in Prompt :
    /\ Waiting(f) => now <= Slot(f)
    /\ Place(f) + Interval <= next_free[HostOf[f]]

\* Two of them, of one host, are at least the interval apart.
SlotsApart ==
  \A f, g \in Prompt :
    f # g /\ HostOf[f] = HostOf[g] =>
      Place(f) + Interval <= Place(g) \/ Place(g) + Interval <= Place(f)

\* The fetches of a host that were sent or may be by time t, held or not.
Taken(h) == {f \in Fetches : HostOf[f] = h /\ Placed(f)}
Due(h, t) == {f \in Taken(h) : Waiting(f) => Slot(f) <= t}
NoMoreThan(n, t) == (n - 1) * Interval <= t

\* Every slot handed out moved the next one, and there are no more of them up
\* to an instant to come than one each interval.
Rationed ==
  \A h \in Servers :
    /\ Cardinality(Taken(h)) * Interval <= next_free[h]
    /\ \A t \in Nat : now <= t => NoMoreThan(Cardinality(Due(h, t)), t)

PacerInv == PacerTypeOK /\ SentLeft /\ SlotsAhead /\ SlotsApart /\ Rationed

-----------------------------------------------------------------------------

\* Both sets are finite, so that their sizes are numbers.
LEMMA TakenFinite ==
  ASSUME NEW h, NEW t
  PROVE  /\ IsFiniteSet(Taken(h)) /\ Cardinality(Taken(h)) \in Nat
         /\ IsFiniteSet(Due(h, t)) /\ Cardinality(Due(h, t)) \in Nat
         /\ Cardinality(Due(h, t)) <= Cardinality(Taken(h))
<1>1. IsFiniteSet(Taken(h))
  <2>1. Taken(h) \subseteq Fetches
    BY DEF Taken
  <2>. QED
    BY <2>1, PacingAssumption, FS_Subset
<1>2. Due(h, t) \subseteq Taken(h)
  BY DEF Due
<1>. QED
  BY <1>1, <1>2, FS_Subset, FS_CardinalityType

\* Fewer fetches are no more than the rate allows either.
LEMMA FewerAllowed ==
  ASSUME NEW m \in Nat, NEW n \in Nat, NEW t \in Int, m <= n, NoMoreThan(n, t)
  PROVE  NoMoreThan(m, t)
<1>1. PICK k \in Nat : n = m + k
  <2>1. n - m \in Nat /\ n = m + (n - m)
    OBVIOUS
  <2>. QED
    BY <2>1
<1>2. k * Interval \in Nat /\ Interval \in Nat
  BY PacingAssumption
<1>3. (n - 1) * Interval = (m - 1) * Interval + k * Interval
  BY <1>1, <1>2
<1>4. (m - 1) * Interval \in Int
  BY <1>2
<1>. QED
  BY <1>2, <1>3, <1>4 DEF NoMoreThan

\* A fetch that takes no slot and brings none forward leaves the rate alone.
LEMMA RationedKept ==
  ASSUME Rationed, PacerTypeOK, now' \in Nat, now <= now', next_free' = next_free,
         \A g \in Fetches : Placed(g)' = Placed(g),
         \A g \in Fetches, t \in Nat :
           now' <= t /\ Placed(g) /\ (Waiting(g)' => Slot(g)' <= t) =>
             (Waiting(g) => Slot(g) <= t)
  PROVE  Rationed'
<1>. SUFFICES ASSUME NEW h \in Servers
              PROVE  /\ Cardinality(Taken(h)') * Interval <= next_free[h]'
                     /\ \A t \in Nat : now' <= t => NoMoreThan(Cardinality(Due(h, t)'), t)
  BY DEF Rationed, NoMoreThan
<1>1. Taken(h)' = Taken(h)
  BY DEF Taken
<1>2. ASSUME NEW t \in Nat, now' <= t PROVE NoMoreThan(Cardinality(Due(h, t)'), t)
  <2>1. Due(h, t)' \subseteq Due(h, t)
    BY <1>1, <1>2 DEF Due, Taken
  <2>2. Cardinality(Due(h, t)') \in Nat /\ Cardinality(Due(h, t)) \in Nat
        /\ Cardinality(Due(h, t)') <= Cardinality(Due(h, t))
    BY <2>1, TakenFinite, FS_Subset, FS_CardinalityType
  <2>3. NoMoreThan(Cardinality(Due(h, t)), t)
    BY <1>2 DEF Rationed, PacerTypeOK
  <2>. QED
    BY <2>2, <2>3, FewerAllowed
<1>. QED
  BY <1>1, <1>2 DEF Rationed

LEMMA PacerInitInv == PacerInit => PacerInv
<1>. SUFFICES ASSUME PacerInit PROVE PacerInv
  OBVIOUS
<1>1. PacerTypeOK /\ SentLeft /\ SlotsAhead /\ SlotsApart
  BY PacingAssumption DEF PacerInit, PacerTypeOK, SentLeft, SlotsAhead, SlotsApart,
     Prompt, Placed, Waiting, Idle, Never
<1>2. \A h \in Servers : Taken(h) = {} /\ \A t \in Nat : Due(h, t) = {}
  BY DEF PacerInit, Taken, Due, Placed, Idle
<1>3. Cardinality({}) = 0
  BY FS_EmptySet
<1>4. \A t \in Nat : NoMoreThan(0, t)
  BY PacingAssumption DEF NoMoreThan
<1>5. Rationed
  <2>1. \A h \in Servers : next_free[h] = 0
    BY DEF PacerInit
  <2>2. 0 * Interval = 0
    BY PacingAssumption
  <2>. QED
    BY <2>1, <2>2, <1>2, <1>3, <1>4 DEF Rationed
<1>. QED
  BY <1>1, <1>5 DEF PacerInv

\* A slot is the next free one of its host, or now if that is later.
LEMMA ReserveInv == ASSUME PacerInv, NEW f \in Fetches, Reserve(f) PROVE PacerInv'
<1>. DEFINE h == HostOf[f]
            slot == SlotOf(h)
<1>1. h \in Servers /\ slot \in Nat /\ now \in Nat /\ now <= slot /\ next_free[h] <= slot
      /\ Interval \in Nat /\ next_free[h] \in Nat
  BY PacingAssumption DEF PacerInv, PacerTypeOK, SlotOf, Later
<1>2. /\ next_free' = [next_free EXCEPT ![h] = slot + Interval]
      /\ worker' = [worker EXCEPT ![f] = [state |-> "reserved", time |-> slot - now]]
      /\ ~Placed(f) /\ ~Waiting(f)
      /\ UNCHANGED <<now, phase, sent_at, overdue>>
  BY DEF Reserve, After, sent_history, Waiting, Placed
<1>. HIDE DEF slot, h
<1>3. PacerTypeOK'
  BY <1>1, <1>2, PacingAssumption DEF PacerInv, PacerTypeOK
<1>4. /\ Placed(f)' /\ Waiting(f)' /\ Slot(f)' = slot
      /\ \A g \in Fetches \ {f} : /\ Placed(g)' = Placed(g) /\ Waiting(g)' = Waiting(g)
                                  /\ Slot(g)' = Slot(g) /\ Place(g)' = Place(g)
  BY <1>1, <1>2 DEF PacerInv, PacerTypeOK, Placed, Waiting, Slot, Place
<1>5. \A g \in Fetches : Place(g) \in Nat
  BY PacingAssumption DEF PacerInv, PacerTypeOK, Place, Slot, Waiting, Never
<1>6. SentLeft'
  BY <1>2, <1>4 DEF PacerInv, SentLeft
<1>7. Prompt' \subseteq Prompt \cup {f} /\ f \notin Prompt /\ Place(f)' = slot
  BY <1>2, <1>4 DEF Prompt, Place
<1>8. SlotsAhead'
  <2>1. \A g \in Prompt : /\ Waiting(g) => now <= Slot(g)
                          /\ Place(g) + Interval <= next_free[HostOf[g]]
    BY DEF PacerInv, SlotsAhead
  <2>2. \A g \in Fetches : next_free[HostOf[g]] \in Nat
                           /\ next_free[HostOf[g]] <= next_free'[HostOf[g]]
    <3>1. \A k \in Servers : /\ next_free[k] \in Nat
                               /\ next_free'[k] = IF k = h THEN slot + Interval ELSE next_free[k]
      BY <1>2 DEF PacerInv, PacerTypeOK
    <3>2. next_free[h] <= slot + Interval
      BY <1>1
    <3>. QED
      BY <3>1, <3>2, PacingAssumption
  <2>3. next_free'[HostOf[f]] = slot + Interval
    BY <1>1, <1>2 DEF PacerInv, PacerTypeOK, h
  <2>4. Prompt' \subseteq Fetches
    BY DEF Prompt
  <2>5. ASSUME NEW g \in Prompt'
        PROVE  (Waiting(g)' => now' <= Slot(g)') /\ Place(g)' + Interval <= next_free'[HostOf[g]]
    <3>1. CASE g = f
      BY <3>1, <2>3, <1>1, <1>2, <1>4, <1>7
    <3>2. CASE g # f
      <4>1. g \in Prompt /\ g \in Fetches \ {f}
        BY <3>2, <2>4, <2>5, <1>7
      <4>. QED
        BY <4>1, <2>1, <2>2, <1>1, <1>2, <1>4, <1>5
    <3>. QED
      BY <3>1, <3>2
  <2>. QED
    BY <2>5 DEF SlotsAhead
<1>9. SlotsApart'
  <2>1. \A g \in Prompt : HostOf[g] = h => Place(g) + Interval <= slot
    <3>1. Prompt \subseteq Fetches
      BY DEF Prompt
    <3>. QED
      BY <3>1, <1>1, <1>5 DEF PacerInv, SlotsAhead
  <2>2. \A g \in Prompt : g # f /\ g \in Fetches /\ Place(g)' = Place(g)
    BY <1>4, <1>7 DEF Prompt
  <2>. QED
    BY <2>1, <2>2, <1>7 DEF PacerInv, SlotsApart, h
<1>10. Rationed'
  <2>1. ASSUME NEW k \in Servers
        PROVE  /\ Cardinality(Taken(k)') * Interval <= next_free'[k]
               /\ \A t \in Nat : now' <= t => NoMoreThan(Cardinality(Due(k, t)'), t)
    <3>1. CASE k # h
      <4>1. Taken(k)' = Taken(k) /\ \A t \in Nat : Due(k, t)' = Due(k, t)
        BY <3>1, <1>2, <1>4 DEF Taken, Due, h
      <4>2. next_free'[k] = next_free[k]
        BY <3>1, <1>2 DEF PacerInv, PacerTypeOK
      <4>. QED
        BY <4>1, <4>2, <1>2 DEF PacerInv, Rationed
    <3>2. CASE k = h
      <4>. DEFINE n == Cardinality(Taken(h))
      <4>1. Taken(h)' = Taken(h) \cup {f} /\ f \notin Taken(h)
        BY <1>2, <1>4 DEF Taken, h
      <4>2. n \in Nat /\ Cardinality(Taken(h)') = n + 1
        BY <4>1, TakenFinite, FS_AddElement
      <4>. HIDE DEF n
      <4>3. n * Interval \in Nat /\ n * Interval <= next_free[h]
        BY <4>2, <1>1 DEF PacerInv, Rationed, n
      <4>4. (n + 1) * Interval = n * Interval + Interval
        BY <4>2, <1>1
      <4>5. next_free'[h] = slot + Interval
        BY <1>1, <1>2 DEF PacerInv, PacerTypeOK
      <4>6. Cardinality(Taken(h)') * Interval <= next_free'[h]
        BY <4>2, <4>3, <4>4, <4>5, <1>1
      <4>7. ASSUME NEW t \in Nat, now' <= t PROVE NoMoreThan(Cardinality(Due(h, t)'), t)
        <5>1. CASE t < slot
          <6>1. Due(h, t)' = Due(h, t)
            BY <5>1, <4>1, <1>1, <1>2, <1>4 DEF Due, Taken
          <6>. QED
            BY <6>1, <4>7, <1>1, <1>2 DEF PacerInv, Rationed
        <5>2. CASE slot <= t
          <6>1. Due(h, t)' \subseteq Taken(h) \cup {f}
            BY <4>1 DEF Due
          <6>2. /\ IsFiniteSet(Taken(h) \cup {f})
                /\ Cardinality(Taken(h) \cup {f}) = n + 1
            BY <4>1, TakenFinite, FS_AddElement DEF n
          <6>3. Cardinality(Due(h, t)') \in Nat /\ Cardinality(Due(h, t)') <= n + 1
            BY <6>1, <6>2, FS_Subset, FS_CardinalityType
          <6>4. NoMoreThan(n + 1, t)
            BY <5>2, <4>2, <4>3, <1>1 DEF NoMoreThan
          <6>. QED
            BY <6>3, <6>4, <4>2, FewerAllowed
        <5>. QED
          BY <5>1, <5>2, <1>1
      <4>. QED
        BY <4>6, <4>7, <3>2
    <3>. QED
      BY <3>1, <3>2
  <2>. QED
    BY <2>1 DEF Rationed, NoMoreThan
<1>. QED
  BY <1>3, <1>6, <1>8, <1>9, <1>10 DEF PacerInv

\* A fetch whose slot is now, or has passed, is sent: if nobody held it, it
\* stays at the place it had.
LEMMA SendInv ==
  ASSUME PacerInv, NEW f \in Fetches, Waiting(f), Slot(f) <= now, Send(f),
         UNCHANGED <<now, phase, next_free>>
  PROVE  PacerInv'
<1>1. now \in 0..Horizon /\ now \in Nat /\ now # Never
  BY PacingAssumption DEF PacerInv, PacerTypeOK, Never
<1>2. /\ worker' = [worker EXCEPT ![f] = [state |-> "sent", time |-> 0]]
      /\ sent_at' = [sent_at EXCEPT ![f] = now]
      /\ overdue' = overdue
  BY DEF Send
<1>3. PacerTypeOK'
  BY <1>1, <1>2, PacingAssumption DEF PacerInv, PacerTypeOK, Never
<1>4. /\ Placed(f) /\ Placed(f)' /\ ~Waiting(f)' /\ sent_at'[f] = now
      /\ \A g \in Fetches \ {f} : /\ Placed(g)' = Placed(g) /\ Waiting(g)' = Waiting(g)
                                  /\ Slot(g)' = Slot(g) /\ Place(g)' = Place(g)
                                  /\ sent_at'[g] = sent_at[g]
  BY <1>1, <1>2 DEF PacerInv, PacerTypeOK, Placed, Waiting, Slot, Place
<1>5. SentLeft'
  BY <1>1, <1>4 DEF PacerInv, SentLeft, Never
<1>6. Prompt' = Prompt /\ Prompt \subseteq Fetches
  BY <1>2, <1>4 DEF Prompt
<1>7. \A g \in Prompt : Place(g)' = Place(g) /\ (Waiting(g)' => Waiting(g) /\ Slot(g)' = Slot(g))
  <2>1. f \in Prompt => Place(f)' = Place(f)
    <3>1. f \in Prompt => now <= Slot(f)
      BY DEF PacerInv, SlotsAhead
    <3>2. Slot(f) \in Nat
      BY <1>1 DEF PacerInv, PacerTypeOK, Slot
    <3>. QED
      BY <3>1, <3>2, <1>1, <1>4 DEF Place
  <2>. QED
    BY <2>1, <1>4, <1>6
<1>8. SlotsAhead' /\ SlotsApart'
  BY <1>6, <1>7 DEF PacerInv, SlotsAhead, SlotsApart
<1>9. Rationed'
  <2>1. \A g \in Fetches : Placed(g)' = Placed(g)
    BY <1>4 DEF Placed
  <2>2. ASSUME NEW g \in Fetches, NEW t \in Nat, now' <= t,
               Waiting(g)' => Slot(g)' <= t
        PROVE  Waiting(g) => Slot(g) <= t
    <3>1. CASE g = f
      <4>1. Slot(f) \in Nat
        BY <1>1 DEF PacerInv, PacerTypeOK, Slot
      <4>. QED
        BY <4>1, <3>1, <2>2, <1>1
    <3>. QED
      BY <3>1, <2>2, <1>4
  <2>. QED
    BY <2>1, <2>2, <1>1, RationedKept DEF PacerInv
<1>. QED
  BY <1>3, <1>5, <1>8, <1>9 DEF PacerInv

\* A step of a fetch that has no slot, or that keeps its slot, and sends no
\* first attempt.
LEMMA KeepInv ==
  ASSUME PacerInv, PacerTypeOK', UNCHANGED <<now, next_free, sent_at, overdue>>,
         \A g \in Fetches : /\ Placed(g)' = Placed(g) /\ Waiting(g)' = Waiting(g)
                            /\ Waiting(g) => Slot(g)' = Slot(g)
  PROVE  PacerInv'
<1>1. Prompt' = Prompt /\ Prompt \subseteq Fetches
  BY DEF Prompt
<1>2. \A g \in Prompt : Place(g)' = Place(g)
  BY <1>1 DEF Place
<1>3. SentLeft' /\ SlotsAhead' /\ SlotsApart'
  BY <1>1, <1>2 DEF PacerInv, SentLeft, SlotsAhead, SlotsApart
<1>4. Rationed'
  <2>1. now \in Nat
    BY PacingAssumption DEF PacerInv, PacerTypeOK
  <2>2. \A g \in Fetches, t \in Nat : (Waiting(g)' => Slot(g)' <= t) => (Waiting(g) => Slot(g) <= t)
    OBVIOUS
  <2>. QED
    BY <2>1, <2>2, RationedKept DEF PacerInv
<1>. QED
  BY <1>3, <1>4 DEF PacerInv

LEMMA FetchInv == ASSUME PacerInv, NEW f \in Fetches, Fetch(f) PROVE PacerInv'
<1>1. CASE Reserve(f)
  BY <1>1, ReserveInv
<1>2. CASE FirstPoll(f)
  <2>1. CASE worker[f].time = 0 /\ Send(f)
    <3>1. Waiting(f) /\ Slot(f) <= now
      BY <1>2, <2>1, PacingAssumption DEF FirstPoll, Waiting, Slot, PacerInv, PacerTypeOK
    <3>. QED
      BY <1>2, <3>1, <2>1, SendInv DEF FirstPoll
  <2>2. CASE ~(worker[f].time = 0 /\ Send(f))
    <3>1. /\ worker' = [worker EXCEPT ![f] = [state |-> "sleeping", time |-> now + worker[f].time]]
          /\ worker[f].state = "reserved"
          /\ UNCHANGED <<now, phase, next_free, sent_at, overdue>>
      BY <1>2, <2>2 DEF FirstPoll, sent_history
    <3>2. /\ PacerTypeOK'
          /\ \A g \in Fetches : /\ Placed(g)' = Placed(g) /\ Waiting(g)' = Waiting(g)
                                /\ Waiting(g) => Slot(g)' = Slot(g)
      BY <3>1 DEF PacerInv, PacerTypeOK, Placed, Waiting, Slot
    <3>. QED
      BY <3>1, <3>2, KeepInv
  <2>. QED
    BY <2>1, <2>2
<1>3. CASE WakeUp(f)
  <2>1. Waiting(f) /\ Slot(f) <= now
    BY <1>3 DEF WakeUp, Waiting, Slot, PacerInv, PacerTypeOK
  <2>. QED
    BY <1>3, <2>1, SendInv DEF WakeUp
<1>4. CASE BackOff(f) \/ Resend(f) \/ Completed(f)
  <2>1. PICK w \in [state : {"sent", "retrying", "done"}, time : Nat] :
          worker' = [worker EXCEPT ![f] = w]
    BY <1>4, PacingAssumption DEF BackOff, Resend, Completed, PacerInv, PacerTypeOK
  <2>2. /\ worker[f].state \in {"sent", "retrying"}
        /\ phase' \in {"fill", "asking", "await", "suspended"}
        /\ UNCHANGED <<now, next_free, sent_at, overdue>>
    BY <1>4 DEF BackOff, Resend, Completed, sent_history, PacerInv, PacerTypeOK
  <2>3. PacerTypeOK'
    BY <2>1, <2>2 DEF PacerInv, PacerTypeOK
  <2>4. \A g \in Fetches : /\ Placed(g)' = Placed(g) /\ Waiting(g)' = Waiting(g)
                           /\ Waiting(g) => Slot(g)' = Slot(g)
    BY <2>1, <2>2 DEF PacerInv, PacerTypeOK, Placed, Waiting, Slot
  <2>. QED
    BY <2>2, <2>3, <2>4, KeepInv
<1>. QED
  BY <1>1, <1>2, <1>3, <1>4 DEF Fetch

\* Time passes: the fetches that were ready and not polled are overdue from
\* here on, and no slot comes nearer.
LEMMA TickInv == ASSUME PacerInv, Tick PROVE PacerInv'
<1>1. /\ now < Horizon /\ now' = now + 1 /\ now \in Nat
      /\ overdue' = overdue \cup
           {f \in Pollable : worker[f].state \in {"reserved", "sleeping"}}
      /\ UNCHANGED <<phase, next_free, worker, sent_at>>
  BY PacingAssumption DEF Tick, PacerInv, PacerTypeOK
<1>2. PacerTypeOK'
  BY <1>1, PacingAssumption DEF PacerInv, PacerTypeOK, Pollable
<1>3. \A f \in Fetches : Placed(f)' = Placed(f) /\ Waiting(f)' = Waiting(f)
  BY <1>1 DEF Placed, Waiting
<1>4. SentLeft'
  BY <1>1, <1>3, PacingAssumption DEF PacerInv, SentLeft, PacerTypeOK, Never
<1>5. /\ Prompt' \subseteq Prompt /\ Prompt \subseteq Fetches
      /\ \A f \in Prompt' : Waiting(f) => worker[f].state = "sleeping" /\ now < worker[f].time
  BY <1>1, <1>3 DEF Prompt, Pollable, Waiting, PacerInv, PacerTypeOK
<1>6. \A f \in Prompt' : Place(f)' = Place(f) /\ (Waiting(f) => now' <= Slot(f)')
  BY <1>1, <1>3, <1>5 DEF Place, Slot, PacerInv, PacerTypeOK
<1>7. SlotsAhead' /\ SlotsApart'
  BY <1>1, <1>3, <1>5, <1>6 DEF PacerInv, SlotsAhead, SlotsApart
<1>8. Rationed'
  <2>1. ASSUME NEW g \in Fetches, NEW t \in Nat, Waiting(g)' => Slot(g)' <= t
        PROVE  Waiting(g) => Slot(g) <= t
    BY <2>1, <1>1, <1>3 DEF Slot, PacerInv, PacerTypeOK
  <2>. QED
    BY <2>1, <1>1, <1>3, RationedKept DEF PacerInv
<1>. QED
  BY <1>2, <1>4, <1>7, <1>8 DEF PacerInv

LEMMA PacerNextInv == PacerInv /\ [PacerNext]_pacer_vars => PacerInv'
<1>. SUFFICES ASSUME PacerInv, [PacerNext]_pacer_vars PROVE PacerInv'
  OBVIOUS
<1>1. CASE \E f \in Fetches : Fetch(f)
  BY <1>1, FetchInv
<1>2. CASE Tick
  BY <1>2, TickInv
<1>3. CASE AskRobots \/ Await \/ Resume \/ UNCHANGED pacer_vars
  <2>1. PacerTypeOK' /\ UNCHANGED <<now, next_free, worker, sent_at, overdue>>
    BY <1>3 DEF AskRobots, Await, Resume, pacer_vars, sent_history, PacerInv, PacerTypeOK
  <2>2. \A g \in Fetches : /\ Placed(g)' = Placed(g) /\ Waiting(g)' = Waiting(g)
                           /\ Waiting(g) => Slot(g)' = Slot(g)
    BY <2>1 DEF Placed, Waiting, Slot
  <2>. QED
    BY <2>1, <2>2, KeepInv
<1>. QED
  BY <1>1, <1>2, <1>3 DEF PacerNext

LEMMA PacerInvariance == PacerSpec => []PacerInv
  BY PacerInitInv, PacerNextInv, PTL DEF PacerSpec

\* First attempts to one host that were polled when they were due are at least
\* the interval apart, however long the consumer or a robots.txt held the
\* stream meanwhile and whatever was retried (Pacer::reserve, fetch_one).
THEOREM Spaced == PacerSpec => []SpacedUnlessOverdue
<1>1. PacerInv => SpacedUnlessOverdue
  <2>. SUFFICES ASSUME PacerInv, NEW f \in Fetches \ overdue, NEW g \in Fetches \ overdue
                PROVE  IntervalApart(f, g)
    BY DEF SpacedUnlessOverdue
  <2>1. ASSUME NEW e \in Fetches \ overdue, sent_at[e] # Never
        PROVE  e \in Prompt /\ Place(e) = sent_at[e]
    BY <2>1 DEF PacerInv, SentLeft, Prompt, Place
  <2>. QED
    BY <2>1 DEF PacerInv, SlotsApart, IntervalApart
<1>. QED
  BY <1>1, PacerInvariance, PTL

\* However long the stream is held, a host has been sent no more first attempts
\* than one each interval since the crawl began (Pacer::reserve).
THEOREM Rate == PacerSpec => []AtTheRate
<1>1. PacerInv => AtTheRate
  <2>. SUFFICES ASSUME PacerInv, NEW h \in Servers
                PROVE  NoMoreThan(Cardinality(FirstSent(h)), now)
    BY DEF AtTheRate, NoMoreThan
  <2>1. now \in Nat
    BY PacingAssumption DEF PacerInv, PacerTypeOK
  <2>2. FirstSent(h) \subseteq Due(h, now)
    BY DEF FirstSent, Due, Taken, PacerInv, SentLeft
  <2>3. /\ Cardinality(FirstSent(h)) \in Nat /\ Cardinality(Due(h, now)) \in Nat
        /\ Cardinality(FirstSent(h)) <= Cardinality(Due(h, now))
    BY <2>2, TakenFinite, FS_Subset, FS_CardinalityType
  <2>4. NoMoreThan(Cardinality(Due(h, now)), now)
    BY <2>1 DEF PacerInv, Rationed
  <2>. QED
    BY <2>1, <2>3, <2>4, FewerAllowed
<1>. QED
  BY <1>1, PacerInvariance, PTL
=============================================================================
