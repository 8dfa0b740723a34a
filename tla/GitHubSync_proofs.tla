-------------------------- MODULE GitHubSync_proofs --------------------------
(***************************************************************************)
(* Proofs about a sync, for any repository, any number of requests at a    *)
(* time and any clock: the token is refreshed only when it is about to     *)
(* end, however many requests find it so at once, and no request goes out  *)
(* with one that has ended; what the index holds afterwards is what the    *)
(* branch has; and every file listed is reported or failed, once.          *)
(***************************************************************************)
EXTENDS GitHubSync, FiniteSetTheorems, TLAPS

(***************************************************************************)
(* The inductive invariant of the fetcher.                                 *)
(***************************************************************************)

Issued == [asked : Nat, ends : Nat, expires : Nat]

FetchTypeOK ==
  /\ provider \in {"fixed", "oauth"}
  /\ {clock, token, expires, asked} \subseteq Nat
  /\ mints \in Seq(Issued)
  /\ req \in [Requests -> [at : {"idle", "waiting", "minting", "sent"}, live : BOOLEAN]]

\* The token held is the last one issued, and its end is believed to be at
\* most the latency of the source later than it is.
TokenOK ==
  /\ token = Len(mints)
  /\ token # 0 => expires = mints[token].expires
  /\ \A n \in 1..Len(mints) : mints[n].expires <= mints[n].ends + Latency

\* Who refreshes holds the lock.  While it is held, the token stays as stale as
\* it was found, and the source is within its latency.
LockOK ==
  /\ \A id \in Requests : req[id].at = "minting" => holder = id
  /\ holder # NoRequest =>
       /\ provider = "oauth"
       /\ asked <= clock /\ clock <= asked + Latency
       /\ token = 0 \/ asked + Buffer >= expires

FetchInv == FetchTypeOK /\ TokenOK /\ LockOK /\ MintedWhenStale /\ SentUnexpired

-----------------------------------------------------------------------------

LEMMA InitFetch == Init => FetchInv
  BY DEF Init, FetchInit, FetchInv, FetchTypeOK, TokenOK, LockOK, MintedWhenStale,
     SentUnexpired, Idle

\* A token that needs no refresh is one the server still takes.
LEMMA SendInv ==
  ASSUME FetchInv, NEW id, ~NeedsRefresh, Send(id),
         UNCHANGED <<provider, clock, mints, token, expires, holder, asked>>
  PROVE  FetchInv'
<1>. DEFINE sent == Sent(IF token = 0 THEN 0 ELSE mints[token].ends)
<1>1. req' = [req EXCEPT ![id] = sent]
  BY DEF Send
<1>2. provider = "oauth" => token # 0 /\ clock < mints[token].ends
  <2>. SUFFICES ASSUME provider = "oauth" PROVE token # 0 /\ clock < mints[token].ends
    OBVIOUS
  <2>1. token # 0 /\ clock + Buffer < expires
    BY FetchAssumption DEF NeedsRefresh, FetchInv, FetchTypeOK
  <2>2. token \in 1..Len(mints) /\ mints[token] \in Issued
    BY <2>1 DEF FetchInv, FetchTypeOK, TokenOK
  <2>. QED
    BY <2>1, <2>2, FetchAssumption DEF FetchInv, FetchTypeOK, TokenOK, Issued
<1>3. sent = [at |-> "sent", live |-> TRUE]
  BY <1>2 DEF Sent, FetchInv, FetchTypeOK
<1>. HIDE DEF sent
<1>4. /\ req' \in [Requests -> [at : {"idle", "waiting", "minting", "sent"}, live : BOOLEAN]]
      /\ \A r \in Requests : req'[r].live /\ (req'[r].at = "minting" => req[r].at = "minting")
  BY <1>1, <1>3 DEF FetchInv, FetchTypeOK, SentUnexpired
<1>. QED
  BY <1>4 DEF FetchInv, FetchTypeOK, TokenOK, LockOK, MintedWhenStale, SentUnexpired

\* The lock is taken when it is free and the token stale.
LEMMA MintInv ==
  ASSUME FetchInv, NEW id, NeedsRefresh, holder = NoRequest, Mint(id),
         UNCHANGED <<provider, clock, mints, token, expires>>
  PROVE  FetchInv'
<1>1. \A r \in Requests : req[r].at # "minting"
  BY FetchAssumption DEF FetchInv, LockOK
<1>2. /\ req' \in [Requests -> [at : {"idle", "waiting", "minting", "sent"}, live : BOOLEAN]]
      /\ \A r \in Requests : req'[r].live /\ (req'[r].at = "minting" => r = id)
  BY <1>1 DEF Mint, FetchInv, FetchTypeOK, SentUnexpired
<1>3. provider = "oauth" /\ (token = 0 \/ clock + Buffer >= expires)
  BY DEF NeedsRefresh
<1>. QED
  BY <1>2, <1>3, FetchAssumption
  DEF Mint, FetchInv, FetchTypeOK, TokenOK, LockOK, MintedWhenStale, SentUnexpired

LEMMA BeginInv == ASSUME FetchInv, NEW id, Begin(id) PROVE FetchInv'
<1>1. CASE ~NeedsRefresh
  BY <1>1, SendInv DEF Begin
<1>2. CASE NeedsRefresh /\ holder = NoRequest
  BY <1>2, MintInv DEF Begin
<1>3. CASE NeedsRefresh /\ holder # NoRequest
  <2>1. /\ req' \in [Requests -> [at : {"idle", "waiting", "minting", "sent"}, live : BOOLEAN]]
        /\ \A r \in Requests : req'[r].live /\ (req'[r].at = "minting" => req[r].at = "minting")
    BY <1>3 DEF Begin, FetchInv, FetchTypeOK, SentUnexpired
  <2>. QED
    BY <1>3, <2>1
    DEF Begin, FetchInv, FetchTypeOK, TokenOK, LockOK, MintedWhenStale, SentUnexpired
<1>. QED
  BY <1>1, <1>2, <1>3

LEMMA AcquireInv == ASSUME FetchInv, NEW id, Acquire(id) PROVE FetchInv'
<1>1. CASE ~NeedsRefresh
  BY <1>1, SendInv DEF Acquire
<1>2. CASE NeedsRefresh
  BY <1>2, MintInv DEF Acquire
<1>. QED
  BY <1>1, <1>2

\* The new token was asked for when the one before was stale, and it has not
\* ended yet, since the source took less than the buffer.
LEMMA MintedInv == ASSUME FetchInv, NEW id \in Requests, Minted(id) PROVE FetchInv'
<1>1. PICK issued \in asked..clock :
        /\ mints' = Append(mints, [asked |-> asked, ends |-> issued + Lifetime,
                                   expires |-> clock + Lifetime])
        /\ req' = [req EXCEPT ![id] = Sent(issued + Lifetime)]
  BY DEF Minted
<1>2. /\ token' = Len(mints') /\ expires' = clock + Lifetime /\ holder' = NoRequest
      /\ UNCHANGED <<provider, clock, asked>>
  BY DEF Minted
<1>3. /\ provider = "oauth" /\ holder = id
      /\ clock <= asked + Latency
      /\ token = 0 \/ asked + Buffer >= expires
  BY FetchAssumption DEF Minted, FetchInv, LockOK
<1>4. issued \in Nat /\ clock < issued + Lifetime /\ clock <= issued + Latency
  BY <1>1, <1>3, FetchAssumption DEF FetchInv, FetchTypeOK
<1>. DEFINE new == [asked |-> asked, ends |-> issued + Lifetime, expires |-> clock + Lifetime]
<1>5. new \in Issued
  BY <1>4, FetchAssumption DEF Issued, FetchInv, FetchTypeOK
<1>6. /\ mints' \in Seq(Issued) /\ Len(mints') = Len(mints) + 1
      /\ \A n \in 1..Len(mints) : mints'[n] = mints[n]
      /\ mints'[Len(mints) + 1] = new
  BY <1>1, <1>5 DEF FetchInv, FetchTypeOK
<1>7. /\ req' \in [Requests -> [at : {"idle", "waiting", "minting", "sent"}, live : BOOLEAN]]
      /\ \A r \in Requests : req'[r].live /\ (req'[r].at = "minting" => r # id /\ req[r].at = "minting")
  BY <1>1, <1>3, <1>4 DEF Sent, FetchInv, FetchTypeOK, SentUnexpired
<1>8. \A r \in Requests : req'[r].at # "minting"
  BY <1>3, <1>7 DEF FetchInv, LockOK
<1>9. FetchTypeOK'
  BY <1>2, <1>6, <1>7, FetchAssumption DEF FetchInv, FetchTypeOK
<1>10. TokenOK' /\ LockOK'
  <2>1. mints'[token'].expires = expires'
    BY <1>2, <1>6
  <2>2. ASSUME NEW n \in 1..Len(mints') PROVE mints'[n].expires <= mints'[n].ends + Latency
    <3>1. CASE n <= Len(mints)
      BY <1>6, <3>1 DEF FetchInv, FetchTypeOK, TokenOK
    <3>2. CASE n = Len(mints) + 1
      BY <1>4, <1>6, <3>2, FetchAssumption DEF FetchInv, FetchTypeOK
    <3>. QED
      BY <1>6, <3>1, <3>2 DEF FetchInv, FetchTypeOK
  <2>. QED
    BY <1>2, <1>8, <2>1, <2>2 DEF TokenOK, LockOK
<1>11. MintedWhenStale'
  <2>. SUFFICES ASSUME NEW n \in 1..(Len(mints') - 1)
                PROVE mints'[n + 1].asked + Buffer >= mints'[n].expires
    BY DEF MintedWhenStale
  <2>1. CASE n < Len(mints)
    BY <1>6, <2>1 DEF FetchInv, FetchTypeOK, MintedWhenStale
  <2>2. CASE n = Len(mints)
    BY <1>3, <1>6, <2>2 DEF FetchInv, FetchTypeOK, TokenOK
  <2>. QED
    BY <1>6, <2>1, <2>2 DEF FetchInv, FetchTypeOK
<1>. QED
  BY <1>7, <1>9, <1>10, <1>11 DEF FetchInv, SentUnexpired

LEMMA OverInv == ASSUME FetchInv, NEW who, Over(who) PROVE FetchInv'
<1>1. /\ req' \in [Requests -> [at : {"idle", "waiting", "minting", "sent"}, live : BOOLEAN]]
      /\ \A r \in Requests : req'[r].live
                             /\ (req'[r].at = "minting" => r \notin who /\ req[r].at = "minting")
  BY DEF Over, Idle, FetchInv, FetchTypeOK, SentUnexpired
<1>. QED
  BY <1>1 DEF Over, FetchInv, FetchTypeOK, TokenOK, LockOK, MintedWhenStale, SentUnexpired

LEMMA TickInv == ASSUME FetchInv, Tick PROVE FetchInv'
  BY FetchAssumption
  DEF Tick, FetchInv, FetchTypeOK, TokenOK, LockOK, MintedWhenStale, SentUnexpired

LEMMA SameInv == ASSUME FetchInv, UNCHANGED fetch_vars PROVE FetchInv'
  BY DEF fetch_vars, FetchInv, FetchTypeOK, TokenOK, LockOK, MintedWhenStale, SentUnexpired

\* Every step of a sync is one of these to the fetcher.
LEMMA NextInv == FetchInv /\ [Next]_vars => FetchInv'
<1>. SUFFICES ASSUME FetchInv, [Next]_vars PROVE FetchInv'
  OBVIOUS
<1>1. CASE Start \/ AskTree \/ \E f \in queue : Fill(f)
  BY <1>1, BeginInv DEF Start, AskTree, Fill
<1>2. CASE Resolved \/ Listed \/ Abort
  BY <1>2, OverInv DEF Resolved, Listed, Abort
<1>3. CASE \E f \in Files : Arrive(f) \/ BlobFailed(f)
  BY <1>3, OverInv DEF Arrive, BlobFailed
<1>4. CASE \E id \in Requests : Acquire(id) \/ Minted(id)
  BY <1>4, AcquireInv, MintedInv
<1>5. CASE Tick
  BY <1>5, TickInv
<1>6. CASE Finish \/ (\E f \in Files : Push(f) \/ Refresh(f)) \/ UNCHANGED vars
  BY <1>6, SameInv DEF Finish, Push, Refresh, vars
<1>. QED
  BY <1>1, <1>2, <1>3, <1>4, <1>5, <1>6 DEF Next, SyncStep

LEMMA FetchInvariant == Spec => []FetchInv
<1>. QED
  BY InitFetch, NextInv, PTL DEF Spec

\* However many requests find the token stale at once, the source is asked
\* again only when the last token it issued is about to end: who waited for the
\* lock looks again (OAuthRefreshAuth::refresh).
THEOREM SingleFlight == Spec => []MintedWhenStale
<1>. FetchInv => MintedWhenStale
  BY DEF FetchInv
<1>. QED
  BY FetchInvariant, PTL

\* No request goes out with a token that has ended, as long as the source
\* answers faster than the buffer (needs_refresh, HttpFetcher::fetch).
THEOREM NeverExpired == Spec => []SentUnexpired
<1>. FetchInv => SentUnexpired
  BY DEF FetchInv
<1>. QED
  BY FetchInvariant, PTL

-----------------------------------------------------------------------------
(***************************************************************************)
(* What the index holds after a sync.                                      *)
(***************************************************************************)

Tags == {ShaTag(n) : n \in Nat} \cup {HttpTag(n) : n \in Nat}
Page == [file : Files, blob : Nat]

SyncTypeOK ==
  /\ {pushes, failed} \subseteq Nat
  /\ head \in [Files -> Nat]
  /\ held \in [Files -> [blob : Nat, tag : Tags]]
  /\ pending \in Seq(Page)
  /\ queue \subseteq Files
  /\ past \in [Files -> SUBSET Nat]
  /\ moved \subseteq Files

\* What the repository has, the listing and the tags of the index name is among
\* the contents a file has had, and those came with the pushes.
PastOK ==
  /\ \A f \in Files : \A n \in past[f] : n <= pushes + 1
  /\ \A f \in Files : head[f] # NoBlob => head[f] \in past[f]
  /\ \A f \in DOMAIN listing : f \in Files /\ listing[f] \in past[f]
  /\ \A f \in Files, n \in Nat : held[f].tag = ShaTag(n) => n \in past[f] \cup {NoBlob}

\* A page that may be in a batch: of a listed file, and of the listed content
\* unless the branch has moved past it and not come back, and of the content of
\* the repository as long as the file has not changed.
PageOK(page) ==
  LET f == page.file
  IN /\ f \in DOMAIN listing
     /\ f \notin returned /\ head[f] # NoBlob /\ listing[f] = head[f] => page.blob = head[f]
     /\ f \notin moved => page.blob = head[f] /\ listing[f] = head[f]

\* A SHA that is the entity tag of a file and its SHA in the repository names
\* the content held: content that came after the listing has moved the branch
\* past that SHA.  Where the branch came back, the SHA still names the content
\* if the entry was stored by a sync in which the file did not change.
TagsTrue ==
  /\ \A f \in Files :
       f \notin returned /\ held[f].blob # NoBlob /\ head[f] # NoBlob
       /\ held[f].tag = ShaTag(head[f]) =>
         held[f].blob = head[f]
  /\ \A f \in Files, n \in Nat :
       f \notin unsettled /\ held[f].blob # NoBlob /\ held[f].tag = ShaTag(n) => held[f].blob = n
  /\ \A i \in DOMAIN pending : PageOK(pending[i])
  /\ phase = "blobs" => \A f \in DOMAIN listing \ moved : listing[f] = head[f]

\* Files are in flight only while blobs are fetched, and only listed ones.
FlightOK ==
  /\ phase \in {"idle", "ref", "list", "tree", "blobs"}
  /\ phase # "blobs" => pending = <<>> /\ \A f \in Files : req[f].at = "idle"
  /\ queue \subseteq DOMAIN listing
  /\ \A f \in Files : req[f].at # "idle" => f \in DOMAIN listing
  /\ complete => phase = "idle"
  /\ phase # "idle" \/ complete => spec # <<>>

Wanted == {f \in Files : head[f] # NoBlob /\ Admit(Entry[f], spec[1].subdir, config.limits)}
Current(f) == head[f] \in Blank \/ held[f].blob = head[f] \/ f \in returned \cap unsettled
Under(f) == f \in queue \/ req[f].at # "idle" \/ \E i \in DOMAIN pending : pending[i].file = f

\* While the repository stands still, the listing is what it has, and each
\* listed file is on its way, failed, or current.
QuietOK ==
  /\ moved = {} /\ phase = "blobs" =>
       /\ DOMAIN listing = Wanted
       /\ \A f \in DOMAIN listing : listing[f] = head[f]
       /\ failed = 0 => \A f \in Wanted : Under(f) \/ Current(f)
  /\ moved = {} /\ complete /\ failed = 0 => \A f \in Wanted : Current(f)

SyncInv == SyncTypeOK /\ PastOK /\ TagsTrue /\ FlightOK /\ QuietOK

\* The spelling means what the caller meant.
Understood ==
  \A c \in Configs :
    Parse(c.spelling) # <<>> =>
      \A f \in c.meant : f \in Files /\ Admit(Entry[f], Parse(c.spelling)[1].subdir, c.limits)
-----------------------------------------------------------------------------

LEMMA FileIsRequest == \A f \in Files : f \in Requests /\ f \notin {"ref", "tree"}
  BY SyncAssumption

\* What the steps of the fetcher do to where requests stand.
LEMMA BeginReq ==
  ASSUME FetchInv, NEW id \in Requests, Begin(id)
  PROVE  /\ \A r \in Requests \ {id} : req'[r] = req[r]
         /\ req'[id].at # "idle"
<1>1. \/ req' = [req EXCEPT ![id] = Sent(IF token = 0 THEN 0 ELSE mints[token].ends)]
      \/ req' = [req EXCEPT ![id].at = "minting"]
      \/ req' = [req EXCEPT ![id].at = "waiting"]
  BY DEF Begin, Send, Mint
<1>2. DOMAIN req = Requests /\ req[id] \in [at : {"idle", "waiting", "minting", "sent"}, live : BOOLEAN]
  BY DEF FetchInv, FetchTypeOK
<1>. QED
  BY <1>1, <1>2 DEF Sent

LEMMA WaitReq ==
  ASSUME FetchInv, NEW id \in Requests, Acquire(id) \/ Minted(id)
  PROVE  \A r \in Requests : req'[r].at = "idle" <=> req[r].at = "idle"
<1>1. req[id].at # "idle"
  BY DEF Acquire, Minted
<1>2. \/ \E ends : req' = [req EXCEPT ![id] = Sent(ends)]
      \/ req' = [req EXCEPT ![id].at = "minting"]
  BY DEF Acquire, Minted, Send, Mint
<1>3. DOMAIN req = Requests /\ req[id] \in [at : {"idle", "waiting", "minting", "sent"}, live : BOOLEAN]
  BY DEF FetchInv, FetchTypeOK
<1>. QED
  BY <1>1, <1>2, <1>3 DEF Sent

LEMMA OverReq ==
  ASSUME NEW who, Over(who)
  PROVE  \A r \in Requests : IF r \in who THEN req'[r].at = "idle" ELSE req'[r] = req[r]
  BY DEF Over, Idle

LEMMA TagFacts ==
  /\ \A n, m : ShaTag(n) = ShaTag(m) => n = m
  /\ \A n, m : ShaTag(n) # HttpTag(m)
<1>1. ASSUME NEW n, NEW m, ShaTag(n) = ShaTag(m) PROVE n = m
  <2>1. ShaTag(n).sha = n /\ ShaTag(m).sha = m
    BY DEF ShaTag
  <2>. QED
    BY <1>1, <2>1
<1>2. ASSUME NEW n, NEW m PROVE ShaTag(n) # HttpTag(m)
  <2>1. DOMAIN ShaTag(n) = {"sha"} /\ DOMAIN HttpTag(m) = {"etag"}
    BY DEF ShaTag, HttpTag
  <2>. QED
    BY <2>1
<1>. QED
  BY <1>1, <1>2

LEMMA InitSync == Init => SyncInv
<1>. SUFFICES ASSUME Init PROVE SyncInv
  OBVIOUS
<1>1. SyncTypeOK
  BY DEF Init, SyncTypeOK, NotHeld, NoBlob, Tags
<1>2. PastOK
  BY TagFacts DEF Init, PastOK, NotHeld, NoBlob
<1>3. TagsTrue
  BY DEF Init, TagsTrue, NotHeld
<1>4. FlightOK
  BY FileIsRequest DEF Init, FetchInit, FlightOK, Idle
<1>5. QuietOK
  BY DEF Init, QuietOK
<1>. QED
  BY <1>1, <1>2, <1>3, <1>4, <1>5 DEF SyncInv
\* A step of the sync that stores nothing, keeps the repository as it is, and
\* starts no sync before the blobs: only requests other than for files.
LEMMA BeforeBlobs ==
  ASSUME SyncInv, phase # "blobs", phase' \in {"idle", "ref", "list", "tree"},
         \A f \in Files : req'[f].at = "idle",
         UNCHANGED <<config, spec, head, pushes, held, listing, pending, past, returned, unsettled>>,
         queue' \subseteq queue, failed' \in Nat, moved' \subseteq moved,
         phase' = "idle" => UNCHANGED <<moved, failed>> /\ complete' = complete,
         phase' # "idle" => ~complete' /\ spec # <<>>
  PROVE  SyncInv'
<1>1. pending = <<>>
  BY DEF SyncInv, FlightOK
<1>4. SyncTypeOK' /\ PastOK' /\ TagsTrue'
  BY <1>1 DEF SyncInv, SyncTypeOK, PastOK, TagsTrue
<1>2. FlightOK'
  BY DEF SyncInv, FlightOK
<1>3. QuietOK'
  BY DEF SyncInv, FlightOK, QuietOK, Wanted, Current
<1>. QED
  BY <1>4, <1>2, <1>3 DEF SyncInv

LEMMA StartSync == ASSUME FetchInv, SyncInv, Start PROVE SyncInv'
<1>1. phase' \in {"ref", "tree"} /\ phase' \in Requests /\ phase' \notin Files /\ Begin(phase')
  BY SyncAssumption DEF Start
<1>2. \A f \in Files : req'[f].at = "idle"
  BY <1>1, BeginReq, FileIsRequest DEF Start, SyncInv, FlightOK
<1>. QED
  BY <1>1, <1>2, BeforeBlobs DEF Start

LEMMA ResolvedSync == ASSUME FetchInv, SyncInv, Resolved PROVE SyncInv'
<1>1. \A f \in Files : req'[f].at = "idle"
  BY OverReq, FileIsRequest DEF Resolved, SyncInv, FlightOK
<1>. QED
  BY <1>1, BeforeBlobs DEF Resolved, SyncInv, FlightOK, SyncTypeOK, history

LEMMA AskTreeSync == ASSUME FetchInv, SyncInv, AskTree PROVE SyncInv'
<1>1. "tree" \in Requests /\ "tree" \notin Files
  BY SyncAssumption
<1>2. \A f \in Files : req'[f].at = "idle"
  BY <1>1, BeginReq, FileIsRequest DEF AskTree, SyncInv, FlightOK
<1>. QED
  BY <1>2, BeforeBlobs DEF AskTree, SyncInv, FlightOK, SyncTypeOK, history
\* What is known is current, the rest is queued.
LEMMA ListedSync == ASSUME FetchInv, SyncInv, Listed PROVE SyncInv'
<1>1. /\ phase = "tree" /\ phase' = "blobs"
      /\ listing' = [f \in Wanted |-> head[f]]
      /\ queue' = {f \in Wanted : ~Known(f)}
      /\ UNCHANGED <<config, spec, head, pushes, held, pending, failed, complete, past, moved,
                     returned, unsettled>>
  BY DEF Listed, Wanted, history
<1>2. pending = <<>> /\ ~complete /\ spec # <<>>
  BY <1>1 DEF SyncInv, FlightOK
<1>3. \A f \in Files : req'[f].at = "idle"
  BY <1>1, OverReq, FileIsRequest DEF Listed, SyncInv, FlightOK
<1>4. Wanted' = Wanted /\ Wanted \subseteq Files
  BY <1>1 DEF Wanted
<1>5. SyncTypeOK'
  BY <1>1, <1>4 DEF SyncInv, SyncTypeOK
<1>6. PastOK'
  BY <1>1, <1>4 DEF SyncInv, SyncTypeOK, PastOK, Wanted
<1>7. TagsTrue'
  BY <1>1, <1>2 DEF SyncInv, TagsTrue
<1>8. FlightOK'
  BY <1>1, <1>2, <1>3, <1>4 DEF FlightOK
<1>9. \A f \in Wanted : Known(f) => held[f].blob = head[f] \/ f \in returned \cap unsettled
  BY DEF Wanted, Known, SyncInv, SyncTypeOK, TagsTrue
<1>10. QuietOK'
  BY <1>1, <1>2, <1>4, <1>9 DEF QuietOK, Under, Current
<1>. QED
  BY <1>5, <1>6, <1>7, <1>8, <1>10 DEF SyncInv

LEMMA FillSync == ASSUME FetchInv, SyncInv, NEW f \in queue, Fill(f) PROVE SyncInv'
<1>1. /\ phase = "blobs" /\ queue' = queue \ {f} /\ f \in Files /\ f \in DOMAIN listing
      /\ UNCHANGED <<config, spec, head, pushes, held, phase, listing, pending, failed, complete,
                     past, moved, returned, unsettled>>
  BY DEF Fill, SyncInv, SyncTypeOK, FlightOK, history
<1>2. /\ \A g \in Files \ {f} : req'[g] = req[g]
      /\ req'[f].at # "idle"
  BY <1>1, BeginReq, FileIsRequest DEF Fill
<1>3. SyncTypeOK' /\ PastOK' /\ TagsTrue'
  BY <1>1 DEF SyncInv, SyncTypeOK, PastOK, TagsTrue, PageOK
<1>4. FlightOK'
  BY <1>1, <1>2 DEF SyncInv, FlightOK
<1>5. Wanted' = Wanted /\ Wanted \subseteq Files
  BY <1>1 DEF Wanted
<1>6. \A g \in Files : Under(g) => Under(g)'
  BY <1>1, <1>2 DEF Under
<1>7. QuietOK'
  BY <1>1, <1>5, <1>6 DEF SyncInv, QuietOK, Current
<1>. QED
  BY <1>3, <1>4, <1>7 DEF SyncInv

\* Requests that move on but do not end change nothing for the sync.
LEMMA WaitSync ==
  ASSUME SyncInv, UNCHANGED sync_vars,
         \A f \in Files : req'[f].at = "idle" <=> req[f].at = "idle"
  PROVE  SyncInv'
<1>1. SyncTypeOK' /\ PastOK' /\ TagsTrue' /\ FlightOK'
  BY DEF sync_vars, SyncInv, SyncTypeOK, PastOK, TagsTrue, PageOK, FlightOK
<1>2. Wanted' = Wanted /\ Wanted \subseteq Files
  BY DEF sync_vars, Wanted
<1>3. QuietOK'
  BY <1>2 DEF sync_vars, SyncInv, QuietOK, Under, Current
<1>. QED
  BY <1>1, <1>3 DEF SyncInv

BatchOK(batch) == batch \in Seq(Page) /\ \A i \in DOMAIN batch : PageOK(batch[i])

\* What the flush of a batch leaves in the index and in the history.
Flushed(batch) ==
  /\ held' = Stored(batch)
  /\ unsettled' = (unsettled \ FilesOf(batch)) \cup (FilesOf(batch) \cap moved)
  /\ UNCHANGED <<head, listing, pushes, past, moved, returned>>

\* A flush stores every page of the batch with the SHA listed, and nothing
\* else.
LEMMA FlushStores ==
  ASSUME NEW batch, BatchOK(batch), SyncInv, Flushed(batch)
  PROVE  /\ held' \in [Files -> [blob : Nat, tag : Tags]]
         /\ \A f \in Files :
              \/ /\ held'[f] = held[f] /\ (f \in unsettled' <=> f \in unsettled)
                 /\ \A i \in DOMAIN batch : batch[i].file # f
              \/ \E i \in DOMAIN batch :
                   /\ batch[i].file = f
                   /\ held'[f] = [blob |-> batch[i].blob, tag |-> ShaTag(listing[f])]
                   /\ f \in unsettled' <=> f \in moved
<1>1. ASSUME NEW f \in Files
      PROVE  \/ /\ held'[f] = held[f] /\ (f \in unsettled' <=> f \in unsettled)
                /\ \A i \in DOMAIN batch : batch[i].file # f
             \/ \E i \in DOMAIN batch :
                  /\ batch[i].file = f
                  /\ held'[f] = [blob |-> batch[i].blob, tag |-> ShaTag(listing[f])]
                  /\ f \in unsettled' <=> f \in moved
  <2>. DEFINE hits == {i \in DOMAIN batch : batch[i].file = f}
  <2>1. CASE hits = {}
    BY <2>1 DEF Flushed, Stored, FilesOf
  <2>2. CASE hits # {}
    <3>1. PICK i \in hits : held'[f] = [blob |-> batch[i].blob, tag |-> ShaTag(listing[f])]
      BY <2>2 DEF Flushed, Stored
    <3>2. f \in FilesOf(batch)
      BY <3>1 DEF FilesOf
    <3>. QED
      BY <3>1, <3>2 DEF Flushed
  <2>. QED
    BY <2>1, <2>2
<1>2. \A i \in DOMAIN batch : batch[i] \in Page
  BY DEF BatchOK
<1>3. \A f \in DOMAIN listing : ShaTag(listing[f]) \in Tags
  BY DEF SyncInv, SyncTypeOK, PastOK, Tags
<1>4. ASSUME NEW f \in Files PROVE held'[f] \in [blob : Nat, tag : Tags]
  <2>1. CASE held'[f] = held[f]
    BY <2>1 DEF SyncInv, SyncTypeOK
  <2>2. ASSUME NEW i \in DOMAIN batch, batch[i].file = f,
               held'[f] = [blob |-> batch[i].blob, tag |-> ShaTag(listing[f])]
        PROVE  held'[f] \in [blob : Nat, tag : Tags]
    <3>1. f \in DOMAIN listing /\ batch[i].blob \in Nat
      BY <1>2, <2>2 DEF BatchOK, PageOK, Page
    <3>. QED
      BY <1>3, <2>2, <3>1
  <2>. QED
    BY <1>1, <2>1, <2>2
<1>5. held' \in [Files -> [blob : Nat, tag : Tags]]
  BY <1>4 DEF Flushed, Stored
<1>. QED
  BY <1>1, <1>5

\* What a flush keeps of the invariant.
LEMMA FlushFacts ==
  ASSUME NEW batch, BatchOK(batch), SyncInv, Flushed(batch)
  PROVE  /\ \A f \in Files :
              f \notin returned /\ held'[f].blob # NoBlob /\ head[f] # NoBlob
              /\ held'[f].tag = ShaTag(head[f]) =>
                held'[f].blob = head[f]
         /\ \A f \in Files, n \in Nat :
              f \notin unsettled' /\ held'[f].blob # NoBlob /\ held'[f].tag = ShaTag(n) =>
                held'[f].blob = n
         /\ \A f \in Files, n \in Nat : held'[f].tag = ShaTag(n) => n \in past[f] \cup {NoBlob}
<1>1. ASSUME NEW f \in Files, f \notin returned, held'[f].blob # NoBlob, head[f] # NoBlob,
             held'[f].tag = ShaTag(head[f])
      PROVE  held'[f].blob = head[f]
  <2>1. CASE held'[f] = held[f]
    BY <1>1, <2>1 DEF SyncInv, TagsTrue
  <2>2. CASE held'[f] # held[f]
    <3>1. PICK i \in DOMAIN batch :
            batch[i].file = f /\ held'[f] = [blob |-> batch[i].blob, tag |-> ShaTag(listing[f])]
      BY <2>2, FlushStores
    <3>2. listing[f] = head[f]
      BY <1>1, <3>1, TagFacts
    <3>. QED
      BY <1>1, <3>1, <3>2 DEF BatchOK, PageOK
  <2>. QED
    BY <2>1, <2>2
<1>2. ASSUME NEW f \in Files, NEW n \in Nat, held'[f].tag = ShaTag(n)
      PROVE  /\ f \notin unsettled' /\ held'[f].blob # NoBlob => held'[f].blob = n
             /\ n \in past[f] \cup {NoBlob}
  <2>1. CASE held'[f] = held[f] /\ (f \in unsettled' <=> f \in unsettled)
    BY <1>2, <2>1 DEF SyncInv, PastOK, TagsTrue
  <2>2. CASE ~(held'[f] = held[f] /\ (f \in unsettled' <=> f \in unsettled))
    <3>1. PICK i \in DOMAIN batch :
            /\ batch[i].file = f
            /\ held'[f] = [blob |-> batch[i].blob, tag |-> ShaTag(listing[f])]
            /\ f \in unsettled' <=> f \in moved
      BY <2>2, FlushStores
    <3>2. listing[f] = n
      BY <1>2, <3>1, TagFacts
    <3>. QED
      BY <3>1, <3>2 DEF BatchOK, PageOK, SyncInv, PastOK
  <2>. QED
    BY <2>1, <2>2
<1>. QED
  BY <1>1, <1>2

\* And of its parts that speak of what is stored.
LEMMA FlushKeeps ==
  ASSUME NEW batch, BatchOK(batch), SyncInv, Flushed(batch), UNCHANGED <<failed, queue>>,
         pending' = <<>>, phase' = "blobs" => phase = "blobs"
  PROVE  SyncTypeOK' /\ PastOK' /\ TagsTrue'
<1>1. SyncTypeOK'
  <2>1. held' \in [Files -> [blob : Nat, tag : Tags]]
    BY FlushStores
  <2>2. pending' \in Seq(Page)
    OBVIOUS
  <2>. QED
    BY <2>1, <2>2 DEF Flushed, SyncInv, SyncTypeOK
<1>2. PastOK'
  BY FlushFacts DEF Flushed, SyncInv, PastOK
<1>3. TagsTrue'
  BY FlushFacts DEF Flushed, SyncInv, TagsTrue
<1>. QED
  BY <1>1, <1>2, <1>3

\* A file that has not changed is current with the batch.
LEMMA FlushedCurrent ==
  ASSUME NEW batch, BatchOK(batch), SyncInv, Flushed(batch), NEW f \in Files, f \notin moved,
         Current(f) \/ \E i \in DOMAIN batch : batch[i].file = f
  PROVE  Current(f)'
<1>1. CASE held'[f] = held[f] /\ (f \in unsettled' <=> f \in unsettled)
           /\ \A i \in DOMAIN batch : batch[i].file # f
  BY <1>1 DEF Current, Flushed
<1>2. CASE \E i \in DOMAIN batch :
             batch[i].file = f
             /\ held'[f] = [blob |-> batch[i].blob, tag |-> ShaTag(listing[f])]
  BY <1>2 DEF BatchOK, PageOK, Current, Flushed
<1>. QED
  BY <1>1, <1>2, FlushStores

LEMMA ArriveSync == ASSUME FetchInv, SyncInv, NEW f \in Files, Arrive(f) PROVE SyncInv'
<1>1. /\ phase = "blobs" /\ phase' = "blobs" /\ req[f].at # "idle" /\ head[f] # NoBlob
      /\ f \in DOMAIN listing /\ ~complete
      /\ UNCHANGED <<config, spec, head, pushes, listing, queue, failed, complete, past, moved,
                     returned>>
  BY DEF Arrive, Answerable, SyncInv, FlightOK
<1>2. \A g \in Files : IF g = f THEN req'[g].at = "idle" ELSE req'[g] = req[g]
  BY OverReq, FileIsRequest DEF Arrive
<1>3. Wanted' = Wanted /\ Wanted \subseteq Files
  BY <1>1 DEF Wanted
<1>. DEFINE page == [file |-> f, blob |-> head[f]]
            batch == Append(pending, page)
<1>4. BatchOK(pending) /\ page \in Page /\ PageOK(page)
  <2>1. BatchOK(pending) /\ page \in Page
    BY DEF BatchOK, SyncInv, SyncTypeOK, TagsTrue, Page
  <2>2. f \notin moved => listing[f] = head[f]
    BY <1>1 DEF SyncInv, TagsTrue
  <2>. QED
    BY <1>1, <2>1, <2>2 DEF PageOK
<1>5. /\ batch \in Seq(Page) /\ Len(batch) = Len(pending) + 1
      /\ \A i \in DOMAIN batch : (i \in DOMAIN pending /\ batch[i] = pending[i]) \/ batch[i] = page
      /\ \A i \in DOMAIN pending : i \in DOMAIN batch /\ batch[i] = pending[i]
      /\ Len(batch) \in DOMAIN batch /\ batch[Len(batch)] = page
  BY <1>4 DEF BatchOK
<1>6. BatchOK(batch)
  BY <1>1, <1>4, <1>5 DEF BatchOK
<1>. HIDE DEF page
<1>7. CASE held[f].blob = head[f] \/ head[f] \in Blank
  <2>1. UNCHANGED <<held, pending, unsettled>>
    BY <1>7 DEF Arrive
  <2>2. SyncTypeOK' /\ PastOK' /\ TagsTrue' /\ FlightOK'
    BY <1>1, <1>2, <2>1 DEF SyncInv, SyncTypeOK, PastOK, TagsTrue, PageOK, FlightOK
  <2>3. \A g \in Files : Under(g) \/ Current(g) => Under(g)' \/ Current(g)'
    BY <1>1, <1>2, <1>7, <2>1 DEF Under, Current
  <2>4. QuietOK'
    BY <1>1, <1>3, <2>3 DEF SyncInv, QuietOK
  <2>. QED
    BY <2>2, <2>4 DEF SyncInv
<1>8. CASE ~(held[f].blob = head[f] \/ head[f] \in Blank) /\ Len(batch) # Batch
  <2>1. pending' = batch /\ UNCHANGED <<held, unsettled>>
    BY <1>8 DEF Arrive, page
  <2>. HIDE DEF batch
  <2>2. SyncTypeOK' /\ PastOK' /\ TagsTrue'
    <3>1. SyncTypeOK' /\ PastOK'
      BY <1>1, <1>6, <2>1 DEF SyncInv, SyncTypeOK, PastOK, BatchOK
    <3>2. \A i \in DOMAIN pending' : PageOK(pending[i])'
      BY <1>1, <1>6, <2>1 DEF BatchOK, PageOK
    <3>. QED
      BY <1>1, <2>1, <3>1, <3>2 DEF SyncInv, TagsTrue
  <2>3. FlightOK'
    BY <1>1, <1>2 DEF SyncInv, FlightOK
  <2>4. \A g \in Files : Under(g) \/ Current(g) => Under(g)' \/ Current(g)'
    <3>1. Under(f)'
      BY <1>5, <2>1 DEF Under, page
    <3>2. \A g \in Files \ {f} : Under(g) => Under(g)'
      BY <1>1, <1>2, <1>5, <2>1 DEF Under
    <3>. QED
      BY <1>1, <2>1, <3>1, <3>2 DEF Current
  <2>5. QuietOK'
    BY <1>1, <1>3, <2>4 DEF SyncInv, QuietOK
  <2>. QED
    BY <2>2, <2>3, <2>5 DEF SyncInv
<1>9. CASE ~(held[f].blob = head[f] \/ head[f] \in Blank) /\ Len(batch) = Batch
  <2>1. Flushed(batch) /\ pending' = <<>>
    BY <1>1, <1>9 DEF Arrive, Flush, Flushed, page
  <2>. HIDE DEF batch
  <2>2. SyncTypeOK' /\ PastOK' /\ TagsTrue'
    BY <1>1, <1>6, <2>1, FlushKeeps
  <2>3. FlightOK'
    BY <1>1, <1>2 DEF SyncInv, FlightOK
  <2>4. ASSUME NEW g \in Files, moved = {}, g \in Wanted, Under(g) \/ Current(g)
        PROVE  Under(g)' \/ Current(g)'
    <3>2. CASE g \in queue \/ (g # f /\ req[g].at # "idle")
      BY <1>1, <1>2, <3>2 DEF Under
    <3>3. CASE ~(g \in queue \/ (g # f /\ req[g].at # "idle"))
      <4>1. Current(g) \/ \E i \in DOMAIN batch : batch[i].file = g
        <5>1. CASE g = f
          <6>1. page.file = f
            BY DEF page
          <6>. QED
            BY <1>5, <5>1, <6>1
        <5>2. CASE \E i \in DOMAIN pending : pending[i].file = g
          BY <1>5, <5>2
        <5>3. CASE Current(g)
          BY <5>3
        <5>4. CASE Under(g)
          <6>1. g = f \/ (\E i \in DOMAIN pending : pending[i].file = g)
            BY <3>3, <5>4 DEF Under
          <6>. QED
            BY <5>1, <5>2, <6>1
        <5>. QED
          BY <2>4, <5>3, <5>4
      <4>. QED
        BY <1>6, <2>1, <2>4, <4>1, FlushedCurrent
    <3>. QED
      BY <3>2, <3>3
  <2>5. QuietOK'
    BY <1>1, <1>3, <2>4 DEF SyncInv, QuietOK
  <2>. QED
    BY <2>2, <2>3, <2>5 DEF SyncInv
<1>. QED
  BY <1>7, <1>8, <1>9
LEMMA BlobFailedSync == ASSUME FetchInv, SyncInv, NEW f \in Files, BlobFailed(f) PROVE SyncInv'
<1>1. /\ phase = "blobs" /\ failed' = failed + 1
      /\ UNCHANGED <<config, spec, head, pushes, held, phase, listing, queue, pending, complete,
                     past, moved, returned, unsettled>>
  BY DEF BlobFailed, history
<1>2. \A g \in Files : IF g = f THEN req'[g].at = "idle" ELSE req'[g] = req[g]
  BY OverReq, FileIsRequest DEF BlobFailed
<1>3. SyncTypeOK' /\ PastOK' /\ TagsTrue' /\ failed' # 0
  <2>1. failed \in Nat
    BY DEF SyncInv, SyncTypeOK
  <2>2. failed' \in Nat /\ failed' # 0
    BY <1>1, <2>1
  <2>. QED
    BY <1>1, <2>2 DEF SyncInv, SyncTypeOK, PastOK, TagsTrue, PageOK
<1>4. FlightOK'
  BY <1>1, <1>2 DEF SyncInv, FlightOK
<1>5. Wanted' = Wanted
  BY <1>1 DEF Wanted
<1>6. QuietOK'
  BY <1>1, <1>3, <1>4, <1>5 DEF SyncInv, QuietOK, FlightOK
<1>. QED
  BY <1>3, <1>4, <1>6 DEF SyncInv

\* Nothing is on its way any more: the last batch makes the rest current.
LEMMA FinishSync == ASSUME SyncInv, Finish PROVE SyncInv'
<1>1. /\ phase = "blobs" /\ phase' = "idle" /\ complete' = TRUE /\ pending' = <<>>
      /\ queue = {} /\ Flushed(pending)
      /\ \A f \in Files : req[f].at = "idle"
      /\ UNCHANGED <<req, config, spec, head, pushes, listing, queue, failed, moved>>
  BY DEF Finish, Flush, Flushed, InFlight, fetch_vars
<1>2. BatchOK(pending)
  BY DEF BatchOK, SyncInv, SyncTypeOK, TagsTrue
<1>4. SyncTypeOK' /\ PastOK' /\ TagsTrue'
  BY <1>1, <1>2, FlushKeeps
<1>5. FlightOK'
  BY <1>1 DEF SyncInv, FlightOK
<1>6. Wanted' = Wanted /\ Wanted \subseteq Files
  BY <1>1 DEF Wanted
<1>7. ASSUME moved = {}, failed = 0, NEW f \in Wanted PROVE Current(f)'
  <2>1. Under(f) \/ Current(f)
    BY <1>1, <1>7 DEF SyncInv, QuietOK
  <2>2. Current(f) \/ \E i \in DOMAIN pending : pending[i].file = f
    BY <1>1, <1>6, <2>1 DEF Under
  <2>. QED
    BY <1>1, <1>2, <1>6, <1>7, <2>2, FlushedCurrent
<1>8. QuietOK'
  BY <1>1, <1>6, <1>7 DEF QuietOK
<1>. QED
  BY <1>4, <1>5, <1>8 DEF SyncInv

LEMMA AbortSync == ASSUME FetchInv, SyncInv, Abort PROVE SyncInv'
<1>1. \A f \in Files : req'[f].at = "idle"
  BY OverReq, FileIsRequest DEF Abort
<1>2. /\ phase # "idle" /\ phase' = "idle" /\ queue' = {} /\ pending' = <<>>
      /\ UNCHANGED <<config, spec, head, pushes, held, listing, failed, complete, past, moved,
                     returned, unsettled>>
  BY DEF Abort, history
<1>3. SyncTypeOK' /\ PastOK' /\ TagsTrue'
  BY <1>2 DEF SyncInv, SyncTypeOK, PastOK, TagsTrue
<1>4. FlightOK' /\ QuietOK'
  BY <1>1, <1>2 DEF SyncInv, FlightOK, QuietOK
<1>. QED
  BY <1>3, <1>4 DEF SyncInv

\* A push brings a content that no tag and no listing has, or returns the file
\* to one it had.
LEMMA PushSync == ASSUME SyncInv, NEW f \in Files, Push(f) PROVE SyncInv'
<1>1. PICK blob \in {NoBlob, pushes + 2} \cup past[f] :
        /\ head' = [head EXCEPT ![f] = blob]
        /\ past' = [past EXCEPT ![f] = @ \cup ({blob} \ {NoBlob})]
        /\ returned' = IF blob \in past[f] THEN returned \cup {f} ELSE returned \ {f}
  BY DEF Push
<1>2. /\ pushes' = pushes + 1 /\ moved' = moved \cup {f}
      /\ UNCHANGED <<req, config, spec, held, phase, listing, queue, pending, failed, complete,
                     unsettled>>
  BY DEF Push, fetch_vars
<1>3. pushes \in Nat /\ past[f] \in SUBSET Nat /\ blob \in Nat
  BY <1>1 DEF SyncInv, SyncTypeOK, NoBlob
<1>4. SyncTypeOK'
  BY <1>1, <1>2, <1>3 DEF SyncInv, SyncTypeOK
<1>5. /\ \A g \in Files \ {f} :
           /\ head'[g] = head[g] /\ past'[g] = past[g]
           /\ g \in returned' <=> g \in returned
           /\ g \in moved' <=> g \in moved
      /\ head'[f] = blob /\ past'[f] = past[f] \cup ({blob} \ {NoBlob}) /\ f \in moved'
  BY <1>1, <1>2 DEF SyncInv, SyncTypeOK
<1>6. PastOK'
  <2>1. \A g \in Files : past[g] \subseteq past'[g]
    BY <1>5
  <2>2. \A n \in past[f] : n <= pushes + 1
    BY DEF SyncInv, PastOK
  <2>3. \A n \in past'[f] : n <= pushes + 2
    BY <1>1, <1>3, <1>5, <2>2 DEF NoBlob
  <2>4. \A g \in Files : \A n \in past'[g] : n <= pushes' + 1
    <3>1. \A g \in Files \ {f} : \A n \in past[g] : n \in Nat /\ n <= pushes + 1
      BY DEF SyncInv, PastOK, SyncTypeOK
    <3>2. \A g \in Files \ {f} : \A n \in past'[g] : n <= pushes' + 1
      BY <1>2, <1>3, <1>5, <3>1
    <3>. QED
      BY <1>2, <1>3, <2>3, <3>2
  <2>5. \A g \in Files : head'[g] # NoBlob => head'[g] \in past'[g]
    BY <1>5 DEF SyncInv, PastOK
  <2>. QED
    BY <1>2, <2>1, <2>4, <2>5 DEF SyncInv, PastOK
<1>7. ASSUME f \notin returned', blob # NoBlob
      PROVE  /\ held[f].tag # ShaTag(blob)
             /\ f \in DOMAIN listing => listing[f] # blob
  <2>1. blob \notin past[f]
    BY <1>1, <1>7
  <2>. QED
    BY <1>3, <1>7, <2>1 DEF SyncInv, PastOK
<1>8. TagsTrue'
  <2>1. ASSUME NEW g \in Files, g \notin returned', held[g].blob # NoBlob, head'[g] # NoBlob,
               held[g].tag = ShaTag(head'[g])
        PROVE  held[g].blob = head'[g]
    <3>1. g # f
      BY <1>5, <1>7, <2>1
    <3>. QED
      BY <1>5, <2>1, <3>1 DEF SyncInv, TagsTrue
  <2>2. ASSUME NEW i \in DOMAIN pending PROVE PageOK(pending[i])'
    <3>. DEFINE g == pending[i].file
    <3>1. PageOK(pending[i]) /\ g \in DOMAIN listing /\ g \in Files
      BY DEF SyncInv, TagsTrue, PageOK, PastOK
    <3>2. CASE g = f
      BY <1>2, <1>5, <1>7, <3>1, <3>2 DEF PageOK
    <3>3. CASE g # f
      BY <1>2, <1>5, <3>1, <3>3 DEF PageOK
    <3>. QED
      BY <3>2, <3>3
  <2>3. phase = "blobs" => \A g \in DOMAIN listing \ moved' : listing[g] = head'[g]
    BY <1>5 DEF SyncInv, TagsTrue, PastOK
  <2>. QED
    BY <1>2, <2>1, <2>2, <2>3 DEF SyncInv, TagsTrue
<1>9. FlightOK'
  BY <1>2 DEF SyncInv, FlightOK
<1>10. QuietOK'
  BY <1>5 DEF QuietOK
<1>. QED
  BY <1>4, <1>6, <1>8, <1>9, <1>10 DEF SyncInv

\* A refresh stores what the repository has, under a tag that is no SHA.
LEMMA RefreshSync == ASSUME SyncInv, NEW f \in Files, Refresh(f) PROVE SyncInv'
<1>1. /\ phase = "idle"
      /\ held' = [held EXCEPT ![f] = [blob |-> head[f], tag |-> HttpTag(head[f])]]
      /\ unsettled' = unsettled \ {f}
      /\ UNCHANGED <<req, config, spec, head, pushes, phase, listing, queue, pending, failed,
                     complete, past, moved, returned>>
  BY DEF Refresh, fetch_vars
<1>2. head[f] \in Nat /\ HttpTag(head[f]) \in Tags
  BY DEF SyncInv, SyncTypeOK, Tags
<1>3. SyncTypeOK'
  BY <1>1, <1>2 DEF SyncInv, SyncTypeOK
<1>4. /\ \A g \in Files \ {f} : held'[g] = held[g]
      /\ held'[f].blob = head[f]
      /\ \A n : held'[f].tag # ShaTag(n)
  BY <1>1, TagFacts DEF SyncInv, SyncTypeOK
<1>5. PastOK' /\ TagsTrue'
  BY <1>1, <1>4 DEF SyncInv, PastOK, TagsTrue, PageOK
<1>6. Wanted' = Wanted /\ Wanted \subseteq Files
  BY <1>1 DEF Wanted
<1>7. FlightOK' /\ QuietOK'
  BY <1>1, <1>4, <1>6 DEF SyncInv, FlightOK, QuietOK, Current
<1>. QED
  BY <1>3, <1>5, <1>7 DEF SyncInv

LEMMA NextSync == FetchInv /\ SyncInv /\ [Next]_vars => SyncInv'
<1>. SUFFICES ASSUME FetchInv, SyncInv, [Next]_vars PROVE SyncInv'
  OBVIOUS
<1>1. CASE Start \/ Resolved \/ AskTree \/ Listed
  BY <1>1, StartSync, ResolvedSync, AskTreeSync, ListedSync
<1>2. CASE \E f \in queue : Fill(f)
  BY <1>2, FillSync
<1>3. CASE \E f \in Files : Arrive(f) \/ BlobFailed(f)
  BY <1>3, ArriveSync, BlobFailedSync
<1>4. CASE Finish \/ Abort
  BY <1>4, FinishSync, AbortSync
<1>5. CASE \E id \in Requests : (Acquire(id) \/ Minted(id)) /\ Wait
  BY <1>5, WaitReq, WaitSync, FileIsRequest DEF Wait
<1>6. CASE Tick /\ Wait
  BY <1>6, WaitSync DEF Wait, Tick
<1>7. CASE \E f \in Files : Push(f) \/ Refresh(f)
  BY <1>7, PushSync, RefreshSync
<1>8. CASE UNCHANGED vars
  BY <1>8, WaitSync DEF vars, fetch_vars
<1>. QED
  BY <1>1, <1>2, <1>3, <1>4, <1>5, <1>6, <1>7, <1>8 DEF Next, SyncStep

\* The spelling is parsed once.
SpecOK == config \in Configs /\ spec = Parse(config.spelling)

LEMMA SpecKept == SpecOK /\ [Next]_vars => SpecOK'
<1>. SUFFICES ASSUME [Next]_vars PROVE UNCHANGED <<config, spec>>
  BY DEF SpecOK
<1>. QED
  BY DEF Next, SyncStep, vars, sync_vars, Wait, Start, Resolved, AskTree, Listed, Fill, Arrive,
     BlobFailed, Finish, Abort, Push, Refresh

\* A sync that ran to its end without a failure, while the repository stood
\* still, leaves the repository's content of every file meant in the index,
\* after any history of pushes, reverts among them, and of syncs and refreshes,
\* broken off or not; but for a file that was put back to a content it had
\* before, and whose entry came in a sync in which it changed.  The spelling is
\* assumed to admit the files its author meant (discover, ingest_from).
THEOREM SyncedIsCurrent == ASSUME Understood PROVE Spec => []HeldIsCurrent
<1>1. Init => FetchInv /\ SyncInv /\ SpecOK
  BY InitFetch, InitSync DEF Init, SpecOK
<1>2. FetchInv /\ SyncInv /\ SpecOK /\ [Next]_vars => (FetchInv /\ SyncInv /\ SpecOK)'
  BY NextInv, NextSync, SpecKept
<1>3. SyncInv /\ SpecOK => HeldIsCurrent
  <2>. SUFFICES ASSUME SyncInv, SpecOK, complete, moved = {}, failed = 0,
                       NEW f \in config.meant, head[f] \notin Blank \cup {NoBlob}
                PROVE  held[f].blob = head[f] \/ f \in returned \cap unsettled
    BY DEF HeldIsCurrent, Settled, Indexable
  <2>1. f \in Wanted
    BY DEF Understood, SpecOK, SyncInv, FlightOK, Wanted
  <2>. QED
    BY <2>1 DEF SyncInv, QuietOK, Current
<1>. QED
  BY <1>1, <1>2, <1>3, PTL DEF Spec

-----------------------------------------------------------------------------
(***************************************************************************)
(* What a sync reports.                                                    *)
(***************************************************************************)

OneByOne(batch) == \A i, j \in DOMAIN batch : batch[i].file = batch[j].file => i = j
Reported == {f \in Files : told[f] # 0}

\* Where a listed file is that has not failed.
Present == queue \cup InFlight \cup FilesOf(pending) \cup Reported

\* It is in one place at a time.
Apart ==
  /\ queue \cap InFlight = {} /\ queue \cap FilesOf(pending) = {} /\ queue \cap Reported = {}
  /\ InFlight \cap FilesOf(pending) = {} /\ InFlight \cap Reported = {}
  /\ FilesOf(pending) \cap Reported = {}
  /\ OneByOne(pending)

Meant == {f \in Files : Admit(Entry[f], spec[1].subdir, config.limits)}

CountInv ==
  /\ told \in [Files -> {0, 1}]
  /\ Cardinality(InFlight) <= Concurrency
  /\ phase \in {"ref", "list", "tree"} => failed = 0
  /\ phase = "blobs" =>
       /\ Apart
       /\ Present \subseteq DOMAIN listing
       /\ Cardinality(Present) + failed = Cardinality(DOMAIN listing)
  /\ complete =>
       /\ Reported \subseteq DOMAIN listing
       /\ Cardinality(Reported) + failed = Cardinality(DOMAIN listing)
  /\ phase = "blobs" \/ complete =>
       /\ DOMAIN listing \subseteq Meant
       /\ moved = {} => DOMAIN listing = Wanted

\* The spelling means exactly the files the caller meant.
UnderstoodExactly ==
  \A c \in Configs :
    Parse(c.spelling) # <<>> =>
      c.meant = {f \in Files : Admit(Entry[f], Parse(c.spelling)[1].subdir, c.limits)}
-----------------------------------------------------------------------------

LEMMA FewFiles == \A S \in SUBSET Files : IsFiniteSet(S) /\ Cardinality(S) \in Nat
  BY SyncAssumption, FS_Subset, FS_CardinalityType

LEMMA NoneInFlight ==
  ASSUME \A f \in Files : req[f].at = "idle"
  PROVE  InFlight = {} /\ Cardinality(InFlight) <= Concurrency
  BY SyncAssumption, FS_EmptySet DEF InFlight

LEMMA InitCount == Init => CountInv
<1>. SUFFICES ASSUME Init PROVE CountInv
  OBVIOUS
<1>1. \A f \in Files : req[f].at = "idle"
  BY FileIsRequest DEF Init, FetchInit, Idle
<1>. QED
  BY <1>1, NoneInFlight DEF Init, CountInv

\* A step outside the fetching of blobs that reports nothing.
LEMMA QuietCount ==
  ASSUME CountInv, UNCHANGED <<told, listing, config, spec>>,
         (\A f \in Files : req'[f].at = "idle"),
         phase' # "blobs", phase' \in {"ref", "list", "tree"} => failed' = 0,
         complete' => complete /\ UNCHANGED failed /\ (moved' = {} => moved = {} /\ UNCHANGED head)
  PROVE  CountInv'
<1>1. (Cardinality(InFlight) <= Concurrency)'
  <2>1. InFlight' = {}
    BY DEF InFlight
  <2>. QED
    BY <2>1, SyncAssumption, FS_EmptySet
<1>2. Reported' = Reported /\ Meant' = Meant
  BY DEF Reported, Meant
<1>3. complete' /\ moved' = {} => Wanted' = Wanted
  BY DEF Wanted
<1>. QED
  BY <1>1, <1>2, <1>3 DEF CountInv

LEMMA StartCount == ASSUME FetchInv, SyncInv, CountInv, Start PROVE CountInv'
<1>1. phase' \in {"ref", "tree"} /\ phase' \in Requests /\ phase' \notin Files /\ Begin(phase')
  BY SyncAssumption DEF Start
<1>2. \A f \in Files : req'[f].at = "idle"
  BY <1>1, BeginReq, FileIsRequest DEF Start, SyncInv, FlightOK
<1>3. InFlight' = {}
  BY <1>2 DEF InFlight
<1>. QED
  BY <1>1, <1>3, SyncAssumption, FS_EmptySet DEF Start, CountInv

LEMMA ResolvedCount == ASSUME FetchInv, SyncInv, CountInv, Resolved PROVE CountInv'
<1>1. \A f \in Files : req'[f].at = "idle"
  BY OverReq, FileIsRequest DEF Resolved, SyncInv, FlightOK
<1>2. ~complete
  BY DEF Resolved, SyncInv, FlightOK
<1>. QED
  BY <1>1, <1>2, QuietCount DEF Resolved, CountInv, history

LEMMA AskTreeCount == ASSUME FetchInv, SyncInv, CountInv, AskTree PROVE CountInv'
<1>1. "tree" \in Requests /\ "tree" \notin Files
  BY SyncAssumption
<1>2. \A f \in Files : req'[f].at = "idle"
  BY <1>1, BeginReq, FileIsRequest DEF AskTree, SyncInv, FlightOK
<1>3. ~complete
  BY DEF AskTree, SyncInv, FlightOK
<1>. QED
  BY <1>2, <1>3, QuietCount DEF AskTree, CountInv, history

\* What is known is reported, the rest queued: nothing has failed.
LEMMA ListedCount == ASSUME FetchInv, SyncInv, CountInv, Listed PROVE CountInv'
<1>1. /\ phase = "tree" /\ phase' = "blobs"
      /\ listing' = [f \in Wanted |-> head[f]]
      /\ queue' = {f \in Wanted : ~Known(f)}
      /\ told' = [f \in Files |-> IF f \in Wanted /\ Known(f) THEN 1 ELSE 0]
      /\ UNCHANGED <<config, spec, head, pending, failed, moved, complete>>
  BY DEF Listed, Wanted, history
<1>2. pending = <<>> /\ ~complete /\ failed = 0
  BY <1>1 DEF SyncInv, FlightOK, CountInv
<1>3. InFlight' = {}
  <2>1. \A f \in Files : req'[f].at = "idle"
    BY <1>1, OverReq, FileIsRequest DEF Listed, SyncInv, FlightOK
  <2>. QED
    BY <2>1 DEF InFlight
<1>4. Wanted' = Wanted /\ Wanted \subseteq Files /\ Wanted \subseteq Meant /\ Meant' = Meant
  BY <1>1 DEF Wanted, Meant
<1>5. Reported' = {f \in Wanted : Known(f)} /\ FilesOf(pending)' = {}
  BY <1>1, <1>2, <1>4 DEF Reported, FilesOf
<1>6. Present' = Wanted /\ DOMAIN listing' = Wanted
  BY <1>1, <1>3, <1>5 DEF Present
<1>7. Apart'
  BY <1>1, <1>2, <1>3, <1>5 DEF Apart, OneByOne
<1>8. Cardinality(Present') + failed' = Cardinality(DOMAIN listing')
  BY <1>1, <1>2, <1>4, <1>6, FewFiles
<1>9. told' \in [Files -> {0, 1}]
  BY <1>1
<1>10. Cardinality(InFlight') <= Concurrency
  BY <1>3, SyncAssumption, FS_EmptySet
<1>. QED
  BY <1>1, <1>2, <1>4, <1>6, <1>7, <1>8, <1>9, <1>10 DEF CountInv

\* The queue hands a file to a request while there is room for one.
LEMMA FillCount == ASSUME FetchInv, SyncInv, CountInv, NEW f \in queue, Fill(f) PROVE CountInv'
<1>1. /\ phase = "blobs" /\ queue' = queue \ {f} /\ f \in Files /\ ~complete
      /\ Cardinality(InFlight) < Concurrency
      /\ UNCHANGED <<config, spec, head, phase, listing, pending, told, failed, moved, complete>>
  BY DEF Fill, CanFill, SyncInv, SyncTypeOK, FlightOK, history
<1>2. InFlight' = InFlight \cup {f}
  <2>1. (\A g \in Files \ {f} : req'[g] = req[g]) /\ req'[f].at # "idle"
    BY <1>1, BeginReq, FileIsRequest DEF Fill
  <2>. QED
    BY <1>1, <2>1 DEF InFlight
<1>3. Cardinality(InFlight') <= Concurrency
  <2>1. InFlight \in SUBSET Files
    BY DEF InFlight
  <2>2. IsFiniteSet(InFlight) /\ Cardinality(InFlight) \in Nat
    BY <2>1, FewFiles
  <2>3. Cardinality(InFlight') <= Cardinality(InFlight) + 1
    BY <1>2, <2>2, FS_AddElement
  <2>4. Cardinality(InFlight') \in Nat
    BY <1>2, <2>2, FS_AddElement
  <2>. QED
    BY <1>1, <2>2, <2>3, <2>4, SyncAssumption
<1>4. Reported' = Reported /\ FilesOf(pending)' = FilesOf(pending) /\ Meant' = Meant /\ Wanted' = Wanted
  BY <1>1 DEF Reported, FilesOf, Meant, Wanted
<1>5. Present' = Present
  BY <1>1, <1>2, <1>4 DEF Present
<1>6. Apart'
  BY <1>1, <1>2, <1>4 DEF CountInv, Apart, OneByOne
<1>. QED
  BY <1>1, <1>3, <1>4, <1>5, <1>6 DEF CountInv

\* A request that moves on but does not end.
LEMMA WaitCount ==
  ASSUME CountInv, UNCHANGED sync_vars,
         \A f \in Files : req'[f].at = "idle" <=> req[f].at = "idle"
  PROVE  CountInv'
<1>1. InFlight' = InFlight
  BY DEF InFlight
<1>2. Reported' = Reported /\ FilesOf(pending)' = FilesOf(pending) /\ Meant' = Meant /\ Wanted' = Wanted
  BY DEF sync_vars, Reported, FilesOf, Meant, Wanted
<1>3. Present' = Present /\ Apart' = Apart
  BY <1>1, <1>2 DEF sync_vars, Present, Apart, OneByOne
<1>. QED
  BY <1>1, <1>2, <1>3 DEF sync_vars, CountInv

\* A flush reports each file of the batch, once.
LEMMA FlushTold ==
  ASSUME NEW batch \in Seq(Page), OneByOne(batch), told \in [Files -> {0, 1}],
         FilesOf(batch) \cap Reported = {},
         told' = [f \in Files |-> told[f] + Cardinality({i \in DOMAIN batch : batch[i].file = f})]
  PROVE  told' \in [Files -> {0, 1}] /\ Reported' = Reported \cup FilesOf(batch)
<1>1. ASSUME NEW f \in Files
      PROVE  told'[f] = IF f \in FilesOf(batch) THEN 1 ELSE told[f]
  <2>. DEFINE hits == {i \in DOMAIN batch : batch[i].file = f}
  <2>1. told'[f] = told[f] + Cardinality(hits)
    OBVIOUS
  <2>2. CASE f \in FilesOf(batch)
    <3>1. PICK i \in DOMAIN batch : batch[i].file = f
      BY <2>2 DEF FilesOf
    <3>2. hits = {i}
      BY <3>1 DEF OneByOne
    <3>3. told[f] = 0
      BY <2>2 DEF Reported
    <3>4. Cardinality(hits) = 1
      BY <3>2, FS_Singleton
    <3>. HIDE DEF hits
    <3>. QED
      BY <2>1, <2>2, <3>3, <3>4
  <2>3. CASE f \notin FilesOf(batch)
    <3>1. hits = {}
      BY <2>3 DEF FilesOf
    <3>2. Cardinality(hits) = 0
      BY <3>1, FS_EmptySet
    <3>. QED
      BY <2>1, <2>3, <3>2
  <2>. QED
    BY <2>2, <2>3
<1>2. \A i \in DOMAIN batch : batch[i] \in Page
  OBVIOUS
<1>3. FilesOf(batch) \subseteq Files
  BY <1>2 DEF FilesOf, Page
<1>4. told' \in [Files -> {0, 1}]
  BY <1>1
<1>5. Reported' = Reported \cup FilesOf(batch)
  BY <1>1, <1>3 DEF Reported
<1>. QED
  BY <1>4, <1>5

\* A request that is answered leaves the flight.
LEMMA Landed ==
  ASSUME CountInv, NEW f \in Files, Over({f})
  PROVE  InFlight' = InFlight \ {f} /\ Cardinality(InFlight') <= Concurrency
<1>1. InFlight' = InFlight \ {f}
  BY OverReq, FileIsRequest DEF InFlight
<1>2. InFlight \in SUBSET Files
  BY DEF InFlight
<1>3. /\ IsFiniteSet(InFlight) /\ InFlight' \in SUBSET InFlight /\ InFlight' \in SUBSET Files
      /\ Cardinality(InFlight) \in Nat
  BY <1>1, <1>2, FewFiles
<1>4. Cardinality(InFlight') <= Cardinality(InFlight) /\ Cardinality(InFlight') \in Nat
  BY <1>3, FewFiles, FS_Subset
<1>. QED
  BY <1>1, <1>3, <1>4, SyncAssumption DEF CountInv

\* A blob that arrives is reported at once, joins the batch, or is reported
\* with the batch it fills.
LEMMA ArriveCount == ASSUME FetchInv, SyncInv, CountInv, NEW f \in Files, Arrive(f) PROVE CountInv'
<1>1. /\ phase = "blobs" /\ phase' = "blobs" /\ f \in InFlight /\ ~complete /\ Over({f})
      /\ UNCHANGED <<config, spec, head, listing, queue, failed, moved, complete>>
  BY DEF Arrive, Answerable, InFlight, SyncInv, FlightOK
<1>2. InFlight' = InFlight \ {f} /\ Cardinality(InFlight') <= Concurrency
  BY <1>1, Landed
<1>3. Meant' = Meant /\ Wanted' = Wanted
  BY <1>1 DEF Meant, Wanted
<1>4. Apart /\ told \in [Files -> {0, 1}] /\ pending \in Seq(Page)
  BY <1>1 DEF CountInv, SyncInv, SyncTypeOK
<1>. DEFINE page == [file |-> f, blob |-> head[f]]
            batch == Append(pending, page)
<1>5. page \in Page /\ page.file = f
  BY DEF SyncInv, SyncTypeOK, Page
<1>6. /\ batch \in Seq(Page) /\ DOMAIN batch = DOMAIN pending \cup {Len(pending) + 1}
      /\ Len(pending) + 1 \notin DOMAIN pending
      /\ \A i \in DOMAIN pending : batch[i] = pending[i]
      /\ batch[Len(pending) + 1] = page
  BY <1>4, <1>5
<1>. HIDE DEF page, batch
<1>7. FilesOf(batch) = FilesOf(pending) \cup {f}
  BY <1>5, <1>6 DEF FilesOf
<1>8. OneByOne(batch)
  <2>1. \A i \in DOMAIN pending : pending[i].file # f
    BY <1>1, <1>4 DEF Apart, FilesOf
  <2>. QED
    BY <1>4, <1>5, <1>6, <2>1 DEF Apart, OneByOne
<1>9. CASE told' = [told EXCEPT ![f] = @ + 1] /\ UNCHANGED pending
  <2>1. told[f] = 0
    BY <1>1, <1>4 DEF Apart, Reported
  <2>2. told' \in [Files -> {0, 1}] /\ Reported' = Reported \cup {f}
    BY <1>4, <1>9, <2>1 DEF Reported
  <2>3. FilesOf(pending)' = FilesOf(pending)
    BY <1>9 DEF FilesOf
  <2>4. Present' = Present
    BY <1>1, <1>2, <2>2, <2>3 DEF Present
  <2>5. Apart'
    BY <1>1, <1>2, <1>4, <1>9, <2>2, <2>3 DEF Apart, OneByOne
  <2>. QED
    BY <1>1, <1>2, <1>3, <2>2, <2>4, <2>5 DEF CountInv
<1>10. CASE pending' = batch /\ UNCHANGED told
  <2>1. Reported' = Reported /\ FilesOf(pending)' = FilesOf(pending) \cup {f}
    BY <1>7, <1>10 DEF Reported, FilesOf
  <2>2. Present' = Present
    BY <1>1, <1>2, <2>1 DEF Present
  <2>3. OneByOne(pending)'
    BY <1>8, <1>10 DEF OneByOne
  <2>4. Apart'
    BY <1>1, <1>2, <1>4, <2>1, <2>3 DEF Apart
  <2>. QED
    BY <1>1, <1>2, <1>3, <1>10, <2>2, <2>4 DEF CountInv
<1>11. CASE Flush(batch)
  <2>1. FilesOf(batch) \cap Reported = {}
    BY <1>1, <1>4, <1>7 DEF Apart
  <2>2. told' \in [Files -> {0, 1}] /\ Reported' = Reported \cup FilesOf(batch)
    BY <1>4, <1>6, <1>8, <1>11, <2>1, FlushTold DEF Flush
  <2>3. FilesOf(pending)' = {} /\ OneByOne(pending)'
    BY <1>11 DEF Flush, FilesOf, OneByOne
  <2>4. Present' = Present
    BY <1>1, <1>2, <1>7, <2>2, <2>3 DEF Present
  <2>5. Apart'
    BY <1>1, <1>2, <1>4, <1>7, <2>2, <2>3 DEF Apart
  <2>. QED
    BY <1>1, <1>2, <1>3, <2>2, <2>4, <2>5 DEF CountInv
<1>. QED
  BY <1>9, <1>10, <1>11 DEF Arrive, batch, page

\* A blob that failed is counted and in no other place.
LEMMA BlobFailedCount ==
  ASSUME FetchInv, SyncInv, CountInv, NEW f \in Files, BlobFailed(f) PROVE CountInv'
<1>1. /\ phase = "blobs" /\ f \in InFlight /\ ~complete /\ Over({f}) /\ failed' = failed + 1
      /\ UNCHANGED <<config, spec, head, phase, listing, queue, pending, told, moved, complete>>
  BY DEF BlobFailed, Failable, InFlight, SyncInv, FlightOK, history
<1>2. InFlight' = InFlight \ {f} /\ Cardinality(InFlight') <= Concurrency
  BY <1>1, Landed
<1>3. Reported' = Reported /\ FilesOf(pending)' = FilesOf(pending) /\ Meant' = Meant /\ Wanted' = Wanted
  BY <1>1 DEF Reported, FilesOf, Meant, Wanted
<1>4. Present' = Present \ {f} /\ f \in Present
  BY <1>1, <1>2, <1>3 DEF CountInv, Apart, Present
<1>5. Cardinality(Present') + failed' = Cardinality(DOMAIN listing)
  <2>1. DOMAIN listing \in SUBSET Files /\ Present \subseteq DOMAIN listing
    BY <1>1 DEF SyncInv, PastOK, CountInv
  <2>2. IsFiniteSet(Present) /\ Cardinality(Present) \in Nat /\ Cardinality(DOMAIN listing) \in Nat
    BY <2>1, FewFiles
  <2>3. Cardinality(Present') = Cardinality(Present) - 1
    BY <1>4, <2>2, FS_RemoveElement
  <2>4. failed \in Nat
    BY DEF SyncInv, SyncTypeOK
  <2>. QED
    BY <1>1, <2>2, <2>3, <2>4 DEF CountInv
<1>6. Apart'
  BY <1>1, <1>2, <1>3 DEF CountInv, Apart, OneByOne
<1>7. Present' \subseteq DOMAIN listing'
  BY <1>1, <1>4 DEF CountInv
<1>. QED
  BY <1>1, <1>2, <1>3, <1>5, <1>6, <1>7 DEF CountInv

\* With the last batch every file is reported or failed.
LEMMA FinishCount == ASSUME SyncInv, CountInv, Finish PROVE CountInv'
<1>1. /\ phase = "blobs" /\ phase' = "idle" /\ complete' = TRUE
      /\ queue = {} /\ InFlight = {} /\ Flush(pending)
      /\ UNCHANGED <<req, config, spec, head, listing, queue, failed, moved>>
  BY DEF Finish, fetch_vars
<1>2. Apart /\ told \in [Files -> {0, 1}] /\ pending \in Seq(Page)
  BY <1>1 DEF CountInv, SyncInv, SyncTypeOK
<1>3. told' \in [Files -> {0, 1}] /\ Reported' = Reported \cup FilesOf(pending)
  BY <1>1, <1>2, FlushTold DEF Flush, Apart
<1>4. Reported' = Present
  BY <1>1, <1>3 DEF Present
<1>5. InFlight' = InFlight /\ Meant' = Meant /\ Wanted' = Wanted
  BY <1>1 DEF InFlight, Meant, Wanted
<1>. QED
  BY <1>1, <1>3, <1>4, <1>5 DEF CountInv

LEMMA AbortCount == ASSUME FetchInv, SyncInv, CountInv, Abort PROVE CountInv'
<1>1. \A f \in Files : req'[f].at = "idle"
  BY OverReq, FileIsRequest DEF Abort
<1>2. ~complete
  BY DEF Abort, SyncInv, FlightOK
<1>. QED
  BY <1>1, <1>2, QuietCount DEF Abort, history

\* The branch moves: the sync is no longer one of an unmoved repository.
LEMMA PushCount == ASSUME CountInv, NEW f \in Files, Push(f) PROVE CountInv'
<1>1. /\ moved' # {}
      /\ UNCHANGED <<req, config, spec, phase, listing, queue, pending, told, failed, complete>>
  BY DEF Push, fetch_vars
<1>2. /\ InFlight' = InFlight /\ Reported' = Reported /\ FilesOf(pending)' = FilesOf(pending)
      /\ Meant' = Meant
  BY <1>1 DEF InFlight, Reported, FilesOf, Meant
<1>3. Present' = Present /\ Apart' = Apart
  BY <1>1, <1>2 DEF Present, Apart, OneByOne
<1>. QED
  BY <1>1, <1>2, <1>3 DEF CountInv

LEMMA RefreshCount == ASSUME SyncInv, CountInv, NEW f \in Files, Refresh(f) PROVE CountInv'
<1>1. /\ phase = "idle" /\ \A g \in Files : req'[g].at = "idle"
  BY DEF Refresh, fetch_vars, SyncInv, FlightOK
<1>. QED
  BY <1>1, QuietCount DEF Refresh

LEMMA NextCount == FetchInv /\ SyncInv /\ CountInv /\ [Next]_vars => CountInv'
<1>. SUFFICES ASSUME FetchInv, SyncInv, CountInv, [Next]_vars PROVE CountInv'
  OBVIOUS
<1>1. CASE Start \/ Resolved \/ AskTree \/ Listed
  BY <1>1, StartCount, ResolvedCount, AskTreeCount, ListedCount
<1>2. CASE \E f \in queue : Fill(f)
  BY <1>2, FillCount
<1>3. CASE \E f \in Files : Arrive(f) \/ BlobFailed(f)
  BY <1>3, ArriveCount, BlobFailedCount
<1>4. CASE Finish \/ Abort
  BY <1>4, FinishCount, AbortCount
<1>5. CASE \E id \in Requests : (Acquire(id) \/ Minted(id)) /\ Wait
  BY <1>5, WaitReq, WaitCount, FileIsRequest DEF Wait
<1>6. CASE Tick /\ Wait
  BY <1>6, WaitCount DEF Wait, Tick
<1>7. CASE \E f \in Files : Push(f) \/ Refresh(f)
  BY <1>7, PushCount, RefreshCount
<1>8. CASE UNCHANGED vars
  BY <1>8, WaitCount DEF vars, fetch_vars
<1>. QED
  BY <1>1, <1>2, <1>3, <1>4, <1>5, <1>6, <1>7, <1>8 DEF Next, SyncStep

\* A sync that ran to its end reports or counts as failed every file meant and
\* listed, each once and nothing else, and asks for no more files at a time
\* than allowed, whatever the order of its answers, provided the spelling means
\* exactly the files its author meant (discover, ingest_from, run).
THEOREM EveryFileOnce == ASSUME UnderstoodExactly PROVE Spec => []Accounted
<1>1. Init => FetchInv /\ SyncInv /\ SpecOK /\ CountInv
  BY InitFetch, InitSync, InitCount DEF Init, SpecOK
<1>2. FetchInv /\ SyncInv /\ SpecOK /\ CountInv /\ [Next]_vars =>
        (FetchInv /\ SyncInv /\ SpecOK /\ CountInv)'
  BY NextInv, NextSync, SpecKept, NextCount
<1>3. SyncInv /\ SpecOK /\ CountInv => Accounted
  <2>. SUFFICES ASSUME SyncInv, SpecOK, CountInv PROVE Accounted
    OBVIOUS
  <2>1. \A f \in Files : told[f] > 0 <=> told[f] # 0
    BY DEF CountInv
  <2>2. {f \in Files : told[f] > 0} = Reported
    BY <2>1 DEF Reported
  <2>3. complete => config.meant = Meant
    BY DEF UnderstoodExactly, SpecOK, SyncInv, FlightOK, Meant
  <2>4. \A f \in Reported : told[f] = 1
    BY DEF CountInv, Reported
  <2>5. Wanted = {f \in Meant : head[f] # NoBlob}
    BY DEF Wanted, Meant
  <2>. QED
    BY <2>2, <2>3, <2>4, <2>5 DEF CountInv, Accounted
<1>. QED
  BY <1>1, <1>2, <1>3, PTL DEF Spec
=============================================================================
