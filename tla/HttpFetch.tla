------------------------------ MODULE HttpFetch ------------------------------
(***************************************************************************)
(* The HTTP fetcher and the token it sends: several requests through one   *)
(* fetcher, whose provider is a fixed token or a token that expires and is *)
(* refreshed by whoever finds it stale, one at a time.                     *)
(*                                                                         *)
(* One task polls all the requests, so that what stands between two awaits *)
(* is one step: the check of the expiry, the choice of the credential and  *)
(* the send; the answer of the token source, both stores and the send.     *)
(***************************************************************************)
EXTENDS Naturals, Sequences

CONSTANTS
  Requests,   \* what is asked for
  NoRequest,  \* no request holds the lock
  Lifetime,   \* FreshToken::expires_in
  Buffer,     \* OAuthRefreshAuth::buffer
  Latency,    \* how long the token source takes to answer at most
  MaxClock    \* bound: the clock

ASSUME FetchAssumption ==
  /\ NoRequest \notin Requests
  /\ {Lifetime, Buffer, Latency, MaxClock} \subseteq Nat
  /\ Latency <= Buffer /\ Buffer < Lifetime

VARIABLES
  provider,   \* "fixed", or "oauth": a token that expires
  clock,      \* now_ms
  mints,      \* the tokens the source has issued: when each was asked for, when
              \* it ends, and when the provider believes it ends
  token,      \* the token held, as its number; 0 for none
  expires,    \* expires_at_ms
  holder,     \* the request that holds the lock `inflight'
  asked,      \* when it asked the token source
  req         \* by request: [at, live], where it stands, and whether the token
              \* it was sent with was one the server still takes

fetch_vars == <<provider, clock, mints, token, expires, holder, asked, req>>

Idle == [at |-> "idle", live |-> TRUE]

FetchInit ==
  /\ provider \in {"fixed", "oauth"}
  /\ clock = 0 /\ mints = <<>> /\ token = 0 /\ expires = 0
  /\ holder = NoRequest /\ asked = 0
  /\ req = [id \in Requests |-> Idle]

\* Mutant: the token is used until it ends.
NeedsRefresh_NoBuffer == provider = "oauth" /\ (token = 0 \/ clock >= expires)

\* AuthProvider::needs_refresh
NeedsRefresh == provider = "oauth" /\ (token = 0 \/ clock + Buffer >= expires)

\* The request goes out; `ends' is when the server stops taking its token.
Sent(ends) == [at |-> "sent", live |-> provider = "fixed" \/ clock < ends]
Send(id) == req' = [req EXCEPT ![id] = Sent(IF token = 0 THEN 0 ELSE mints[token].ends)]

Mint(id) ==
  /\ holder' = id
  /\ asked' = clock
  /\ req' = [req EXCEPT ![id].at = "minting"]

\* HttpFetcher::fetch up to its first await that does not return at once.
Begin(id) ==
  /\ req[id].at = "idle"
  /\ \/ ~NeedsRefresh /\ Send(id) /\ UNCHANGED <<holder, asked>>
     \/ NeedsRefresh /\ holder = NoRequest /\ Mint(id)
     \/ /\ NeedsRefresh /\ holder # NoRequest
        /\ req' = [req EXCEPT ![id].at = "waiting"]
        /\ UNCHANGED <<holder, asked>>
  /\ UNCHANGED <<provider, clock, mints, token, expires>>

\* Mutant: who waited for the lock refreshes again.
Acquire_NoRecheck(id) ==
  /\ req[id].at = "waiting" /\ holder = NoRequest
  /\ Mint(id)
  /\ UNCHANGED <<provider, clock, mints, token, expires>>

\* A request that waited has the lock and checks again.
Acquire(id) ==
  /\ req[id].at = "waiting" /\ holder = NoRequest
  /\ \/ NeedsRefresh /\ Mint(id)
     \/ ~NeedsRefresh /\ Send(id) /\ UNCHANGED <<holder, asked>>
  /\ UNCHANGED <<provider, clock, mints, token, expires>>

\* The token source has answered: it issued the token some time before, and
\* the provider counts its life from now.
Minted(id) ==
  /\ req[id].at = "minting"
  /\ \E issued \in asked..clock :
       /\ mints' = Append(mints, [asked |-> asked, ends |-> issued + Lifetime,
                                  expires |-> clock + Lifetime])
       /\ req' = [req EXCEPT ![id] = Sent(issued + Lifetime)]
  /\ token' = Len(mints')
  /\ expires' = clock + Lifetime
  /\ holder' = NoRequest
  /\ UNCHANGED <<provider, clock, asked>>

\* The request is over: `who' are set back, and the lock is free when its
\* holder was among them.
Over(who) ==
  /\ req' = [id \in Requests |-> IF id \in who THEN Idle ELSE req[id]]
  /\ holder' = IF holder \in who THEN NoRequest ELSE holder
  /\ UNCHANGED <<provider, clock, mints, token, expires, asked>>

\* A request that may be answered, with a body or an error, or whose refresh
\* may have failed.
Answerable(id) == req[id].at = "sent"
Failable(id) == req[id].at \in {"sent", "minting"}

\* Time passes; the token source answers in time.
Tick ==
  /\ provider = "oauth" /\ clock < MaxClock
  /\ holder # NoRequest => clock < asked + Latency
  /\ clock' = clock + 1
  /\ UNCHANGED <<provider, mints, token, expires, holder, asked, req>>

-----------------------------------------------------------------------------
(***************************************************************************)
(* Properties.                                                             *)
(***************************************************************************)

\* The token source is asked only when the token held is missing or about to
\* end, however many requests found it so (OAuthRefreshAuth::refresh).
MintedWhenStale ==
  \A n \in 1..(Len(mints) - 1) : mints[n + 1].asked + Buffer >= mints[n].expires

\* No request goes out with a token that the server has stopped taking, or
\* with none, although the token's life is counted from when the answer came
\* and not from when the token was issued, because the source answers faster
\* than the buffer (needs_refresh, refresh, HttpFetcher::fetch).
SentUnexpired == \A id \in Requests : req[id].live
=============================================================================
