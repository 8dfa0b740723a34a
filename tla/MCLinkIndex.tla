----------------------------- MODULE MCLinkIndex -----------------------------
(***************************************************************************)
(* Two pages in two versions, images from an earlier run and from a        *)
(* machine whose clock is ahead.                                           *)
(***************************************************************************)
EXTENDS LinkIndex

CONSTANTS p1, p2, v1, v2

TwoPages == {p1, p2}
TwoContents == {v1, v2}

Doc(time, pinned) ==
  [content_hash |-> v1, etag |-> v1, fetched_at |-> time, pinned |-> pinned]

TwoImages == {[p \in {} |-> p],
              [p \in TwoPages |-> Doc(IF p = p1 THEN 0 ELSE Horizon, p = p2)]}

Opts(urls, ttl, max_age, evict, concurrency) ==
  [urls |-> urls, ttl |-> ttl, max_age |-> max_age,
   evict_unreachable |-> evict, concurrency |-> concurrency]

\* Due-list driven with no TTL, a retention cap, and no eviction.
ThreeOptions == {Opts({p1, p2}, 0, Horizon + 1, TRUE, 0),
                 Opts({p1, p2}, 1, 1, TRUE, 2),
                 Opts({p1}, 1, 1, FALSE, 1)}
=============================================================================
