------------------------------- MODULE LinkMap -------------------------------
(***************************************************************************)
(* What the index builder promises: a map from canonical URLs to entries.  *)
(* An entry is the whole of one document as it was last indexed: nothing   *)
(* of an older version of the page, or of another page, is left in it.     *)
(***************************************************************************)
EXTENDS Naturals, FiniteSets

CONSTANTS Keys, Documents, Prefixes, Times

VARIABLES
  entries,  \* the map
  result    \* what the last call returned

lvars == <<entries, result>>

Returned(kind, count) == [kind |-> kind, count |-> count]

\* The entry a document leaves behind.  Its vector, terms and edges are those
\* of that page with that content.
EntryOf(doc, pinned) ==
  [ content_hash |-> doc.content_hash, fetched_at_ms |-> doc.fetched_at_ms,
    etag |-> doc.etag, pinned |-> pinned,
    vector |-> <<doc.url_key, doc.content_hash>>,
    terms  |-> <<doc.url_key, doc.content_hash>>,
    edges  |-> <<doc.url_key, doc.content_hash>> ]

Put(k, entry) ==
  [j \in DOMAIN entries \cup {k} |-> IF j = k THEN entry ELSE entries[j]]

Init ==
  /\ entries = [k \in {} |-> k]
  /\ result = Returned("none", 0)

Add(doc) ==
  /\ doc.url_key \notin DOMAIN entries
  /\ entries' = Put(doc.url_key, EntryOf(doc, doc.pinned))
  /\ result' = Returned("added", 0)

\* New content replaces the entry, but a pin outlives it.
Update(doc) ==
  /\ doc.url_key \in DOMAIN entries
  /\ entries[doc.url_key].content_hash # doc.content_hash
  /\ entries' = Put(doc.url_key,
                    EntryOf(doc, doc.pinned \/ entries[doc.url_key].pinned))
  /\ result' = Returned("updated", 0)

Keep(doc) ==
  /\ doc.url_key \in DOMAIN entries
  /\ entries[doc.url_key].content_hash = doc.content_hash
  /\ result' = Returned("unchanged", 0)
  /\ UNCHANGED entries

Refuse ==
  /\ result' = Returned("dim_mismatch", 0)
  /\ UNCHANGED entries

Drop(k) ==
  /\ entries' = [j \in DOMAIN entries \ {k} |-> entries[j]]
  /\ result' = Returned(IF k \in DOMAIN entries THEN "removed" ELSE "absent", 0)

Refetched(k, now) ==
  \/ /\ k \in DOMAIN entries
     /\ entries' = Put(k, [entries[k] EXCEPT !.fetched_at_ms = now])
     /\ result' = Returned("touched", 0)
  \/ /\ k \notin DOMAIN entries
     /\ result' = Returned("absent", 0)
     /\ UNCHANGED entries

Pin(prefix, pinned) ==
  /\ entries' = [k \in DOMAIN entries |->
                   IF k \in prefix THEN [entries[k] EXCEPT !.pinned = pinned]
                                   ELSE entries[k]]
  /\ result' = Returned("pins",
       Cardinality({k \in DOMAIN entries \cap prefix :
                      entries[k].pinned # pinned}))

Next ==
  \/ \E doc \in Documents : Add(doc) \/ Update(doc) \/ Keep(doc)
  \/ Refuse
  \/ \E k \in Keys : Drop(k)
  \/ \E k \in Keys, now \in Times : Refetched(k, now)
  \/ \E prefix \in Prefixes, pinned \in BOOLEAN : Pin(prefix, pinned)

Spec == Init /\ [][Next]_lvars

=============================================================================
