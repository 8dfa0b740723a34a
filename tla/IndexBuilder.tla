---------------------------- MODULE IndexBuilder ----------------------------
(***************************************************************************)
(* The owned, mutable index: one array per aspect of a document (metadata, *)
(* vectors, terms, edges), all indexed by an internal document id, and a   *)
(* map from canonical URL keys to ids.  Removal moves the last document    *)
(* into the hole, in every array and in the map.                           *)
(*                                                                         *)
(* Ids start at 1 here and at 0 in the code.  A row of `dense' stands for  *)
(* the dim floats at id * dim, an element of `dense', `doc_terms' or       *)
(* `edges' for what extraction and embedding computed from the named page  *)
(* with the named content.                                                 *)
(***************************************************************************)
EXTENDS Naturals, Sequences, FiniteSets

CONSTANTS
  Keys,      \* canonical URL keys
  Hashes,    \* content hashes
  ETags,     \* entity tags, "none" included
  Times,     \* wall-clock readings
  Prefixes   \* the sets of keys a URL prefix can select

ASSUME BuilderAssumption ==
  /\ IsFiniteSet(Keys)
  /\ Prefixes \subseteq SUBSET Keys

\* What extraction and embedding hand over for one page.  The content
\* determines the vector, the terms and the edges.
Documents == [url_key : Keys, content_hash : Hashes, etag : ETags,
              fetched_at_ms : Times, pinned : BOOLEAN]

DocMeta == Documents
Row == Keys \X Hashes
RowOf(doc) == <<doc.url_key, doc.content_hash>>

VARIABLES
  meta,       \* Seq(DocMeta)
  dense,      \* Seq(Row), parallel to meta
  doc_terms,  \* Seq(Row), parallel to meta
  edges,      \* Seq(Row), parallel to meta
  url_index,  \* from the keys present to their ids
  result      \* what the last call returned

vars == <<meta, dense, doc_terms, edges, url_index, result>>
arrays == <<meta, dense, doc_terms, edges>>

Kinds == {"none", "added", "updated", "unchanged", "dim_mismatch", "removed",
          "absent", "touched", "pins"}
Returned(kind, count) == [kind |-> kind, count |-> count]

Present == DOMAIN url_index

Init ==
  /\ meta = <<>>
  /\ dense = <<>>
  /\ doc_terms = <<>>
  /\ edges = <<>>
  /\ url_index = [k \in {} |-> 0]
  /\ result = Returned("none", 0)

-----------------------------------------------------------------------------

\* Mutant: the id of a new document is the length before the push.
UpsertAdded_OldLength(doc) ==
  /\ doc.url_key \notin Present
  /\ url_index' = [k \in Present \cup {doc.url_key} |->
                     IF k = doc.url_key THEN Len(meta) ELSE url_index[k]]
  /\ meta' = Append(meta, doc)
  /\ dense' = Append(dense, RowOf(doc))
  /\ doc_terms' = Append(doc_terms, RowOf(doc))
  /\ edges' = Append(edges, RowOf(doc))
  /\ result' = Returned("added", 0)

\* upsert of a key that is not indexed.
UpsertAdded(doc) ==
  LET id == Len(meta) + 1
  IN /\ doc.url_key \notin Present
     /\ url_index' = [k \in Present \cup {doc.url_key} |->
                        IF k = doc.url_key THEN id ELSE url_index[k]]
     /\ meta' = Append(meta, doc)
     /\ dense' = Append(dense, RowOf(doc))
     /\ doc_terms' = Append(doc_terms, RowOf(doc))
     /\ edges' = Append(edges, RowOf(doc))
     /\ result' = Returned("added", 0)

\* Mutant: the new record replaces the old one, pin included.
UpsertUpdated_LosesPin(doc) ==
  LET id == url_index[doc.url_key]
  IN /\ doc.url_key \in Present
     /\ meta[id].content_hash # doc.content_hash
     /\ meta' = [meta EXCEPT ![id] = doc]
     /\ dense' = [dense EXCEPT ![id] = RowOf(doc)]
     /\ doc_terms' = [doc_terms EXCEPT ![id] = RowOf(doc)]
     /\ edges' = [edges EXCEPT ![id] = RowOf(doc)]
     /\ result' = Returned("updated", 0)
     /\ UNCHANGED url_index

\* upsert of an indexed key with new content: the record is replaced, a pin
\* survives.
UpsertUpdated(doc) ==
  LET id == url_index[doc.url_key]
  IN /\ doc.url_key \in Present
     /\ meta[id].content_hash # doc.content_hash
     /\ meta' = [meta EXCEPT ![id] =
                   [doc EXCEPT !.pinned = doc.pinned \/ meta[id].pinned]]
     /\ dense' = [dense EXCEPT ![id] = RowOf(doc)]
     /\ doc_terms' = [doc_terms EXCEPT ![id] = RowOf(doc)]
     /\ edges' = [edges EXCEPT ![id] = RowOf(doc)]
     /\ result' = Returned("updated", 0)
     /\ UNCHANGED url_index

\* upsert of an indexed key with the same content: nothing is rewritten.
UpsertUnchanged(doc) ==
  /\ doc.url_key \in Present
  /\ meta[url_index[doc.url_key]].content_hash = doc.content_hash
  /\ result' = Returned("unchanged", 0)
  /\ UNCHANGED <<arrays, url_index>>

\* upsert of a vector of the wrong length: an error, before anything is written.
UpsertMismatch ==
  /\ result' = Returned("dim_mismatch", 0)
  /\ UNCHANGED <<arrays, url_index>>

Upsert(doc) ==
  \/ UpsertAdded(doc)
  \/ UpsertUpdated(doc)
  \/ UpsertUnchanged(doc)
  \/ UpsertMismatch

\* Vec::swap_remove.
SwapRemove(seq, id) ==
  [i \in 1..(Len(seq) - 1) |-> IF i = id THEN seq[Len(seq)] ELSE seq[i]]

\* Mutant: the moved document keeps its old id in the map.
Remove_StaleId(key) ==
  LET id == url_index[key]
  IN \/ /\ key \in Present
        /\ meta' = SwapRemove(meta, id)
        /\ dense' = SwapRemove(dense, id)
        /\ doc_terms' = SwapRemove(doc_terms, id)
        /\ edges' = SwapRemove(edges, id)
        /\ url_index' = [k \in Present \ {key} |-> url_index[k]]
        /\ result' = Returned("removed", 0)
     \/ /\ key \notin Present
        /\ result' = Returned("absent", 0)
        /\ UNCHANGED <<arrays, url_index>>

Remove(key) ==
  LET id == url_index[key]
      moved_key == meta[Len(meta)].url_key
  IN \/ /\ key \in Present
        /\ meta' = SwapRemove(meta, id)
        /\ dense' = SwapRemove(dense, id)
        /\ doc_terms' = SwapRemove(doc_terms, id)
        /\ edges' = SwapRemove(edges, id)
        /\ url_index' = [k \in Present \ {key} |->
                           IF id # Len(meta) /\ k = moved_key
                             THEN id ELSE url_index[k]]
        /\ result' = Returned("removed", 0)
     \/ /\ key \notin Present
        /\ result' = Returned("absent", 0)
        /\ UNCHANGED <<arrays, url_index>>

Touch(key, now_ms) ==
  \/ /\ key \in Present
     /\ meta' = [meta EXCEPT ![url_index[key]] =
                   [meta[url_index[key]] EXCEPT !.fetched_at_ms = now_ms]]
     /\ result' = Returned("touched", 0)
     /\ UNCHANGED <<dense, doc_terms, edges, url_index>>
  \/ /\ key \notin Present
     /\ result' = Returned("absent", 0)
     /\ UNCHANGED <<arrays, url_index>>

SetPinned(prefix, pinned) ==
  /\ meta' = [id \in DOMAIN meta |->
                IF meta[id].url_key \in prefix
                  THEN [meta[id] EXCEPT !.pinned = pinned]
                  ELSE meta[id]]
  /\ result' = Returned("pins",
       Cardinality({id \in DOMAIN meta : meta[id].url_key \in prefix
                                         /\ meta[id].pinned # pinned}))
  /\ UNCHANGED <<dense, doc_terms, edges, url_index>>

Next ==
  \/ \E doc \in Documents : Upsert(doc)
  \/ \E key \in Keys : Remove(key)
  \/ \E key \in Keys, now_ms \in Times : Touch(key, now_ms)
  \/ \E prefix \in Prefixes, pinned \in BOOLEAN : SetPinned(prefix, pinned)

Spec == Init /\ [][Next]_vars

-----------------------------------------------------------------------------
(***************************************************************************)
(* Properties.                                                             *)
(***************************************************************************)

\* The shape of the arrays and of the map.
TypeOK ==
  /\ meta \in Seq(DocMeta)
  /\ dense \in Seq(Row)
  /\ doc_terms \in Seq(Row)
  /\ edges \in Seq(Row)
  /\ Present \subseteq Keys
  /\ url_index \in [Present -> 1..Len(meta)]
  /\ result \in [kind : Kinds, count : Nat]

\* The four arrays have one element per document.
Parallel ==
  /\ Len(dense) = Len(meta)
  /\ Len(doc_terms) = Len(meta)
  /\ Len(edges) = Len(meta)

\* The map and the metadata agree in both directions: every key leads to its
\* own record, and every record is reached by its key, so no URL is indexed
\* twice and no record is lost, whatever removals moved.
IndexAgrees ==
  /\ \A id \in DOMAIN meta :
       /\ meta[id].url_key \in Present
       /\ url_index[meta[id].url_key] = id
  /\ \A k \in Present : meta[url_index[k]].url_key = k

\* A search result's vector, terms and edges are those of the page its
\* metadata names, with the content its hash stands for.
RowsAgree ==
  \A id \in DOMAIN meta :
    /\ dense[id] = RowOf(meta[id])
    /\ doc_terms[id] = RowOf(meta[id])
    /\ edges[id] = RowOf(meta[id])

Consistent == Parallel /\ IndexAgrees /\ RowsAgree

\* The inductive invariant.
Inv == TypeOK /\ Consistent

Pinned(k) == k \in Present /\ meta[url_index[k]].pinned

\* A pin is a retention decision: it ends only by an unpin or with the removal
\* of the page, never by a re-crawl, a touch or the removal of another page.
PinsSurvive ==
  [][\A k \in Keys : Pinned(k) /\ ~Pinned(k)' =>
       \/ result'.kind = "pins"
       \/ result'.kind = "removed" /\ k \notin Present']_vars

\* The arrays and the map together behave like one map of whole documents.
Map == INSTANCE LinkMap WITH
  entries <- [k \in Present |->
                LET id == url_index[k]
                IN [ content_hash  |-> meta[id].content_hash,
                     fetched_at_ms |-> meta[id].fetched_at_ms,
                     etag          |-> meta[id].etag,
                     pinned        |-> meta[id].pinned,
                     vector        |-> dense[id],
                     terms         |-> doc_terms[id],
                     edges         |-> edges[id] ]]

MapSpec == Map!Spec
=============================================================================
