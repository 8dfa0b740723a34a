------------------------- MODULE IndexBuilder_proofs -------------------------
(***************************************************************************)
(* Proofs about the index builder: its arrays and its map stay consistent  *)
(* through every sequence of calls, pins survive, and it implements a map. *)
(***************************************************************************)
EXTENDS IndexBuilder, FiniteSetTheorems, TLAPS

(***************************************************************************)
(* The number of elements of a part of a sequence's domain is a natural.   *)
(***************************************************************************)
LEMMA DomainCount ==
  ASSUME NEW S, NEW seq \in Seq(S), NEW D \in SUBSET (DOMAIN seq)
  PROVE  Cardinality(D) \in Nat
<1>1. DOMAIN seq = 1..Len(seq) /\ Len(seq) \in Nat
  OBVIOUS
<1>2. IsFiniteSet(1..Len(seq))
  BY <1>1, FS_Interval
<1>. QED  BY <1>1, <1>2, FS_Subset, FS_CardinalityType

LEMMA InitInv == Init => Inv
  BY DEF Init, Inv, TypeOK, Consistent, Parallel, IndexAgrees, RowsAgree,
         Present, Returned, Kinds

LEMMA AddedInv ==
  ASSUME Inv, NEW doc \in Documents, UpsertAdded(doc)
  PROVE  Inv'
<1>. USE DEF Inv, TypeOK, Consistent, Parallel, IndexAgrees, RowsAgree,
             Present, Returned, Kinds, UpsertAdded
<1>1. doc \in DocMeta /\ RowOf(doc) \in Row /\ doc.url_key \in Keys
  BY DEF DocMeta, Documents, Row, RowOf
<1>2. TypeOK'
  BY <1>1
<1>3. Parallel'
  BY <1>1
<1>4. IndexAgrees'
  BY <1>1
<1>5. RowsAgree'
  BY <1>1
<1>. QED  BY <1>2, <1>3, <1>4, <1>5

LEMMA UpdatedInv ==
  ASSUME Inv, NEW doc \in Documents, UpsertUpdated(doc)
  PROVE  Inv'
<1>. USE DEF Inv, TypeOK, Consistent, Parallel, IndexAgrees, RowsAgree,
             Present, Returned, Kinds, UpsertUpdated
<1>. DEFINE id == url_index[doc.url_key]
            record == [doc EXCEPT !.pinned = doc.pinned \/ meta[id].pinned]
<1>1. /\ id \in 1..Len(meta)
      /\ RowOf(doc) \in Row
  BY DEF Documents, Row, RowOf
<1>2. meta[id] \in DocMeta /\ meta[id].url_key = doc.url_key
  BY <1>1
<1>3. /\ record \in DocMeta
      /\ record.url_key = doc.url_key
      /\ RowOf(record) = RowOf(doc)
  BY <1>2 DEF DocMeta, Documents, RowOf
<1>4. TypeOK'
  BY <1>1, <1>3
<1>5. Parallel'
  BY <1>1
<1>6. IndexAgrees'
  BY <1>1, <1>2, <1>3
<1>7. RowsAgree'
  BY <1>1, <1>3
<1>. QED  BY <1>4, <1>5, <1>6, <1>7

LEMMA RemoveInv ==
  ASSUME Inv, NEW key \in Keys, Remove(key)
  PROVE  Inv'
<1>. DEFINE n == Len(meta)
            id == url_index[key]
            moved_key == meta[n].url_key
<1>1. CASE key \in Present
  <2>1. /\ meta \in Seq(DocMeta)
        /\ dense \in Seq(Row)
        /\ doc_terms \in Seq(Row)
        /\ edges \in Seq(Row)
        /\ Len(dense) = n
        /\ Len(doc_terms) = n
        /\ Len(edges) = n
        /\ url_index \in [Present -> 1..n]
        /\ Present \subseteq Keys
    BY DEF Inv, TypeOK, Consistent, Parallel
  <2>2. n \in Nat /\ id \in 1..n /\ DOMAIN meta = 1..n /\ n \in 1..n
    BY <1>1, <2>1
  <2>3. /\ \A k \in Present : meta[url_index[k]].url_key = k
        /\ \A i \in 1..n : /\ meta[i].url_key \in Present
                           /\ url_index[meta[i].url_key] = i
    BY <2>2 DEF Inv, Consistent, IndexAgrees
  <2>4. \A i \in 1..n : /\ dense[i] = RowOf(meta[i])
                        /\ doc_terms[i] = RowOf(meta[i])
                        /\ edges[i] = RowOf(meta[i])
    BY <2>2 DEF Inv, Consistent, RowsAgree
  <2>5. /\ meta' = SwapRemove(meta, id)
        /\ dense' = SwapRemove(dense, id)
        /\ doc_terms' = SwapRemove(doc_terms, id)
        /\ edges' = SwapRemove(edges, id)
        /\ url_index' = [k \in Present \ {key} |->
                           IF id # n /\ k = moved_key
                             THEN id ELSE url_index[k]]
        /\ result' = Returned("removed", 0)
    BY <1>1 DEF Remove
  <2>6. /\ meta' \in Seq(DocMeta)
        /\ Len(meta') = n - 1
        /\ DOMAIN meta' = 1..(n - 1)
        /\ \A i \in 1..(n - 1) : meta'[i] = IF i = id THEN meta[n] ELSE meta[i]
    <3>1. /\ SwapRemove(meta, id) \in Seq(DocMeta)
          /\ Len(SwapRemove(meta, id)) = n - 1
          /\ \A i \in 1..(n - 1) :
               SwapRemove(meta, id)[i] = IF i = id THEN meta[n] ELSE meta[i]
      BY <2>1, <2>2 DEF SwapRemove
    <3>. QED  BY <3>1, <2>5
  <2>7. /\ dense' \in Seq(Row)
        /\ Len(dense') = n - 1
        /\ \A i \in 1..(n - 1) : dense'[i] = IF i = id THEN dense[n] ELSE dense[i]
    <3>1. /\ SwapRemove(dense, id) \in Seq(Row)
          /\ Len(SwapRemove(dense, id)) = n - 1
          /\ \A i \in 1..(n - 1) :
               SwapRemove(dense, id)[i] = IF i = id THEN dense[n] ELSE dense[i]
      BY <2>1, <2>2 DEF SwapRemove
    <3>. QED  BY <3>1, <2>5
  <2>8. /\ doc_terms' \in Seq(Row)
        /\ Len(doc_terms') = n - 1
        /\ \A i \in 1..(n - 1) :
             doc_terms'[i] = IF i = id THEN doc_terms[n] ELSE doc_terms[i]
    <3>1. /\ SwapRemove(doc_terms, id) \in Seq(Row)
          /\ Len(SwapRemove(doc_terms, id)) = n - 1
          /\ \A i \in 1..(n - 1) :
               SwapRemove(doc_terms, id)[i] =
                 IF i = id THEN doc_terms[n] ELSE doc_terms[i]
      BY <2>1, <2>2 DEF SwapRemove
    <3>. QED  BY <3>1, <2>5
  <2>9. /\ edges' \in Seq(Row)
        /\ Len(edges') = n - 1
        /\ \A i \in 1..(n - 1) : edges'[i] = IF i = id THEN edges[n] ELSE edges[i]
    <3>1. /\ SwapRemove(edges, id) \in Seq(Row)
          /\ Len(SwapRemove(edges, id)) = n - 1
          /\ \A i \in 1..(n - 1) :
               SwapRemove(edges, id)[i] = IF i = id THEN edges[n] ELSE edges[i]
      BY <2>1, <2>2 DEF SwapRemove
    <3>. QED  BY <3>1, <2>5
  <2>10. /\ Present' = Present \ {key}
         /\ \A k \in Present \ {key} :
              url_index'[k] = IF id # n /\ k = moved_key
                                THEN id ELSE url_index[k]
    BY <2>5 DEF Present
  \* The document that moves is the one the map has at the last id.
  <2>11. moved_key \in Present /\ url_index[moved_key] = n
    BY <2>2, <2>3
  <2>12. \A k \in Present \ {key} : url_index[k] # id
    BY <1>1, <2>3
  <2>13. \A k \in Present \ {key} :
           \/ id # n /\ k = moved_key /\ url_index'[k] = id
           \/ url_index'[k] = url_index[k] /\ url_index[k] \in 1..(n - 1)
              /\ url_index[k] # id
    <3>1. ASSUME NEW k \in Present \ {key}, ~(id # n /\ k = moved_key)
          PROVE  url_index[k] \in 1..(n - 1)
      <4>1. url_index[k] \in 1..n /\ url_index[k] # id
        BY <2>1, <2>12
      <4>2. url_index[k] # n
        BY <2>3, <2>12, <3>1
      <4>. QED  BY <4>1, <4>2, <2>2
    <3>. QED  BY <3>1, <2>10, <2>12
  <2>14. TypeOK'
    <3>1. url_index' \in [Present' -> 1..Len(meta')]
      <4>1. \A k \in Present \ {key} : url_index'[k] \in 1..(n - 1)
        BY <2>2, <2>13
      <4>2. url_index' = [k \in Present' |-> url_index'[k]]
        BY <2>5, <2>10
      <4>. QED  BY <4>1, <4>2, <2>6, <2>10
    <3>2. result' \in [kind : Kinds, count : Nat]
      BY <2>5 DEF Returned, Kinds
    <3>. QED  BY <3>1, <3>2, <2>1, <2>6, <2>7, <2>8, <2>9, <2>10 DEF TypeOK
  <2>15. Parallel'
    BY <2>6, <2>7, <2>8, <2>9 DEF Parallel
  <2>16. IndexAgrees'
    <3>1. ASSUME NEW k \in Present'
          PROVE  meta'[url_index'[k]].url_key = k
      <4>1. CASE id # n /\ k = moved_key /\ url_index'[k] = id
        BY <4>1, <2>2, <2>6
      <4>2. CASE /\ url_index'[k] = url_index[k]
                 /\ url_index[k] \in 1..(n - 1)
                 /\ url_index[k] # id
        BY <4>2, <2>3, <2>6, <2>10
      <4>. QED  BY <4>1, <4>2, <2>10, <2>13
    <3>2. ASSUME NEW i \in DOMAIN meta'
          PROVE  /\ meta'[i].url_key \in Present'
                 /\ url_index'[meta'[i].url_key] = i
      <4>1. i \in 1..(n - 1) /\ i \in 1..n /\ i # n
        BY <2>2, <2>6
      <4>2. CASE i = id
        <5>1. meta'[i].url_key = moved_key
          BY <4>1, <4>2, <2>6
        <5>2. moved_key # key
          BY <4>1, <4>2, <2>11
        <5>. QED  BY <4>1, <4>2, <5>1, <5>2, <2>10, <2>11
      <4>3. CASE i # id
        <5>1. /\ meta'[i] = meta[i]
              /\ meta[i].url_key \in Present
              /\ url_index[meta[i].url_key] = i
          BY <4>1, <4>3, <2>3, <2>6
        <5>2. meta[i].url_key # key /\ meta[i].url_key # moved_key
          BY <4>1, <4>3, <5>1, <2>11
        <5>. QED  BY <5>1, <5>2, <2>10
      <4>. QED  BY <4>2, <4>3
    <3>. QED  BY <3>1, <3>2 DEF IndexAgrees
  <2>17. RowsAgree'
    <3>1. ASSUME NEW i \in 1..(n - 1)
          PROVE  /\ dense'[i] = RowOf(meta'[i])
                 /\ doc_terms'[i] = RowOf(meta'[i])
                 /\ edges'[i] = RowOf(meta'[i])
      <4>1. i \in 1..n
        BY <2>2
      <4>2. CASE i = id
        <5>1. /\ meta'[i] = meta[n]
              /\ dense'[i] = dense[n]
              /\ doc_terms'[i] = doc_terms[n]
              /\ edges'[i] = edges[n]
          BY <4>2, <2>6, <2>7, <2>8, <2>9
        <5>. QED  BY <2>2, <5>1, <2>4
      <4>3. CASE i # id
        <5>1. /\ meta'[i] = meta[i]
              /\ dense'[i] = dense[i]
              /\ doc_terms'[i] = doc_terms[i]
              /\ edges'[i] = edges[i]
          BY <4>3, <2>6, <2>7, <2>8, <2>9
        <5>. QED  BY <4>1, <5>1, <2>4
      <4>. QED  BY <4>2, <4>3
    <3>2. \A i \in 1..(n - 1) : /\ dense'[i] = RowOf(meta'[i])
                               /\ doc_terms'[i] = RowOf(meta'[i])
                               /\ edges'[i] = RowOf(meta'[i])
      BY <3>1
    <3>. QED  BY <3>2, <2>6, Zenon DEF RowsAgree, RowOf
  <2>. QED  BY <2>14, <2>15, <2>16, <2>17 DEF Inv, Consistent
<1>2. CASE key \notin Present
  <2>1. UNCHANGED <<arrays, url_index>> /\ result' = Returned("absent", 0)
    BY <1>2 DEF Remove
  <2>. QED
    BY <2>1 DEF Inv, TypeOK, Consistent, Parallel, IndexAgrees, RowsAgree,
                Present, Returned, Kinds, arrays
<1>. QED  BY <1>1, <1>2

(***************************************************************************)
(* Rewriting records in place, keeping their keys and contents, preserves  *)
(* the invariant: what touch and set_pinned do.                            *)
(***************************************************************************)
LEMMA SameRecordsInv ==
  ASSUME Inv,
         UNCHANGED <<dense, doc_terms, edges, url_index>>,
         meta' \in Seq(DocMeta),
         Len(meta') = Len(meta),
         \A id \in DOMAIN meta :
           /\ meta'[id].url_key = meta[id].url_key
           /\ meta'[id].content_hash = meta[id].content_hash,
         result' \in [kind : Kinds, count : Nat]
  PROVE  Inv'
<1>1. DOMAIN meta' = DOMAIN meta
  BY DEF Inv, TypeOK
<1>2. TypeOK'
  BY DEF Inv, TypeOK, Present
<1>3. Parallel'
  BY DEF Inv, Consistent, Parallel
<1>4. IndexAgrees'
  <2>1. \A k \in Present : url_index[k] \in DOMAIN meta
    BY DEF Inv, TypeOK
  <2>. QED  BY <1>1, <2>1 DEF Inv, Consistent, IndexAgrees, Present
<1>5. RowsAgree'
  <2>1. \A id \in DOMAIN meta : RowOf(meta'[id]) = RowOf(meta[id])
    BY DEF RowOf
  <2>. QED  BY <1>1, <2>1 DEF Inv, Consistent, RowsAgree
<1>. QED  BY <1>2, <1>3, <1>4, <1>5 DEF Inv, Consistent

LEMMA TouchInv ==
  ASSUME Inv, NEW key \in Keys, NEW now_ms \in Times, Touch(key, now_ms)
  PROVE  Inv'
<1>. DEFINE id == url_index[key]
            record == [meta[id] EXCEPT !.fetched_at_ms = now_ms]
<1>1. CASE key \in Present
  <2>1. meta \in Seq(DocMeta) /\ id \in 1..Len(meta)
    BY <1>1 DEF Inv, TypeOK
  <2>2. meta[id] \in DocMeta
    BY <2>1
  <2>3. /\ record \in DocMeta
        /\ record.url_key = meta[id].url_key
        /\ record.content_hash = meta[id].content_hash
    BY <2>2 DEF DocMeta, Documents
  <2>4. /\ meta' = [meta EXCEPT ![id] = record]
        /\ result' = Returned("touched", 0)
        /\ UNCHANGED <<dense, doc_terms, edges, url_index>>
    BY <1>1 DEF Touch
  <2>5. /\ meta' \in Seq(DocMeta)
        /\ Len(meta') = Len(meta)
        /\ \A i \in DOMAIN meta :
             /\ meta'[i].url_key = meta[i].url_key
             /\ meta'[i].content_hash = meta[i].content_hash
    BY <2>1, <2>3, <2>4
  <2>6. result' \in [kind : Kinds, count : Nat]
    BY <2>4 DEF Returned, Kinds
  <2>. QED  BY <2>4, <2>5, <2>6, SameRecordsInv
<1>2. CASE key \notin Present
  <2>1. UNCHANGED <<arrays, url_index>> /\ result' = Returned("absent", 0)
    BY <1>2 DEF Touch
  <2>. QED
    BY <2>1 DEF Inv, TypeOK, Consistent, Parallel, IndexAgrees, RowsAgree,
                Present, Returned, Kinds, arrays
<1>. QED  BY <1>1, <1>2

LEMMA SetPinnedInv ==
  ASSUME Inv, NEW prefix \in Prefixes, NEW pinned \in BOOLEAN,
         SetPinned(prefix, pinned)
  PROVE  Inv'
<1>1. meta \in Seq(DocMeta)
  BY DEF Inv, TypeOK
<1>2. ASSUME NEW id \in DOMAIN meta
      PROVE  /\ [meta[id] EXCEPT !.pinned = pinned] \in DocMeta
             /\ [meta[id] EXCEPT !.pinned = pinned].url_key = meta[id].url_key
             /\ [meta[id] EXCEPT !.pinned = pinned].content_hash
                  = meta[id].content_hash
  <2>1. meta[id] \in DocMeta
    BY <1>1
  <2>. QED  BY <2>1 DEF DocMeta, Documents
<1>3. /\ meta' \in Seq(DocMeta)
      /\ Len(meta') = Len(meta)
      /\ \A id \in DOMAIN meta :
           /\ meta'[id].url_key = meta[id].url_key
           /\ meta'[id].content_hash = meta[id].content_hash
  BY <1>1, <1>2 DEF SetPinned
<1>4. result' \in [kind : Kinds, count : Nat]
  <2>. DEFINE changed == {id \in DOMAIN meta : meta[id].url_key \in prefix
                                               /\ meta[id].pinned # pinned}
  <2>1. Cardinality(changed) \in Nat
    BY <1>1, DomainCount
  <2>2. result' = Returned("pins", Cardinality(changed))
    BY DEF SetPinned
  <2>. QED  BY <2>1, <2>2 DEF Returned, Kinds
<1>. QED  BY <1>3, <1>4, SameRecordsInv DEF SetPinned

(***************************************************************************)
(* Every call preserves the invariant.                                     *)
(***************************************************************************)
LEMMA StepInv == Inv /\ [Next]_vars => Inv'
<1>. SUFFICES ASSUME Inv, [Next]_vars
              PROVE  Inv'
  OBVIOUS
<1>1. ASSUME NEW doc \in Documents, Upsert(doc)
      PROVE  Inv'
  <2>1. CASE UpsertUnchanged(doc)
    BY <2>1 DEF UpsertUnchanged, Inv, TypeOK, Consistent, Parallel,
                IndexAgrees, RowsAgree, Present, Returned, Kinds, arrays
  <2>2. CASE UpsertMismatch
    BY <2>2 DEF UpsertMismatch, Inv, TypeOK, Consistent, Parallel,
                IndexAgrees, RowsAgree, Present, Returned, Kinds, arrays
  <2>. QED  BY <1>1, <2>1, <2>2, AddedInv, UpdatedInv DEF Upsert
<1>2. CASE UNCHANGED vars
  BY <1>2 DEF vars, Inv, TypeOK, Consistent, Parallel, IndexAgrees, RowsAgree,
              Present
<1>. QED
  BY <1>1, <1>2, RemoveInv, TouchInv, SetPinnedInv DEF Next

(***************************************************************************)
(* The invariant holds after every sequence of calls.                      *)
(***************************************************************************)
THEOREM Invariance == Spec => []Inv
  BY InitInv, StepInv, PTL DEF Spec

(***************************************************************************)
(* Arrays, map and result keep their shape: the map leads into the arrays, *)
(* for any sets of keys, versions and prefixes.                            *)
(***************************************************************************)
THEOREM Types == Spec => []TypeOK
<1>1. Inv => TypeOK
  BY DEF Inv
<1>. QED  BY <1>1, Invariance, PTL

(***************************************************************************)
(* The map is the inverse of the metadata and every row belongs to its     *)
(* document, for any sets of keys, versions and prefixes.                  *)
(***************************************************************************)
THEOREM Consistency == Spec => [](TypeOK /\ Consistent)
  BY Invariance, PTL DEF Inv

(***************************************************************************)
(* A pin ends only by an unpin or with the removal of the page.            *)
(***************************************************************************)
PinStep ==
  \A k \in Keys : Pinned(k) /\ ~Pinned(k)' =>
    \/ result'.kind = "pins"
    \/ result'.kind = "removed" /\ k \notin Present'

LEMMA StepKeepsPins == Inv /\ [Next]_vars => [PinStep]_vars
<1>. SUFFICES ASSUME Inv, Next, NEW k \in Keys, Pinned(k), ~Pinned(k)'
              PROVE  \/ result'.kind = "pins"
                     \/ result'.kind = "removed" /\ k \notin Present'
  BY DEF PinStep, vars
<1>1. /\ k \in Present
      /\ url_index[k] \in 1..Len(meta)
      /\ meta \in Seq(DocMeta)
      /\ meta[url_index[k]].pinned
      /\ meta[url_index[k]].url_key = k
  BY DEF Inv, TypeOK, Consistent, IndexAgrees, Pinned
<1>2. ASSUME NEW doc \in Documents, UpsertAdded(doc)
      PROVE  FALSE
  <2>1. k # doc.url_key
    BY <1>1, <1>2 DEF UpsertAdded
  <2>2. k \in Present' /\ url_index'[k] = url_index[k]
    BY <1>1, <1>2, <2>1 DEF UpsertAdded, Present
  <2>3. meta'[url_index[k]] = meta[url_index[k]]
    BY <1>1, <1>2 DEF UpsertAdded, Documents, DocMeta
  <2>. QED  BY <1>1, <2>2, <2>3 DEF Pinned
<1>3. ASSUME NEW doc \in Documents, UpsertUpdated(doc)
      PROVE  FALSE
  <2>. DEFINE id == url_index[doc.url_key]
  <2>1. /\ meta' = [meta EXCEPT ![id] =
                      [doc EXCEPT !.pinned = doc.pinned \/ meta[id].pinned]]
        /\ url_index' = url_index
    BY <1>3 DEF UpsertUpdated
  <2>2. CASE url_index[k] = id
    <3>1. meta'[id].pinned = (doc.pinned \/ meta[id].pinned)
      BY <1>1, <2>1, <2>2 DEF Documents
    <3>. QED  BY <1>1, <2>1, <2>2, <3>1 DEF Pinned, Present
  <2>3. CASE url_index[k] # id
    BY <1>1, <2>1, <2>3 DEF Pinned, Present
  <2>. QED  BY <2>2, <2>3
<1>4. ASSUME NEW key \in Keys, Remove(key), key \in Present
      PROVE  result'.kind = "removed" /\ k \notin Present'
  <2>. DEFINE n == Len(meta)
              id == url_index[key]
              moved_key == meta[n].url_key
  <2>1. /\ result'.kind = "removed"
        /\ meta' = SwapRemove(meta, id)
        /\ url_index' = [j \in Present \ {key} |->
                           IF id # n /\ j = moved_key
                             THEN id ELSE url_index[j]]
    BY <1>4 DEF Remove, Returned
  <2>2. /\ n \in Nat
        /\ id \in 1..n
        /\ n \in 1..n
        /\ meta[id].url_key = key
        /\ url_index[moved_key] = n
    BY <1>1, <1>4 DEF Inv, TypeOK, Consistent, IndexAgrees
  <2>3. ASSUME k # key
        PROVE  FALSE
    <3>1. k \in Present' /\ url_index[k] # id
      BY <1>1, <2>1, <2>2, <2>3 DEF Present
    <3>2. CASE k = moved_key
      <4>1. url_index[k] = n /\ id \in 1..(n - 1)
        BY <2>2, <3>1, <3>2
      <4>2. url_index'[k] = id
        BY <1>1, <2>1, <2>3, <3>2, <4>1
      <4>3. meta'[id] = meta[n]
        BY <2>1, <4>1 DEF SwapRemove
      <4>. QED  BY <1>1, <3>1, <4>1, <4>2, <4>3 DEF Pinned
    <3>3. CASE k # moved_key
      <4>1. url_index'[k] = url_index[k]
        BY <1>1, <2>1, <2>3, <3>3
      <4>2. url_index[k] # n
        BY <1>1, <3>3
      <4>3. url_index[k] \in 1..(n - 1)
        BY <1>1, <2>2, <4>2
      <4>4. meta'[url_index[k]] = meta[url_index[k]]
        BY <2>1, <3>1, <4>3 DEF SwapRemove
      <4>. QED  BY <1>1, <3>1, <4>1, <4>4 DEF Pinned
    <3>. QED  BY <3>2, <3>3
  <2>4. k = key
    BY <2>3
  <2>. QED  BY <2>1, <2>4 DEF Present
<1>5. ASSUME NEW key \in Keys, NEW now_ms \in Times, Touch(key, now_ms),
             key \in Present
      PROVE  FALSE
  <2>. DEFINE id == url_index[key]
  <2>1. /\ meta' = [meta EXCEPT ![id] =
                      [meta[id] EXCEPT !.fetched_at_ms = now_ms]]
        /\ url_index' = url_index
    BY <1>5 DEF Touch
  <2>2. CASE url_index[k] = id
    <3>1. meta'[url_index[k]] = [meta[url_index[k]] EXCEPT
                                   !.fetched_at_ms = now_ms]
      BY <1>1, <2>1, <2>2
    <3>2. meta[url_index[k]] \in DocMeta
      BY <1>1
    <3>3. meta'[url_index[k]].pinned
      BY <1>1, <3>1, <3>2 DEF DocMeta, Documents
    <3>. QED  BY <1>1, <2>1, <3>3 DEF Pinned, Present
  <2>3. CASE url_index[k] # id
    <3>1. meta'[url_index[k]] = meta[url_index[k]]
      BY <1>1, <2>1, <2>3
    <3>. QED  BY <1>1, <2>1, <3>1 DEF Pinned, Present
  <2>. QED  BY <2>2, <2>3
<1>6. ASSUME UNCHANGED <<meta, url_index>>
      PROVE  FALSE
  BY <1>6 DEF Pinned, Present
<1>7. CASE \E doc \in Documents : Upsert(doc)
  BY <1>2, <1>3, <1>6, <1>7 DEF Upsert, UpsertUnchanged, UpsertMismatch, arrays
<1>8. CASE \E key \in Keys : Remove(key)
  BY <1>4, <1>6, <1>8 DEF Remove, arrays
<1>9. CASE \E key \in Keys, now_ms \in Times : Touch(key, now_ms)
  BY <1>5, <1>6, <1>9 DEF Touch, arrays
<1>10. CASE \E prefix \in Prefixes, pinned \in BOOLEAN :
              SetPinned(prefix, pinned)
  BY <1>10 DEF SetPinned, Returned
<1>. QED  BY <1>7, <1>8, <1>9, <1>10 DEF Next

(***************************************************************************)
(* PinsSurvive for every set of pages, versions and prefixes.              *)
(***************************************************************************)
THEOREM PinsAreSticky == Spec => PinsSurvive
<1>1. Spec => [][PinStep]_vars
  BY Invariance, StepKeepsPins, PTL DEF Spec
<1>. QED  BY <1>1, PTL DEF PinsSurvive, PinStep

(***************************************************************************)
(* The builder implements LinkMap.  Record(id) is the entry assembled from *)
(* the four arrays; Entries is the map the refinement mapping builds.      *)
(***************************************************************************)
Record(id) ==
  [ content_hash |-> meta[id].content_hash,
    fetched_at_ms |-> meta[id].fetched_at_ms,
    etag |-> meta[id].etag, pinned |-> meta[id].pinned,
    vector |-> dense[id], terms |-> doc_terms[id], edges |-> edges[id] ]

Entries == [k \in Present |-> Record(url_index[k])]

LEMMA InitMap == Init => Map!Init
  BY DEF Init, Map!Init, Present, Returned, Map!Returned

LEMMA AddedMap ==
  ASSUME Inv, NEW doc \in Documents, UpsertAdded(doc)
  PROVE  Map!Add(doc)
<1>. DEFINE n == Len(meta)
<1>1. /\ meta \in Seq(DocMeta) /\ dense \in Seq(Row)
      /\ doc_terms \in Seq(Row) /\ edges \in Seq(Row)
      /\ n \in Nat /\ Len(dense) = n /\ Len(doc_terms) = n /\ Len(edges) = n
      /\ url_index \in [Present -> 1..n]
  BY DEF Inv, TypeOK, Consistent, Parallel
<1>2. doc \in DocMeta /\ RowOf(doc) \in Row
  BY DEF DocMeta, Documents, Row, RowOf
<1>3. /\ meta' = Append(meta, doc)
      /\ dense' = Append(dense, RowOf(doc))
      /\ doc_terms' = Append(doc_terms, RowOf(doc))
      /\ edges' = Append(edges, RowOf(doc))
      /\ doc.url_key \notin Present
      /\ result' = Returned("added", 0)
  BY DEF UpsertAdded
<1>4. /\ Present' = Present \cup {doc.url_key}
      /\ \A k \in Present : url_index'[k] = url_index[k]
      /\ url_index'[doc.url_key] = n + 1
  BY <1>3 DEF UpsertAdded, Present
<1>5. \A i \in 1..n : /\ meta'[i] = meta[i]
                      /\ dense'[i] = dense[i]
                      /\ doc_terms'[i] = doc_terms[i]
                      /\ edges'[i] = edges[i]
  BY <1>1, <1>2, <1>3
<1>6. /\ meta'[n + 1] = doc
      /\ dense'[n + 1] = RowOf(doc)
      /\ doc_terms'[n + 1] = RowOf(doc)
      /\ edges'[n + 1] = RowOf(doc)
  BY <1>1, <1>2, <1>3
<1>7. \A k \in Present : Record(url_index[k])' = Record(url_index[k])
  BY <1>1, <1>4, <1>5 DEF Record
<1>8. Record(url_index[doc.url_key])' = Map!EntryOf(doc, doc.pinned)
  BY <1>4, <1>6 DEF Record, Map!EntryOf, RowOf
<1>9. Entries' = [k \in Present \cup {doc.url_key} |->
                    IF k = doc.url_key THEN Map!EntryOf(doc, doc.pinned)
                                       ELSE Entries[k]]
  BY <1>3, <1>4, <1>7, <1>8 DEF Entries
<1>. QED
  BY <1>3, <1>9 DEF Map!Add, Map!Put, Map!Returned, Returned, Entries, Record

LEMMA UpdatedMap ==
  ASSUME Inv, NEW doc \in Documents, UpsertUpdated(doc)
  PROVE  Map!Update(doc)
<1>. DEFINE n == Len(meta)
            id == url_index[doc.url_key]
            kept == doc.pinned \/ meta[id].pinned
<1>1. /\ meta \in Seq(DocMeta) /\ dense \in Seq(Row)
      /\ doc_terms \in Seq(Row) /\ edges \in Seq(Row)
      /\ n \in Nat /\ Len(dense) = n /\ Len(doc_terms) = n /\ Len(edges) = n
      /\ url_index \in [Present -> 1..n]
      /\ \A k \in Present : meta[url_index[k]].url_key = k
  BY DEF Inv, TypeOK, Consistent, Parallel, IndexAgrees
<1>2. /\ doc.url_key \in Present
      /\ meta[id].content_hash # doc.content_hash
      /\ meta' = [meta EXCEPT ![id] = [doc EXCEPT !.pinned = kept]]
      /\ dense' = [dense EXCEPT ![id] = RowOf(doc)]
      /\ doc_terms' = [doc_terms EXCEPT ![id] = RowOf(doc)]
      /\ edges' = [edges EXCEPT ![id] = RowOf(doc)]
      /\ result' = Returned("updated", 0)
      /\ url_index' = url_index
  BY DEF UpsertUpdated
<1>3. id \in 1..n /\ Present' = Present
  BY <1>1, <1>2 DEF Present
<1>4. Record(id)' = Map!EntryOf(doc, kept)
  <2>1. /\ meta'[id] = [doc EXCEPT !.pinned = kept]
        /\ dense'[id] = RowOf(doc)
        /\ doc_terms'[id] = RowOf(doc)
        /\ edges'[id] = RowOf(doc)
    BY <1>1, <1>2, <1>3
  <2>2. /\ meta'[id].content_hash = doc.content_hash
        /\ meta'[id].fetched_at_ms = doc.fetched_at_ms
        /\ meta'[id].etag = doc.etag
        /\ meta'[id].pinned = kept
    BY <2>1 DEF Documents
  <2>. QED  BY <1>2, <2>1, <2>2 DEF Record, Map!EntryOf, RowOf
<1>5. ASSUME NEW k \in Present, k # doc.url_key
      PROVE  Record(url_index[k])' = Record(url_index[k])
  <2>1. url_index[k] \in 1..n /\ url_index[k] # id
    BY <1>1, <1>2, <1>5
  <2>2. /\ meta'[url_index[k]] = meta[url_index[k]]
        /\ dense'[url_index[k]] = dense[url_index[k]]
        /\ doc_terms'[url_index[k]] = doc_terms[url_index[k]]
        /\ edges'[url_index[k]] = edges[url_index[k]]
    BY <1>1, <1>2, <2>1
  <2>. QED  BY <1>2, <2>2 DEF Record
<1>6. Entries' = [k \in Present \cup {doc.url_key} |->
                    IF k = doc.url_key THEN Map!EntryOf(doc, kept)
                                       ELSE Entries[k]]
  BY <1>2, <1>3, <1>4, <1>5 DEF Entries
<1>7. Entries[doc.url_key].pinned = meta[id].pinned
      /\ Entries[doc.url_key].content_hash = meta[id].content_hash
  BY <1>2 DEF Entries, Record
<1>. QED
  BY <1>2, <1>6, <1>7
     DEF Map!Update, Map!Put, Map!Returned, Returned, Entries, Record

LEMMA RemoveMap ==
  ASSUME Inv, NEW key \in Keys, Remove(key)
  PROVE  Map!Drop(key)
<1>. DEFINE n == Len(meta)
            id == url_index[key]
            moved_key == meta[n].url_key
<1>1. CASE key \in Present
  <2>1. /\ meta \in Seq(DocMeta) /\ dense \in Seq(Row)
        /\ doc_terms \in Seq(Row) /\ edges \in Seq(Row)
        /\ n \in Nat /\ Len(dense) = n /\ Len(doc_terms) = n /\ Len(edges) = n
        /\ url_index \in [Present -> 1..n]
        /\ \A k \in Present : meta[url_index[k]].url_key = k
        /\ \A i \in 1..n : url_index[meta[i].url_key] = i
    <3>1. /\ meta \in Seq(DocMeta) /\ dense \in Seq(Row)
          /\ doc_terms \in Seq(Row) /\ edges \in Seq(Row)
          /\ Len(dense) = n /\ Len(doc_terms) = n /\ Len(edges) = n
          /\ url_index \in [Present -> 1..n]
      BY DEF Inv, TypeOK, Consistent, Parallel
    <3>2. n \in Nat /\ DOMAIN meta = 1..n
      BY <3>1
    <3>. QED  BY <3>1, <3>2 DEF Inv, Consistent, IndexAgrees
  <2>2. /\ meta' = SwapRemove(meta, id)
        /\ dense' = SwapRemove(dense, id)
        /\ doc_terms' = SwapRemove(doc_terms, id)
        /\ edges' = SwapRemove(edges, id)
        /\ url_index' = [k \in Present \ {key} |->
                           IF id # n /\ k = moved_key
                             THEN id ELSE url_index[k]]
        /\ result' = Returned("removed", 0)
    BY <1>1 DEF Remove
  <2>3. Present' = Present \ {key}
    BY <2>2 DEF Present
  <2>4. ASSUME NEW k \in Present \ {key}
        PROVE  Record(url_index[k])' = Record(url_index[k])
    <3>1. url_index[k] \in 1..n /\ url_index[k] # id /\ id \in 1..n
      BY <1>1, <2>1
    <3>2. CASE url_index[k] = n
      <4>1. k = moved_key /\ id \in 1..(n - 1)
        BY <2>1, <3>1, <3>2
      <4>2. url_index'[k] = id
        BY <2>2, <3>1, <3>2, <4>1
      <4>3. /\ meta'[id] = meta[n]
            /\ dense'[id] = dense[n]
            /\ doc_terms'[id] = doc_terms[n]
            /\ edges'[id] = edges[n]
        BY <2>1, <2>2, <4>1 DEF SwapRemove
      <4>. QED  BY <3>2, <4>2, <4>3 DEF Record
    <3>3. CASE url_index[k] # n
      <4>1. k # moved_key /\ url_index[k] \in 1..(n - 1)
        BY <2>1, <3>1, <3>3
      <4>2. url_index'[k] = url_index[k]
        BY <2>2, <4>1
      <4>3. /\ meta'[url_index[k]] = meta[url_index[k]]
            /\ dense'[url_index[k]] = dense[url_index[k]]
            /\ doc_terms'[url_index[k]] = doc_terms[url_index[k]]
            /\ edges'[url_index[k]] = edges[url_index[k]]
        BY <2>1, <2>2, <3>1, <4>1 DEF SwapRemove
      <4>. QED  BY <4>2, <4>3 DEF Record
    <3>. QED  BY <3>2, <3>3
  <2>5. Entries' = [k \in Present \ {key} |-> Entries[k]]
    BY <2>3, <2>4 DEF Entries
  <2>. QED
    BY <1>1, <2>2, <2>5
       DEF Map!Drop, Map!Returned, Returned, Entries, Record
<1>2. CASE key \notin Present
  <2>1. /\ UNCHANGED <<meta, dense, doc_terms, edges, url_index>>
        /\ result' = Returned("absent", 0)
    BY <1>2 DEF Remove, arrays
  <2>2. Entries' = Entries /\ Present \ {key} = Present
    BY <1>2, <2>1 DEF Entries, Record, Present
  <2>3. Entries = [k \in Present \ {key} |-> Entries[k]]
    <3>1. Present \ {key} = Present
      BY <1>2
    <3>2. Entries = [k \in Present |-> Entries[k]]
      BY DEF Entries
    <3>. QED  BY <3>1, <3>2
  <2>. QED
    BY <1>2, <2>1, <2>2, <2>3
       DEF Map!Drop, Map!Returned, Returned, Entries, Record
<1>. QED  BY <1>1, <1>2

LEMMA UnchangedMap ==
  ASSUME Inv, NEW doc \in Documents, UpsertUnchanged(doc)
  PROVE  Map!Keep(doc)
<1>1. /\ doc.url_key \in Present
      /\ meta[url_index[doc.url_key]].content_hash = doc.content_hash
      /\ result' = Returned("unchanged", 0)
      /\ UNCHANGED <<meta, dense, doc_terms, edges, url_index>>
  BY DEF UpsertUnchanged, arrays
<1>2. Entries' = Entries
  BY <1>1 DEF Entries, Record, Present
<1>3. Entries[doc.url_key].content_hash = doc.content_hash
  BY <1>1 DEF Entries, Record
<1>. QED
  BY <1>1, <1>2, <1>3 DEF Map!Keep, Map!Returned, Returned, Entries, Record

LEMMA TouchMap ==
  ASSUME Inv, NEW key \in Keys, NEW now_ms \in Times, Touch(key, now_ms)
  PROVE  Map!Refetched(key, now_ms)
<1>. DEFINE id == url_index[key]
<1>1. CASE key \in Present
  <2>1. /\ meta \in Seq(DocMeta)
        /\ url_index \in [Present -> 1..Len(meta)]
        /\ \A k \in Present : meta[url_index[k]].url_key = k
    BY DEF Inv, TypeOK, Consistent, IndexAgrees
  <2>2. /\ meta' = [meta EXCEPT ![id] =
                      [meta[id] EXCEPT !.fetched_at_ms = now_ms]]
        /\ result' = Returned("touched", 0)
        /\ UNCHANGED <<dense, doc_terms, edges, url_index>>
    BY <1>1 DEF Touch
  <2>3. id \in 1..Len(meta) /\ Present' = Present
    BY <1>1, <2>1, <2>2 DEF Present
  <2>4. Record(id)' = [Record(id) EXCEPT !.fetched_at_ms = now_ms]
    <3>1. meta'[id] = [meta[id] EXCEPT !.fetched_at_ms = now_ms]
      BY <2>1, <2>2, <2>3
    <3>2. meta[id] \in DocMeta
      BY <2>1, <2>3
    <3>3. /\ meta'[id].content_hash = meta[id].content_hash
          /\ meta'[id].fetched_at_ms = now_ms
          /\ meta'[id].etag = meta[id].etag
          /\ meta'[id].pinned = meta[id].pinned
      BY <3>1, <3>2 DEF DocMeta, Documents
    <3>. QED  BY <2>2, <3>3 DEF Record
  <2>5. ASSUME NEW k \in Present, k # key
        PROVE  Record(url_index[k])' = Record(url_index[k])
    <3>1. url_index[k] \in 1..Len(meta) /\ url_index[k] # id
      BY <1>1, <2>1, <2>5
    <3>2. meta'[url_index[k]] = meta[url_index[k]]
      BY <2>1, <2>2, <3>1
    <3>. QED  BY <2>2, <3>2 DEF Record
  <2>6. Entries' = [k \in Present \cup {key} |->
                      IF k = key
                        THEN [Entries[key] EXCEPT !.fetched_at_ms = now_ms]
                        ELSE Entries[k]]
    <3>1. Entries[key] = Record(id)
      BY <1>1 DEF Entries
    <3>2. Entries' = [k \in Present |-> Record(url_index[k])']
      BY <2>3 DEF Entries
    <3>3. ASSUME NEW k \in Present
          PROVE  Record(url_index[k])' =
                   IF k = key
                     THEN [Entries[key] EXCEPT !.fetched_at_ms = now_ms]
                     ELSE Entries[k]
      <4>1. CASE k = key
        BY <2>2, <2>4, <3>1, <4>1
      <4>2. CASE k # key
        BY <2>5, <4>2 DEF Entries
      <4>. QED  BY <4>1, <4>2
    <3>4. Present \cup {key} = Present
      BY <1>1
    <3>. QED  BY <3>2, <3>3, <3>4
  <2>. QED
    BY <1>1, <2>2, <2>6
       DEF Map!Refetched, Map!Put, Map!Returned, Returned, Entries, Record
<1>2. CASE key \notin Present
  <2>1. /\ UNCHANGED <<meta, dense, doc_terms, edges, url_index>>
        /\ result' = Returned("absent", 0)
    BY <1>2 DEF Touch, arrays
  <2>2. Entries' = Entries
    BY <2>1 DEF Entries, Record, Present
  <2>. QED
    BY <1>2, <2>1, <2>2
       DEF Map!Refetched, Map!Returned, Returned, Entries, Record
<1>. QED  BY <1>1, <1>2

(***************************************************************************)
(* Counting documents by id or by key gives the same number: the map is a  *)
(* bijection.                                                              *)
(***************************************************************************)
LEMMA SameCount ==
  ASSUME Inv, NEW D \in SUBSET (DOMAIN meta), NEW K \in SUBSET Present,
         \A k \in K : url_index[k] \in D,
         \A i \in D : meta[i].url_key \in K
  PROVE  Cardinality(D) = Cardinality(K)
<1>1. meta \in Seq(DocMeta)
  BY DEF Inv, TypeOK
<1>2. IsFiniteSet(D)
  <2>1. DOMAIN meta = 1..Len(meta) /\ Len(meta) \in Nat
    BY <1>1
  <2>2. IsFiniteSet(1..Len(meta))
    BY <2>1, FS_Interval
  <2>. QED  BY <2>1, <2>2, FS_Subset
<1>. DEFINE keyOf == [i \in D |-> meta[i].url_key]
<1>3. keyOf \in Bijection(D, K)
  <2>1. keyOf \in [D -> K]
    OBVIOUS
  <2>2. \A i \in D : url_index[keyOf[i]] = i
    BY DEF Inv, Consistent, IndexAgrees
  <2>3. \A k \in K : keyOf[url_index[k]] = k
    BY DEF Inv, Consistent, IndexAgrees
  <2>4. keyOf \in Injection(D, K)
    <3>. HIDE DEF keyOf
    <3>. QED  BY <2>1, <2>2 DEF Injection, IsInjective
  <2>5. keyOf \in Surjection(D, K)
    <3>. HIDE DEF keyOf
    <3>. QED  BY <2>1, <2>3 DEF Surjection
  <2>. QED  BY <2>4, <2>5 DEF Bijection
<1>. HIDE DEF keyOf
<1>4. ExistsBijection(D, K)
  BY <1>3 DEF ExistsBijection
<1>. QED  BY <1>2, <1>4, FS_Bijection

(***************************************************************************)
(* LinkMap counts with the same operator.                                  *)
(***************************************************************************)
LEMMA SameCardinality ==
  ASSUME NEW S
  PROVE  Map!Cardinality(S) = Cardinality(S)
BY DEF Map!Cardinality, Cardinality, Map!IsFiniteSet, IsFiniteSet

LEMMA PinMap ==
  ASSUME Inv, NEW prefix \in Prefixes, NEW pinned \in BOOLEAN,
         SetPinned(prefix, pinned)
  PROVE  Map!Pin(prefix, pinned)
<1>. DEFINE ids  == {id \in DOMAIN meta : meta[id].url_key \in prefix
                                          /\ meta[id].pinned # pinned}
            keys == {k \in Present \cap prefix : Entries[k].pinned # pinned}
<1>1. /\ meta \in Seq(DocMeta)
      /\ url_index \in [Present -> DOMAIN meta]
      /\ \A k \in Present : meta[url_index[k]].url_key = k
      /\ \A i \in DOMAIN meta : /\ meta[i].url_key \in Present
                                /\ url_index[meta[i].url_key] = i
  BY DEF Inv, TypeOK, Consistent, IndexAgrees
<1>2. /\ meta' = [id \in DOMAIN meta |->
                    IF meta[id].url_key \in prefix
                      THEN [meta[id] EXCEPT !.pinned = pinned]
                      ELSE meta[id]]
      /\ result' = Returned("pins", Cardinality(ids))
      /\ UNCHANGED <<dense, doc_terms, edges, url_index>>
  BY DEF SetPinned
<1>3. \A k \in Present : Entries[k].pinned = meta[url_index[k]].pinned
  BY DEF Entries, Record
<1>4. Cardinality(ids) = Cardinality(keys)
  <2>1. \A k \in keys : url_index[k] \in ids
    BY <1>1, <1>3
  <2>2. \A i \in ids : meta[i].url_key \in keys
    BY <1>1, <1>3
  <2>3. ids \in SUBSET (DOMAIN meta) /\ keys \in SUBSET Present
    OBVIOUS
  <2>. HIDE DEF ids, keys
  <2>. QED  BY <2>1, <2>2, <2>3, SameCount
<1>5. ASSUME NEW k \in Present
      PROVE  Record(url_index[k])' =
               IF k \in prefix THEN [Entries[k] EXCEPT !.pinned = pinned]
                               ELSE Entries[k]
  <2>1. /\ url_index[k] \in DOMAIN meta
        /\ meta[url_index[k]].url_key = k
        /\ Entries[k] = Record(url_index[k])
        /\ meta[url_index[k]] \in DocMeta
    BY <1>1 DEF Entries
  <2>2. CASE k \in prefix
    <3>1. meta'[url_index[k]] = [meta[url_index[k]] EXCEPT !.pinned = pinned]
      BY <1>2, <2>1, <2>2
    <3>2. /\ meta'[url_index[k]].content_hash = meta[url_index[k]].content_hash
          /\ meta'[url_index[k]].fetched_at_ms
               = meta[url_index[k]].fetched_at_ms
          /\ meta'[url_index[k]].etag = meta[url_index[k]].etag
          /\ meta'[url_index[k]].pinned = pinned
      BY <2>1, <3>1 DEF DocMeta, Documents
    <3>. QED  BY <1>2, <2>1, <2>2, <3>2 DEF Record
  <2>3. CASE k \notin prefix
    <3>1. meta'[url_index[k]] = meta[url_index[k]]
      BY <1>2, <2>1, <2>3
    <3>. QED  BY <1>2, <2>1, <2>3, <3>1 DEF Record
  <2>. QED  BY <2>2, <2>3
<1>6. Entries' = [k \in Present |->
                    IF k \in prefix THEN [Entries[k] EXCEPT !.pinned = pinned]
                                    ELSE Entries[k]]
  <2>1. Present' = Present
    BY <1>2 DEF Present
  <2>2. Entries' = [k \in Present |-> Record(url_index[k])']
    BY <1>2, <2>1 DEF Entries
  <2>. QED  BY <1>5, <2>2
<1>7. DOMAIN Entries = Present
  BY DEF Entries
<1>8. /\ Entries' = [k \in DOMAIN Entries |->
                       IF k \in prefix THEN [Entries[k] EXCEPT !.pinned = pinned]
                                       ELSE Entries[k]]
      /\ result' = Map!Returned("pins",
                     Map!Cardinality({k \in DOMAIN Entries \cap prefix :
                                    Entries[k].pinned # pinned}))
  <2>1. result' = Map!Returned("pins", Map!Cardinality(keys))
    BY <1>2, <1>4, SameCardinality DEF Map!Returned, Returned
  <2>2. keys = {k \in DOMAIN Entries \cap prefix : Entries[k].pinned # pinned}
    BY <1>7
  <2>3. DOMAIN Entries = Present
    BY <1>7
  <2>4. Entries' = [k \in DOMAIN Entries |->
                      IF k \in prefix THEN [Entries[k] EXCEPT !.pinned = pinned]
                                      ELSE Entries[k]]
    BY <1>6, <2>3, Zenon
  <2>5. result' = Map!Returned("pins",
                    Map!Cardinality({k \in DOMAIN Entries \cap prefix :
                                   Entries[k].pinned # pinned}))
    <3>. HIDE DEF keys
    <3>. QED  BY <2>1, <2>2, Zenon
  <2>. QED  BY <2>4, <2>5
<1>. QED  BY <1>8, Zenon DEF Map!Pin, Entries, Record

LEMMA StepMap == Inv /\ [Next]_vars => [Map!Next]_Map!lvars
<1>. SUFFICES ASSUME Inv, [Next]_vars
              PROVE  Map!Next \/ UNCHANGED Map!lvars
  OBVIOUS
<1>1. ASSUME NEW doc \in Documents, Upsert(doc)
      PROVE  Map!Next
  <2>1. CASE UpsertMismatch
    <3>1. /\ UNCHANGED <<meta, dense, doc_terms, edges, url_index>>
          /\ result' = Returned("dim_mismatch", 0)
      BY <2>1 DEF UpsertMismatch, arrays
    <3>2. Map!Refuse
      BY <3>1 DEF Map!Refuse, Map!Returned, Returned, Present
    <3>. QED  BY <3>2 DEF Map!Next
  <2>. QED
    BY <1>1, <2>1, AddedMap, UpdatedMap, UnchangedMap DEF Upsert, Map!Next
<1>2. ASSUME NEW key \in Keys, Remove(key)
      PROVE  Map!Next
  BY <1>2, RemoveMap DEF Map!Next
<1>3. ASSUME NEW key \in Keys, NEW now_ms \in Times, Touch(key, now_ms)
      PROVE  Map!Next
  BY <1>3, TouchMap DEF Map!Next
<1>4. ASSUME NEW prefix \in Prefixes, NEW pinned \in BOOLEAN,
             SetPinned(prefix, pinned)
      PROVE  Map!Next
  BY <1>4, PinMap DEF Map!Next
<1>5. CASE UNCHANGED vars
  BY <1>5 DEF vars, Map!lvars, Present
<1>. QED  BY <1>1, <1>2, <1>3, <1>4, <1>5 DEF Next

(***************************************************************************)
(* Through every sequence of calls the four arrays and the map behave like *)
(* one map of whole documents, for any sets of keys, versions and prefixes.*)
(***************************************************************************)
THEOREM Refinement == Spec => MapSpec
  BY Invariance, InitMap, StepMap, PTL DEF Spec, MapSpec, Map!Spec

=============================================================================
