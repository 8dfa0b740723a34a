---------------------------- MODULE Index_proofs ----------------------------
(***************************************************************************)
(* Proofs about retrieval and about the life of an index.  The scan with a *)
(* heap is exact for every corpus, query, filter and length of the result, *)
(* and the quantised tiers are as exact as TiersExact says.  The file      *)
(* codec reads back what it wrote and refuses what was cut; the postings   *)
(* give the terms back.  So an index is faithful to the documents put into *)
(* it, however it was built, saved, opened, thawed and changed; its        *)
(* related pages are those that the links of these documents say, a search *)
(* returns what the definition of the ranking selects, and a lookup of the *)
(* knowledge base fuses both of its halves page by page.                   *)
(***************************************************************************)
EXTENDS Lookup, Induction, FiniteSetTheorems, SequenceTheorems, TLAPS

(***************************************************************************)
(* Ranked lists.                                                           *)
(***************************************************************************)

\* Scored documents, each once: what every result is made of.
Ranked(scored) ==
  /\ IsFiniteSet(scored)
  /\ \A x \in scored : x = [id |-> x.id, score |-> x.score] /\ x.id \in Nat /\ x.score \in Int
  /\ \A x, y \in scored : x.id = y.id => x = y

\* Some of the scored documents are scored documents.
LEMMA RankedPart ==
  ASSUME NEW A, Ranked(A), NEW B \in SUBSET A
  PROVE  Ranked(B)
<1>1. IsFiniteSet(B)
  BY FS_Subset DEF Ranked
<1>. QED
  BY <1>1 DEF Ranked

\* Such documents are in a strict order, all of them.
LEMMA BeforeOrder ==
  ASSUME NEW A, Ranked(A), NEW x \in A, NEW y \in A
  PROVE  /\ ~Before(x, x)
         /\ Before(x, y) => ~Before(y, x)
         /\ x # y => Before(x, y) \/ Before(y, x)
         /\ \A z \in A : Before(x, y) /\ Before(y, z) => Before(x, z)
<1>1. \A z \in A : z.id \in Nat /\ z.score \in Int
  BY DEF Ranked
<1>2. x # y => x.id # y.id
  BY DEF Ranked
<1>. QED
  BY <1>1, <1>2 DEF Before

\* The positions of documents are those of a sequence of them, each taken once.
LEMMA Positions ==
  ASSUME NEW A, Ranked(A)
  PROVE  /\ Cardinality(A) \in Nat
         /\ \A x \in A : Cardinality(Ahead(A, x)) \in 0..(Cardinality(A) - 1)
         /\ \A x, y \in A : Cardinality(Ahead(A, x)) = Cardinality(Ahead(A, y)) => x = y
         /\ \A r \in 1..Cardinality(A) : \E x \in A : Cardinality(Ahead(A, x)) = r - 1
<1>. DEFINE n == Cardinality(A)
            pos == [x \in A |-> Cardinality(Ahead(A, x))]
<1>1. IsFiniteSet(A) /\ n \in Nat
  BY FS_CardinalityType DEF Ranked
<1>2. ASSUME NEW x \in A
      PROVE  /\ Ahead(A, x) \subseteq A \ {x}
             /\ IsFiniteSet(Ahead(A, x)) /\ Cardinality(Ahead(A, x)) \in 0..(n - 1)
  <2>1. Ahead(A, x) \subseteq A \ {x}
    BY BeforeOrder DEF Ahead
  <2>2. IsFiniteSet(A \ {x}) /\ Cardinality(A \ {x}) = n - 1
    BY <1>1, FS_RemoveElement
  <2>3. /\ IsFiniteSet(Ahead(A, x)) /\ Cardinality(Ahead(A, x)) <= n - 1
        /\ Cardinality(Ahead(A, x)) \in Nat
    BY <2>1, <2>2, FS_Subset, FS_CardinalityType
  <2>. QED
    BY <1>1, <2>1, <2>3
<1>3. ASSUME NEW x \in A, NEW y \in A, Before(x, y)
      PROVE  Cardinality(Ahead(A, x)) # Cardinality(Ahead(A, y))
  <2>1. Ahead(A, x) \subseteq Ahead(A, y)
    BY <1>3, BeforeOrder DEF Ahead
  <2>2. x \in Ahead(A, y) /\ x \notin Ahead(A, x)
    BY <1>3, BeforeOrder DEF Ahead
  <2>3. IsFiniteSet(Ahead(A, y))
    BY <1>2
  <2>. QED
    BY <2>1, <2>2, <2>3, FS_Subset
<1>4. ASSUME NEW x \in A, NEW y \in A, Cardinality(Ahead(A, x)) = Cardinality(Ahead(A, y))
      PROVE  x = y
  BY <1>3, <1>4, BeforeOrder
<1>5. ASSUME NEW r \in 1..n, \A x \in A : Cardinality(Ahead(A, x)) # r - 1
      PROVE  FALSE
  <2>. DEFINE T == (0..(n - 1)) \ {r - 1}
  <2>1. IsFiniteSet(0..(n - 1)) /\ Cardinality(0..(n - 1)) = n
    <3>1. 0 \in Int /\ n - 1 \in Int /\ ~(0 > n - 1) /\ (n - 1) - 0 + 1 = n
      BY <1>1, <1>5
    <3>. HIDE DEF n
    <3>. QED
      BY <3>1, FS_Interval
  <2>2. IsFiniteSet(T) /\ Cardinality(T) = n - 1
    <3>. DEFINE Q == 0..(n - 1)
    <3>1. r - 1 \in Q
      BY <1>1, <1>5
    <3>2. IsFiniteSet(Q) /\ Cardinality(Q) = n
      BY <2>1
    <3>3. T = Q \ {r - 1}
      OBVIOUS
    <3>. HIDE DEF Q, T
    <3>4. IsFiniteSet(Q \ {r - 1}) /\ Cardinality(Q \ {r - 1}) = Cardinality(Q) - 1
      BY <3>1, <3>2, FS_RemoveElement
    <3>. QED
      BY <3>2, <3>3, <3>4
  <2>3. pos \in [A -> T]
    BY <1>2, <1>5
  <2>4. Cardinality(T) < Cardinality(A)
    BY <1>1, <2>2
  <2>. HIDE DEF T, pos, n
  <2>5. \E x, y \in A : x # y /\ pos[x] = pos[y]
    <3>1. IsFiniteSet(A) /\ IsFiniteSet(T)
      BY <1>1, <2>2
    <3>. QED
      BY <2>3, <2>4, <3>1, FS_PigeonHole
  <2>. QED
    BY <2>5, <1>4 DEF pos
<1>. QED
  BY <1>1, <1>2, <1>4, <1>5

\* Of several documents one comes last.
LEMMA LastOne ==
  ASSUME NEW A, Ranked(A), A # {}
  PROVE  /\ Peek(A) \in A
         /\ \A y \in A : y = Peek(A) \/ Before(y, Peek(A))
<1>1. IsFiniteSet(A) /\ Cardinality(A) \in Nat /\ Cardinality(A) # 0
  BY Positions, FS_EmptySet DEF Ranked
<1>2. Cardinality(A) \in 1..Cardinality(A)
  BY <1>1
<1>3. PICK x \in A : Cardinality(Ahead(A, x)) = Cardinality(A) - 1
  BY <1>2, Positions
<1>4. IsFiniteSet(A \ {x}) /\ Cardinality(A \ {x}) = Cardinality(A) - 1
  BY <1>1, FS_RemoveElement
<1>5. Ahead(A, x) \in SUBSET (A \ {x})
  BY BeforeOrder DEF Ahead
<1>6. Ahead(A, x) = A \ {x}
  BY <1>3, <1>4, <1>5, FS_Subset
<1>7. \A y \in A : y = x \/ Before(y, x)
  BY <1>6 DEF Ahead
<1>. QED
  BY <1>7 DEF Peek

\* The k best: all there are or k, each before all others.
Best(A, k, H) ==
  /\ H \subseteq A
  /\ H = A \/ Cardinality(H) = k
  /\ Cardinality(H) <= k
  /\ \A x \in H, y \in A \ H : Before(x, y)

\* A heap that has the k best so far and is offered a document of a higher id
\* has the k best again: among equal scores the earlier document is better, so
\* that only a better score displaces one.
LEMMA Offered ==
  ASSUME NEW A, NEW x, x \notin A, Ranked(A \cup {x}), NEW k \in Nat \ {0},
         \A y \in A : y.id < x.id, NEW H, Best(A, k, H)
  PROVE  Best(A \cup {x}, k, Consider(H, k, x))
<1>. DEFINE B == A \cup {x}
<1>1. Ranked(H) /\ H \subseteq A /\ x \notin H /\ IsFiniteSet(H) /\ Cardinality(H) \in Nat
  <2>1. H \subseteq A /\ x \notin H
    BY DEF Best
  <2>2. Ranked(H)
    BY <2>1, RankedPart
  <2>. QED
    BY <2>1, <2>2, FS_CardinalityType DEF Ranked
<1>2. x \in B /\ \A y \in B : y.id \in Nat /\ y.score \in Int
  BY DEF Ranked
<1>3. CASE Cardinality(H) < k
  <2>1. H = A /\ Consider(H, k, x) = B
    BY <1>1, <1>3 DEF Best, Consider
  <2>2. Cardinality(B) = Cardinality(H) + 1
    BY <1>1, <2>1, FS_AddElement
  <2>. QED
    BY <1>1, <1>3, <2>1, <2>2 DEF Best
<1>4. CASE ~(Cardinality(H) < k)
  <2>. DEFINE p == Peek(H)
  <2>1. Cardinality(H) = k /\ H # {}
    BY <1>1, <1>4, FS_EmptySet DEF Best
  <2>2. p \in H /\ \A y \in H : y = p \/ Before(y, p)
    BY <1>1, <2>1, LastOne
  <2>. HIDE DEF p
  <2>3. CASE x.score > p.score
    <3>1. Consider(H, k, x) = (H \ {p}) \cup {x}
      BY <1>4, <2>3 DEF Consider, p
    <3>2. Cardinality((H \ {p}) \cup {x}) = k
      <4>1. IsFiniteSet(H \ {p}) /\ Cardinality(H \ {p}) = k - 1
        BY <1>1, <2>1, <2>2, FS_RemoveElement
      <4>2. Cardinality((H \ {p}) \cup {x}) = (k - 1) + 1
        BY <1>1, <4>1, FS_AddElement
      <4>. QED
        BY <4>2
    <3>3. Before(x, p)
      BY <2>3 DEF Before
    <3>4. ASSUME NEW h \in (H \ {p}) \cup {x}, NEW y \in B \ ((H \ {p}) \cup {x})
          PROVE  Before(h, y)
      <4>1. h \in B /\ p \in B /\ (y = p \/ y \in A \ H)
        BY <1>1, <2>2
      <4>2. Before(h, p)
        BY <2>2, <3>3
      <4>3. y \in A \ H => Before(p, y)
        BY <2>2 DEF Best
      <4>. QED
        BY <4>1, <4>2, <4>3, BeforeOrder
    <3>. QED
      BY <1>1, <3>1, <3>2, <3>4 DEF Best
  <2>4. CASE ~(x.score > p.score)
    <3>1. Consider(H, k, x) = H
      BY <1>4, <2>4 DEF Consider, p
    <3>2. p \in A /\ p \in B
      BY <1>1, <2>2
    <3>3. Before(p, x)
      <4>1. p.id < x.id
        BY <3>2
      <4>. QED
        BY <1>2, <2>4, <3>2, <4>1 DEF Before
    <3>4. \A h \in H : Before(h, x)
      BY <1>1, <1>2, <2>2, <3>2, <3>3, BeforeOrder
    <3>5. \A h \in H, y \in B \ H : Before(h, y)
      BY <3>4 DEF Best
    <3>. QED
      BY <1>1, <2>1, <3>1, <3>5 DEF Best
  <2>. QED
    BY <2>3, <2>4
<1>. QED
  BY <1>3, <1>4

\* The k best in their order are the first k of all.
LEMMA FirstOfAll ==
  ASSUME NEW A, Ranked(A), NEW k \in Nat, NEW H, Best(A, k, H)
  PROVE  Sorted(H) = Truncate(Sorted(A), k)
<1>. DEFINE n == Cardinality(A)
            m == Cardinality(H)
            at(S) == [r \in 1..Cardinality(S) |->
                        CHOOSE x \in S : Cardinality(Ahead(S, x)) = r - 1]
<1>1. H \in SUBSET A /\ Ranked(H) /\ n \in Nat /\ m \in Nat /\ IsFiniteSet(A)
  <2>1. H \in SUBSET A
    BY DEF Best
  <2>. QED
    BY <2>1, RankedPart, Positions DEF Ranked
<1>2. m = IF k < n THEN k ELSE n
  <2>1. m <= n /\ (n = m => A = H)
    BY <1>1, FS_Subset
  <2>. QED
    BY <1>1, <2>1 DEF Best
<1>3. \A x \in H : Ahead(H, x) = Ahead(A, x)
  BY <1>1, BeforeOrder DEF Ahead, Best
<1>4. ASSUME NEW r \in 1..m
      PROVE  (CHOOSE x \in H : Cardinality(Ahead(H, x)) = r - 1)
               = (CHOOSE x \in A : Cardinality(Ahead(A, x)) = r - 1)
  <2>1. PICK x \in H : Cardinality(Ahead(H, x)) = r - 1
    BY <1>1, <1>4, Positions
  <2>2. \A y \in H : Cardinality(Ahead(H, y)) = r - 1 => y = x
    BY <1>1, <2>1, Positions
  <2>3. x \in A /\ Cardinality(Ahead(A, x)) = r - 1
    BY <1>1, <1>3, <2>1
  <2>4. \A y \in A : Cardinality(Ahead(A, y)) = r - 1 => y = x
    BY <1>1, <2>3, Positions
  <2>5. (CHOOSE y \in H : Cardinality(Ahead(H, y)) = r - 1) = x
    BY <2>1, <2>2
  <2>6. (CHOOSE y \in A : Cardinality(Ahead(A, y)) = r - 1) = x
    BY <2>3, <2>4
  <2>. QED
    BY <2>5, <2>6
<1>5. ASSUME NEW S, Ranked(S)
      PROVE  Sorted(S) = at(S) /\ at(S) \in Seq(S) /\ Len(at(S)) = Cardinality(S)
  <2>1. \A r \in 1..Cardinality(S) :
          (CHOOSE x \in S : Cardinality(Ahead(S, x)) = r - 1) \in S
    BY <1>5, Positions
  <2>2. Cardinality(S) \in Nat
    BY <1>5, Positions
  <2>3. at(S) \in [1..Cardinality(S) -> S]
    BY <2>1
  <2>4. at(S) \in Seq(S) /\ Len(at(S)) = Cardinality(S)
    <3>. DEFINE seq == at(S)
                c == Cardinality(S)
    <3>1. c \in Nat /\ seq \in [1..c -> S]
      BY <2>2, <2>3
    <3>. HIDE DEF seq, c
    <3>2. seq \in Seq(S) /\ Len(seq) = c
      BY <3>1
    <3>. QED
      BY <3>2 DEF seq, c
  <2>. QED
    BY <2>4 DEF Sorted
<1>6. Sorted(A) \in Seq(A) /\ Len(Sorted(A)) = n
      /\ \A r \in 1..n : Sorted(A)[r] = CHOOSE x \in A : Cardinality(Ahead(A, x)) = r - 1
  BY <1>5 DEF Sorted
<1>7. Truncate(Sorted(A), k) = [r \in 1..m |-> Sorted(A)[r]]
  <2>. DEFINE seq == Sorted(A)
  <2>. HIDE DEF seq, m, n
  <2>1. Truncate(seq, k) = SubSeq(seq, 1, m)
    BY <1>2, <1>6 DEF Truncate, seq
  <2>2. SubSeq(seq, 1, m) = [r \in 1..m |-> seq[r]]
    <3>1. seq \in Seq(A) /\ m <= Len(seq) /\ m \in Nat
      BY <1>1, <1>2, <1>6 DEF seq
    <3>. QED
      BY <3>1
  <2>. QED
    BY <2>1, <2>2 DEF seq
<1>8. Sorted(H) = [r \in 1..m |-> Sorted(A)[r]]
  <2>1. \A r \in 1..m : r \in 1..n
    BY <1>1, <1>2
  <2>2. Sorted(H) = [r \in 1..m |-> CHOOSE x \in H : Cardinality(Ahead(H, x)) = r - 1]
    BY DEF Sorted
  <2>3. \A r \in 1..m : Sorted(A)[r] = CHOOSE x \in H : Cardinality(Ahead(H, x)) = r - 1
    BY <1>4, <1>6, <2>1
  <2>. QED
    BY <2>2, <2>3
<1>. QED
  BY <1>7, <1>8

(***************************************************************************)
(* The dense scan.                                                         *)
(***************************************************************************)

\* A similarity is an integer.
LEMMA SimilarityInt ==
  ASSUME NEW dim \in Nat, NEW a \in [1..dim -> Int], NEW b \in [1..dim -> Int], NEW metric
  PROVE  Dot(a, b) \in Int /\ Similarity(a, b, metric) \in Int
<1>1. IsFiniteSet(1..dim)
  BY FS_Interval
<1>2. Dot(a, b) \in Int
  <2>. DEFINE f == [i \in 1..dim |-> a[i] * b[i]]
  <2>1. f \in [1..dim -> Int]
    OBVIOUS
  <2>. HIDE DEF f
  <2>2. SumFunction(f) \in Int
    BY <1>1, <2>1, SumInt
  <2>. QED
    BY <2>2 DEF Dot, f
<1>3. SumFunction([i \in 1..dim |-> (a[i] - b[i]) * (a[i] - b[i])]) \in Int
  <2>. DEFINE f == [i \in 1..dim |-> (a[i] - b[i]) * (a[i] - b[i])]
  <2>1. f \in [1..dim -> Int]
    OBVIOUS
  <2>. HIDE DEF f
  <2>2. SumFunction(f) \in Int
    BY <1>1, <2>1, SumInt
  <2>. QED
    BY <2>2 DEF f
<1>. QED
  BY <1>2, <1>3 DEF Similarity

\* Every document that the prefilter admits, with its score.
AllScored(query, rows, metric, allowed) ==
  {Scored(d, Similarity(query, rows[d], metric)) :
     d \in {e \in DOMAIN rows : Admits(allowed, e)}}

\* The scan finds the first k of the whole ranking.
ScanIsExact(query, rows, dim, k, metric, allowed) ==
  TopK(query, rows, dim, k, metric, allowed)
    = Truncate(Sorted(AllScored(query, rows, metric, allowed)), k)

\* So it does, with a heap of k documents, whatever the filter, the vectors and
\* the ties.
THEOREM DenseScan ==
  ASSUME NEW dim \in Nat \ {0}, NEW n \in Nat, NEW rows \in [1..n -> [1..dim -> Int]],
         NEW query \in [1..dim -> Int], NEW k \in Nat, NEW metric, NEW allowed
  PROVE  ScanIsExact(query, rows, dim, k, metric, allowed)
<1>. SUFFICES TopK(query, rows, dim, k, metric, allowed)
                = Truncate(Sorted(AllScored(query, rows, metric, allowed)), k)
  BY DEF ScanIsExact
<1>. DEFINE N == 1..n
            doc(d) == Scored(d, Similarity(query, rows[d], metric))
            U == {doc(d) : d \in N}
            A(j) == {doc(d) : d \in {e \in 1..j : Admits(allowed, e)}}
            Offer(heap, d) == IF Admits(allowed, d) THEN Consider(heap, k, doc(d)) ELSE heap
            pick == [s \in (SUBSET N) \ {{}} |-> Max(s)]
            op == [p \in N \X SUBSET U |-> Offer(p[2], p[1])]
            order == [d \in DOMAIN rows |-> d]
            Body(F) == [s \in SUBSET (DOMAIN order) |->
                          IF s = {} THEN {} ELSE Offer(F[s \ {Max(s)}], order[Max(s)])]
            it == CHOOSE F : F = Body(F)
<1>1. DOMAIN rows = N /\ DOMAIN order = N /\ IsFiniteSet(N) /\ \A d \in N : order[d] = d
  BY FS_Interval
<1>2. \A d \in N : /\ doc(d) = [id |-> d, score |-> doc(d).score]
                   /\ doc(d).id = d /\ d \in Nat /\ doc(d).score \in Int
  <2>. SUFFICES ASSUME NEW d \in N
                PROVE  /\ doc(d) = [id |-> d, score |-> doc(d).score]
                       /\ doc(d).id = d /\ d \in Nat /\ doc(d).score \in Int
    OBVIOUS
  <2>1. Similarity(query, rows[d], metric) \in Int
    BY SimilarityInt
  <2>. QED
    BY <2>1 DEF Scored
<1>. HIDE DEF doc
<1>3. ASSUME NEW s \in (SUBSET N) \ {{}}
      PROVE  Max(s) \in s /\ \A y \in s : Max(s) >= y
  <2>1. \E x \in s : \A y \in s : x >= y
    <3>1. s \subseteq 0..n /\ s # {}
      OBVIOUS
    <3>. QED
      BY <3>1, GreatestOf
  <2>. QED
    BY <2>1 DEF Max
<1>4. A(n) = AllScored(query, rows, metric, allowed)
  BY <1>1 DEF AllScored, doc
<1>5. Ranked(U) /\ \A j \in 0..n : A(j) \in SUBSET U /\ Ranked(A(j))
  <2>1. IsFiniteSet(U)
    <3>. DEFINE f == [d \in N |-> doc(d)]
    <3>1. f \in Surjection(N, U)
      BY DEF Surjection
    <3>. HIDE DEF f, U, N
    <3>. QED
      BY <1>1, <3>1, FS_Surjection
  <2>2. Ranked(U)
    BY <1>2, <2>1 DEF Ranked
  <2>3. \A j \in 0..n : A(j) \in SUBSET U
    OBVIOUS
  <2>. HIDE DEF U, A
  <2>. QED
    BY <2>2, <2>3, RankedPart
<1>6. CASE k = 0
  <2>1. TopK(query, rows, dim, k, metric, allowed) = <<>>
    BY <1>6 DEF TopK
  <2>2. Cardinality({}) = 0
    BY FS_EmptySet
  <2>3. Best(A(n), k, {})
    BY <1>6, <2>2 DEF Best
  <2>. HIDE DEF A
  <2>4. Sorted({}) = Truncate(Sorted(A(n)), k)
    BY <1>5, <2>3, FirstOfAll
  <2>5. Sorted({}) = <<>>
    BY <2>2 DEF Sorted
  <2>. QED
    BY <1>4, <2>1, <2>4, <2>5
<1>7. CASE k \in Nat \ {0}
  <2>1. TopK(query, rows, dim, k, metric, allowed) = Sorted(it[N])
    <3>1. Len(query) = dim
      OBVIOUS
    <3>. QED
      BY <1>1, <1>7, <3>1 DEF TopK, FoldLeft, MapThenFoldSet, doc
  <2>2. \A s \in (SUBSET N) \ {{}} : Max(s) \in s /\ Max(s) \in N
    BY <1>3
  <2>3. \A h \in SUBSET U, d \in N : Offer(h, d) \in SUBSET U
    BY DEF Consider
  <2>. HIDE DEF N, U, Offer
  <2>4. /\ pick \in [(SUBSET N) \ {{}} -> N]
        /\ \A s \in (SUBSET N) \ {{}} : pick[s] = Max(s) /\ pick[s] \in s
        /\ op \in [N \X SUBSET U -> SUBSET U]
        /\ \A d \in N, h \in SUBSET U : op[<<d, h>>] = Offer(h, d)
    BY <2>2, <2>3
  <2>. HIDE DEF pick, op
  <2>5. PICK h : Folding(N, SUBSET U, {}, pick, op, h)
    <3>1. {} \in SUBSET U /\ IsFiniteSet(N)
      BY <1>1
    <3>. QED
      BY <2>4, <3>1, FoldExists
  <2>6. h = Body(h)
    <3>0. h \in [SUBSET N -> SUBSET U]
      BY <2>5 DEF Folding
    <3>1. ASSUME NEW s \in (SUBSET N) \ {{}}
          PROVE  op[<<pick[s], h[s \ {pick[s]}]>>] = Offer(h[s \ {Max(s)}], order[Max(s)])
      <4>1. Max(s) \in N /\ s \ {Max(s)} \in SUBSET N /\ h[s \ {Max(s)}] \in SUBSET U
        BY <2>2, <3>0
      <4>. QED
        BY <1>1, <2>4, <4>1
    <3>2. \A s \in SUBSET N : h[s] = IF s = {} THEN {} ELSE Offer(h[s \ {Max(s)}], order[Max(s)])
      BY <2>5, <3>1 DEF Folding
    <3>3. h = [s \in SUBSET N |-> h[s]]
      BY <3>0
    <3>. HIDE DEF order
    <3>. QED
      BY <1>1, <3>2, <3>3
  <2>7. it = Body(it)
    <3>. HIDE DEF Body
    <3>1. \E F : F = Body(F)
      BY <2>6, Zenon
    <3>. QED
      BY <3>1, Zenon
  <2>. HIDE DEF it
  <2>8. it[{}] = {} /\ \A s \in (SUBSET N) \ {{}} : it[s] = Offer(it[s \ {Max(s)}], Max(s))
    <3>1. \A s \in SUBSET N : it[s] = IF s = {} THEN {} ELSE Offer(it[s \ {Max(s)}], order[Max(s)])
      <4>. HIDE DEF order
      <4>. QED
        BY <1>1, <2>7
    <3>. HIDE DEF order
    <3>. QED
      BY <1>1, <2>2, <3>1
  <2>. DEFINE T == {j \in 0..n : Best(A(j), k, it[1..j])}
  <2>9. 0 \in T
    <3>1. 1..0 = {} /\ A(0) = {}
      OBVIOUS
    <3>2. Best({}, k, {})
      BY <1>7, FS_EmptySet DEF Best
    <3>3. Best(A(0), k, it[1..0])
      BY <2>8, <3>1, <3>2
    <3>. HIDE DEF A
    <3>. QED
      BY <3>3
  <2>10. ASSUME NEW j \in 0..n, j \in T, j # n
         PROVE  j + 1 \in T
    <3>0. j \in Nat /\ j + 1 \in 0..n /\ j + 1 \in 1..n
      BY <2>10
    <3>1. j + 1 \in N /\ 1..(j + 1) \in (SUBSET N) \ {{}}
      <4>1. j + 1 \in 1..(j + 1) /\ \A i \in 1..(j + 1) : i \in 1..n
        BY <3>0
      <4>. QED
        BY <3>0, <4>1 DEF N
    <3>2. Max(1..(j + 1)) = j + 1
      <4>1. Max(1..(j + 1)) \in 1..(j + 1) /\ \A y \in 1..(j + 1) : Max(1..(j + 1)) >= y
        BY <1>3, <3>1 DEF N
      <4>2. j + 1 \in 1..(j + 1)
        BY <3>0
      <4>3. Max(1..(j + 1)) >= j + 1
        BY <4>1, <4>2
      <4>4. ASSUME NEW m \in 1..(j + 1), m >= j + 1 PROVE m = j + 1
        BY <3>0, <4>4
      <4>. QED
        BY <4>1, <4>3, <4>4
    <3>3. (1..(j + 1)) \ {j + 1} = 1..j
      OBVIOUS
    <3>4. it[1..(j + 1)] = Offer(it[1..j], j + 1)
      BY <2>8, <3>1, <3>2, <3>3
    <3>5. CASE ~Admits(allowed, j + 1)
      <4>1. A(j + 1) = A(j)
        BY <3>5
      <4>2. it[1..(j + 1)] = it[1..j]
        BY <3>4, <3>5 DEF Offer
      <4>. HIDE DEF A
      <4>. QED
        BY <2>10, <3>0, <4>1, <4>2
    <3>6. CASE Admits(allowed, j + 1)
      <4>1. A(j + 1) = A(j) \cup {doc(j + 1)}
        BY <3>6
      <4>2. it[1..(j + 1)] = Consider(it[1..j], k, doc(j + 1))
        BY <3>4, <3>6 DEF Offer
      <4>3. \A y \in A(j) : y.id < doc(j + 1).id
        BY <1>2, <3>1 DEF N
      <4>4. doc(j + 1) \notin A(j)
        BY <1>2, <3>1, <4>3, SMTT(30)
      <4>5. Ranked(A(j) \cup {doc(j + 1)})
        <5>. HIDE DEF A
        <5>. QED
          BY <1>5, <3>0, <4>1
      <4>6. Best(A(j), k, it[1..j])
        BY <2>10
      <4>. HIDE DEF A
      <4>7. Best(A(j) \cup {doc(j + 1)}, k, Consider(it[1..j], k, doc(j + 1)))
        BY <1>7, <4>3, <4>4, <4>5, <4>6, Offered
      <4>. QED
        BY <3>0, <4>1, <4>2, <4>7
    <3>. QED
      BY <3>5, <3>6
  <2>. HIDE DEF T
  <2>11. \A j \in 0..n : j \in T /\ j # n => j + 1 \in T
    BY <2>10
  <2>12. n \in T
    <3>1. \A j \in 0..n : j \in T
      BY <2>9, <2>11, UpTo
    <3>. QED
      BY <3>1
  <2>13. Best(A(n), k, it[N])
    BY <2>12 DEF T, N
  <2>. HIDE DEF A
  <2>. QED
    BY <1>4, <1>5, <2>1, <2>13, FirstOfAll
<1>. QED
  BY <1>6, <1>7

(***************************************************************************)
(* Shortlists.                                                             *)
(***************************************************************************)

\* The documents of D with the scores c.
Listed(D, c) == {Scored(d, c[d]) : d \in D}

\* Ids with a key, listed by it, are scored documents.
LEMMA ListedRanked ==
  ASSUME NEW D, IsFiniteSet(D), D \subseteq Nat, NEW c \in [D -> Int]
  PROVE  /\ Ranked(Listed(D, c))
         /\ Cardinality(Listed(D, c)) <= Cardinality(D)
         /\ \A x \in Listed(D, c) : x.id \in D /\ x.score = c[x.id]
<1>. DEFINE S == Listed(D, c)
            f == [d \in D |-> Scored(d, c[d])]
<1>1. f \in Surjection(D, S)
  BY DEF Surjection, Listed
<1>. HIDE DEF f
<1>2. IsFiniteSet(S) /\ Cardinality(S) <= Cardinality(D)
  BY <1>1, FS_Surjection
<1>3. \A x \in S : /\ x = [id |-> x.id, score |-> x.score] /\ x.id \in D
                   /\ x.score = c[x.id] /\ x.score \in Int
  BY DEF Listed, Scored
<1>. HIDE DEF S
<1>4. Ranked(S)
  BY <1>2, <1>3 DEF Ranked
<1>. QED
  BY <1>2, <1>3, <1>4 DEF S

\* A document has more ahead of it than any document ahead of it.
LEMMA FewerAhead ==
  ASSUME NEW A, Ranked(A), NEW x \in A, NEW y \in A, Before(x, y)
  PROVE  Cardinality(Ahead(A, x)) < Cardinality(Ahead(A, y))
<1>1. Ahead(A, x) \subseteq Ahead(A, y) /\ x \in Ahead(A, y) /\ x \notin Ahead(A, x)
  BY BeforeOrder DEF Ahead
<1>2. IsFiniteSet(Ahead(A, y))
  <2>1. Ahead(A, y) \subseteq A
    BY DEF Ahead
  <2>. QED
    BY <2>1, FS_Subset DEF Ranked
<1>3. /\ Cardinality(Ahead(A, x)) <= Cardinality(Ahead(A, y))
      /\ Cardinality(Ahead(A, x)) = Cardinality(Ahead(A, y)) => Ahead(A, x) = Ahead(A, y)
      /\ Cardinality(Ahead(A, x)) \in Nat /\ Cardinality(Ahead(A, y)) \in Nat
  <2>1. Ahead(A, x) \in SUBSET Ahead(A, y)
    BY <1>1
  <2>2. IsFiniteSet(Ahead(A, x))
    BY <1>2, <2>1, FS_Subset
  <2>. QED
    BY <1>2, <2>1, <2>2, FS_Subset, FS_CardinalityType
<1>. QED
  BY <1>1, <1>3

\* The documents that fewer than k are ahead of are the k best.
LEMMA FirstBest ==
  ASSUME NEW A, Ranked(A), NEW k \in Nat
  PROVE  Best(A, k, {x \in A : Cardinality(Ahead(A, x)) < k})
<1>. DEFINE pos(x) == Cardinality(Ahead(A, x))
            H == {x \in A : pos(x) < k}
            n == Cardinality(A)
<1>1. n \in Nat /\ IsFiniteSet(A) /\ \A x \in A : pos(x) \in 0..(n - 1)
  BY Positions DEF Ranked
<1>2. IsFiniteSet(H) /\ Cardinality(H) \in Nat
  BY <1>1, FS_Subset, FS_CardinalityType
<1>3. H # A => Cardinality(H) = k
  <2>. SUFFICES ASSUME H # A PROVE Cardinality(H) = k
    OBVIOUS
  <2>1. k <= n
    <3>1. PICK x \in A : ~(pos(x) < k)
      OBVIOUS
    <3>. HIDE DEF pos, n
    <3>. QED
      BY <1>1, <3>1
  <2>. DEFINE f == [x \in H |-> pos(x) + 1]
  <2>2. f \in Bijection(H, 1..k)
    <3>1. f \in [H -> 1..k]
      <4>1. \A x \in H : pos(x) + 1 \in 1..k
        <5>. HIDE DEF pos, n
        <5>. QED
          BY <1>1
      <4>. HIDE DEF pos, H
      <4>. QED
        BY <4>1
    <3>2. \A x, y \in H : f[x] = f[y] => x = y
      <4>1. \A x, y \in A : pos(x) = pos(y) => x = y
        BY Positions
      <4>. HIDE DEF pos, n
      <4>. QED
        BY <1>1, <4>1
    <3>3. \A r \in 1..k : \E x \in H : f[x] = r
      <4>. SUFFICES ASSUME NEW r \in 1..k PROVE \E x \in H : f[x] = r
        OBVIOUS
      <4>1. r \in 1..n
        BY <1>1, <2>1
      <4>2. PICK x \in A : pos(x) = r - 1
        BY <4>1, Positions
      <4>. HIDE DEF pos
      <4>3. x \in H /\ f[x] = r
        BY <4>2
      <4>. QED
        BY <4>3
    <3>. HIDE DEF f, H
    <3>. QED
      BY <3>1, <3>2, <3>3 DEF Bijection, Injection, IsInjective, Surjection
  <2>3. IsFiniteSet(1..k) /\ Cardinality(1..k) = k
    <3>1. 1 \in Int /\ k \in Int
      OBVIOUS
    <3>. QED
      BY <3>1, FS_Interval
  <2>. HIDE DEF f, H
  <2>4. Cardinality(H) = Cardinality(1..k)
    BY <1>2, <2>2, FS_Bijection DEF ExistsBijection
  <2>. QED
    BY <2>3, <2>4
<1>4. Cardinality(H) <= k
  <2>1. CASE H = A
    <3>1. CASE n = 0
      BY <2>1, <3>1
    <3>2. CASE n # 0
      <4>1. n \in 1..n
        BY <1>1, <3>2
      <4>2. PICK x \in A : pos(x) = n - 1
        BY <4>1, Positions
      <4>3. pos(x) < k
        BY <2>1
      <4>. QED
        BY <1>1, <2>1, <4>2, <4>3
    <3>. QED
      BY <3>1, <3>2
  <2>. QED
    BY <1>3, <2>1
<1>5. ASSUME NEW x \in H, NEW y \in A \ H PROVE Before(x, y)
  <2>1. x \in A /\ pos(x) < k /\ ~(pos(y) < k)
    OBVIOUS
  <2>2. ~(pos(y) < pos(x))
    <3>. HIDE DEF pos, n
    <3>. QED
      BY <1>1, <2>1
  <2>3. ~Before(y, x)
    BY <2>1, <2>2, FewerAhead
  <2>. QED
    BY <2>1, <2>3, BeforeOrder
<1>. QED
  BY <1>3, <1>4, <1>5 DEF Best

\* A ranked list has the documents it was made of.
LEMMA SortedAll ==
  ASSUME NEW A, Ranked(A)
  PROVE  ToSet(Ids(Sorted(A))) = {x.id : x \in A}
<1>. DEFINE at(r) == CHOOSE x \in A : Cardinality(Ahead(A, x)) = r - 1
            n == Cardinality(A)
<1>1. \A r \in 1..n : at(r) \in A
  BY Positions
<1>2. \A x \in A : \E r \in 1..n : at(r) = x
  <2>. SUFFICES ASSUME NEW x \in A PROVE \E r \in 1..n : at(r) = x
    OBVIOUS
  <2>. DEFINE r == Cardinality(Ahead(A, x)) + 1
  <2>1. r \in 1..n /\ Cardinality(Ahead(A, x)) = r - 1
    BY Positions
  <2>2. \A y \in A : Cardinality(Ahead(A, y)) = r - 1 => y = x
    BY <2>1, Positions
  <2>. HIDE DEF r
  <2>3. at(r) = x
    BY <2>1, <2>2
  <2>. QED
    BY <2>1, <2>3
<1>3. Sorted(A) = [r \in 1..n |-> at(r)]
  BY DEF Sorted
<1>. HIDE DEF at, n
<1>4. ToSet(Ids(Sorted(A))) = {at(r).id : r \in 1..n}
  BY <1>3 DEF ToSet, Ids
<1>. QED
  BY <1>1, <1>2, <1>4

\* How many documents of D have a better score than d, or the same and a lower id.
AheadOf(D, c, d) == {e \in D : c[e] > c[d] \/ (c[e] = c[d] /\ e < d)}

\* The first k of a ranked list by their ids.
FirstIn(D, c, k) == {d \in D : Cardinality(AheadOf(D, c, d)) < k}
FirstAre(D, c, k, first) ==
  /\ ToSet(Ids(Truncate(Sorted(Listed(D, c)), k))) = first
  /\ IsFiniteSet(first) /\ Cardinality(first) <= k

\* As many entries of a list are ahead of one as documents are of its own.
LEMMA AheadSame ==
  ASSUME NEW D, IsFiniteSet(D), D \subseteq Nat, NEW c \in [D -> Int],
         NEW x \in Listed(D, c)
  PROVE  Cardinality(Ahead(Listed(D, c), x)) = Cardinality(AheadOf(D, c, x.id))
<1>. DEFINE S == Listed(D, c)
<1>1. Ranked(S) /\ x \in S /\ \A y \in S : y.id \in D /\ y.score = c[y.id]
  BY ListedRanked
<1>2. \A d \in D : Scored(d, c[d]) \in S /\ Scored(d, c[d]).id = d /\ Scored(d, c[d]).score = c[d]
  BY DEF Listed, Scored
<1>3. Cardinality(Ahead(S, x)) = Cardinality(AheadOf(D, c, x.id))
  <2>. DEFINE f == [y \in Ahead(S, x) |-> y.id]
  <2>1. IsFiniteSet(Ahead(S, x))
    <3>1. Ahead(S, x) \subseteq S
      BY DEF Ahead
    <3>. HIDE DEF S
    <3>. QED
      BY <1>1, <3>1, FS_Subset DEF Ranked
  <2>2. f \in [Ahead(S, x) -> AheadOf(D, c, x.id)]
    <3>. HIDE DEF S
    <3>. QED
      BY <1>1 DEF Ahead, AheadOf, Before
  <2>3. \A y, z \in Ahead(S, x) : f[y] = f[z] => y = z
    <3>. HIDE DEF S
    <3>. QED
      BY <1>1 DEF Ahead, Ranked
  <2>4. ASSUME NEW e \in AheadOf(D, c, x.id) PROVE \E y \in Ahead(S, x) : f[y] = e
    <3>. DEFINE y == Scored(e, c[e])
    <3>1. e \in D /\ y \in S /\ y.id = e /\ y.score = c[e]
      BY <1>2 DEF AheadOf
    <3>. HIDE DEF S, y
    <3>2. y \in Ahead(S, x)
      BY <1>1, <3>1 DEF AheadOf, Ahead, Before
    <3>. QED
      BY <3>1, <3>2
  <2>5. f \in Bijection(Ahead(S, x), AheadOf(D, c, x.id))
    <3>. HIDE DEF f
    <3>. QED
      BY <2>2, <2>3, <2>4 DEF Bijection, Injection, IsInjective, Surjection
  <2>. HIDE DEF f, S
  <2>. QED
    BY <2>1, <2>5, FS_Bijection DEF ExistsBijection
<1>. QED
  BY <1>3

\* The k smallest ids are the k first.
LEMMA FirstIds ==
  ASSUME NEW D, IsFiniteSet(D), D \subseteq Nat, NEW c \in [D -> Int], NEW k \in Nat
  PROVE  FirstAre(D, c, k, FirstIn(D, c, k))
<1>. DEFINE S == Listed(D, c)
            H == {x \in S : Cardinality(Ahead(S, x)) < k}
            first == ToSet(Ids(Truncate(Sorted(S), k)))
<1>1. Ranked(S) /\ \A x \in S : x.id \in D /\ x.score = c[x.id]
  BY ListedRanked
<1>2. \A d \in D : Scored(d, c[d]) \in S /\ Scored(d, c[d]).id = d /\ Scored(d, c[d]).score = c[d]
  BY DEF Listed, Scored
<1>3. \A x \in S : Cardinality(Ahead(S, x)) = Cardinality(AheadOf(D, c, x.id))
  BY AheadSame
<1>4. Best(S, k, H) /\ H \in SUBSET S
  BY <1>1, FirstBest
<1>. HIDE DEF S
<1>5. Ranked(H)
  BY <1>1, <1>4, RankedPart
<1>6. first = {x.id : x \in H}
  <2>. HIDE DEF H
  <2>1. Truncate(Sorted(S), k) = Sorted(H)
    BY <1>1, <1>4, FirstOfAll
  <2>. QED
    BY <1>5, <2>1, SortedAll
<1>7. first = {d \in D : Cardinality(AheadOf(D, c, d)) < k}
  <2>1. ASSUME NEW x \in H PROVE x.id \in D /\ Cardinality(AheadOf(D, c, x.id)) < k
    BY <1>1, <1>3
  <2>2. ASSUME NEW d \in D, Cardinality(AheadOf(D, c, d)) < k
        PROVE  \E x \in H : x.id = d
    <3>. DEFINE x == Scored(d, c[d])
    <3>1. x \in S /\ x.id = d
      BY <1>2
    <3>. HIDE DEF x
    <3>2. x \in H
      BY <1>3, <2>2, <3>1
    <3>. QED
      BY <3>1, <3>2
  <2>. HIDE DEF H, first
  <2>. QED
    BY <1>6, <2>1, <2>2
<1>8. IsFiniteSet(first) /\ Cardinality(first) <= k
  <2>. DEFINE f == [x \in H |-> x.id]
  <2>. HIDE DEF first
  <2>1. f \in Surjection(H, first)
    BY <1>6 DEF Surjection
  <2>. HIDE DEF f, H
  <2>2. IsFiniteSet(H) /\ Cardinality(H) <= k /\ Cardinality(H) \in Nat
    BY <1>4, <1>5, FS_CardinalityType DEF Best, Ranked
  <2>3. IsFiniteSet(first) /\ Cardinality(first) <= Cardinality(H) /\ Cardinality(first) \in Nat
    BY <2>1, <2>2, FS_Surjection, FS_CardinalityType
  <2>. QED
    BY <2>2, <2>3
<1>. QED
  BY <1>7, <1>8 DEF S, FirstAre, FirstIn

(***************************************************************************)
(* The two tiers.                                                          *)
(***************************************************************************)

\* The components in which two vectors differ in sign.
Differ(a, b) == {i \in DOMAIN b : (a[i] >= 0) # (b[i] >= 0)}

\* What is exact about a two-tier search: with a shortlist as long as the
\* corpus it is the dense scan, else it is exact about the k nearest in sign.
TiersAreExact(query, rows, dim, n, k) ==
  LET Nearer(d) == {e \in 1..n :
        \/ Cardinality(Differ(query, rows[e])) < Cardinality(Differ(query, rows[d]))
        \/ /\ Cardinality(Differ(query, rows[e])) = Cardinality(Differ(query, rows[d]))
           /\ e < d}
  IN  /\ TwoTier(query, rows, dim, n, k) = TopK(query, rows, dim, k, "dot", <<>>)
      /\ TwoTier(query, rows, dim, 1, k)
           = Sorted({Scored(d, Dot(query, rows[d])) :
                       d \in {e \in 1..n : Cardinality(Nearer(e)) < k}})

\* Both tiers of the quantised search are exact, for every corpus and query.
LEMMA TwoTiers ==
  ASSUME NEW dim \in Nat \ {0}, NEW n \in Nat, NEW rows \in [1..n -> [1..dim -> Int]],
         NEW query \in [1..dim -> Int], NEW k \in Nat \ {0}
  PROVE  TiersAreExact(query, rows, dim, n, k)
<1>. DEFINE N == 1..n
            away(d) == Cardinality(Differ(query, rows[d]))
            c == [d \in N |-> 0 - Hamming(PackSigns(rows[d]), PackSigns(query))]
            exact == [d \in N |-> Dot(query, rows[d])]
            Nearer(d) == {e \in N : away(e) < away(d) \/ (away(e) = away(d) /\ e < d)}
            Kept(m) == FirstIn(N, c, m)
<1>1. IsFiniteSet(N) /\ N \subseteq Nat /\ Cardinality(N) = n /\ DOMAIN rows = N
      /\ Len(query) = dim
  <2>1. 1 \in Int /\ n \in Int
    OBVIOUS
  <2>. QED
    BY <2>1, FS_Interval
<1>2. ASSUME NEW d \in N
      PROVE  Hamming(PackSigns(rows[d]), PackSigns(query)) = away(d) /\ away(d) \in Nat
  <2>1. rows[d] \in [1..dim -> Int]
    OBVIOUS
  <2>2. SymDiff(PackSigns(rows[d]), PackSigns(query)) = Differ(query, rows[d])
    BY <2>1 DEF SymDiff, PackSigns, Differ
  <2>3. Differ(query, rows[d]) \subseteq 1..dim /\ IsFiniteSet(1..dim)
    <3>1. 1 \in Int /\ dim \in Int
      OBVIOUS
    <3>. QED
      BY <2>1, <3>1, FS_Interval DEF Differ
  <2>. QED
    BY <2>2, <2>3, FS_Subset, FS_CardinalityType DEF Hamming
<1>3. c = [d \in N |-> 0 - away(d)] /\ c \in [N -> Int]
  BY <1>2
<1>4. exact \in [N -> Int]
  <2>1. \A d \in N : Dot(query, rows[d]) \in Int
    BY SimilarityInt
  <2>. QED
    BY <2>1
<1>5. \A d \in N : AheadOf(N, c, d) = Nearer(d)
  <2>. HIDE DEF away, N, c
  <2>. QED
    BY <1>2, <1>3 DEF AheadOf
<1>. HIDE DEF c, exact
<1>6. ASSUME NEW m \in Nat
      PROVE  /\ ToSet(Ids(Shortlist(rows, query, m))) = Kept(m)
             /\ IsFiniteSet(Kept(m)) /\ Cardinality(Kept(m)) <= m
             /\ Kept(m) \in SUBSET N
  <2>1. Shortlist(rows, query, m) = Truncate(Sorted(Listed(N, c)), m)
    BY <1>1 DEF Shortlist, Listed, c
  <2>2. Kept(m) \in SUBSET N
    BY DEF FirstIn
  <2>. HIDE DEF N
  <2>3. FirstAre(N, c, m, Kept(m))
    BY <1>1, <1>3, FirstIds
  <2>. HIDE DEF Kept
  <2>. QED
    BY <2>1, <2>2, <2>3 DEF FirstAre
<1>7. ASSUME NEW short \in Nat, NEW m \in Nat, m = IF short > k THEN short ELSE k
      PROVE  TwoTier(query, rows, dim, short, k)
               = Truncate(Sorted({Scored(d, Dot(query, rows[d])) : d \in Kept(m)}), k)
  <2>. HIDE DEF Kept
  <2>. QED
    BY <1>1, <1>6, <1>7 DEF TwoTier
<1>8. TwoTier(query, rows, dim, n, k) = TopK(query, rows, dim, k, "dot", <<>>)
  <2>. DEFINE m == IF n > k THEN n ELSE k
  <2>1. m \in Nat /\ n <= m
    OBVIOUS
  <2>2. Kept(m) = N
    <3>. SUFFICES ASSUME NEW d \in N PROVE Cardinality(AheadOf(N, c, d)) < m
      BY DEF FirstIn
    <3>1. AheadOf(N, c, d) \subseteq N \ {d}
      BY <1>3 DEF AheadOf
    <3>. HIDE DEF N, m
    <3>2. IsFiniteSet(N \ {d}) /\ Cardinality(N \ {d}) = n - 1
      BY <1>1, FS_RemoveElement
    <3>3. Cardinality(AheadOf(N, c, d)) <= n - 1 /\ Cardinality(AheadOf(N, c, d)) \in Nat
      BY <3>1, <3>2, FS_Subset, FS_CardinalityType
    <3>. QED
      BY <2>1, <3>3
  <2>3. {Scored(d, Dot(query, rows[d])) : d \in N} = AllScored(query, rows, "dot", <<>>)
    <3>1. {e \in DOMAIN rows : Admits(<<>>, e)} = N
      BY <1>1 DEF Admits
    <3>2. \A d : Similarity(query, rows[d], "dot") = Dot(query, rows[d])
      BY DEF Similarity
    <3>. HIDE DEF N
    <3>. QED
      BY <3>1, <3>2 DEF AllScored
  <2>4. TopK(query, rows, dim, k, "dot", <<>>)
          = Truncate(Sorted(AllScored(query, rows, "dot", <<>>)), k)
    <3>1. ScanIsExact(query, rows, dim, k, "dot", <<>>)
      BY DenseScan
    <3>. QED
      BY <3>1 DEF ScanIsExact
  <2>. HIDE DEF N, Kept, m
  <2>5. m = IF n > k THEN n ELSE k
    BY DEF m
  <2>. QED
    BY <1>7, <2>1, <2>2, <2>3, <2>4, <2>5
<1>9. TwoTier(query, rows, dim, 1, k)
        = Sorted({Scored(d, Dot(query, rows[d])) : d \in {e \in N : Cardinality(Nearer(e)) < k}})
  <2>1. Kept(k) = {e \in N : Cardinality(Nearer(e)) < k}
    <3>. HIDE DEF Nearer, N
    <3>. QED
      BY <1>5 DEF FirstIn
  <2>2. TwoTier(query, rows, dim, 1, k)
          = Truncate(Sorted({Scored(d, Dot(query, rows[d])) : d \in Kept(k)}), k)
    <3>1. k \in Nat /\ 1 \in Nat /\ k = IF 1 > k THEN 1 ELSE k
      OBVIOUS
    <3>. HIDE DEF Kept
    <3>. QED
      BY <1>7, <3>1
  <2>. DEFINE C == Kept(k)
              some == [d \in C |-> exact[d]]
              B == {Scored(d, Dot(query, rows[d])) : d \in C}
  <2>3. C \in SUBSET N /\ IsFiniteSet(C) /\ Cardinality(C) <= k
    BY <1>6
  <2>. HIDE DEF C, N
  <2>4. some \in [C -> Int] /\ B = Listed(C, some) /\ C \subseteq Nat
    BY <1>1, <1>4, <2>3 DEF Listed, exact
  <2>. HIDE DEF some, B
  <2>5. Ranked(B) /\ Cardinality(B) <= k
    <3>1. Ranked(B) /\ Cardinality(B) <= Cardinality(C)
      BY <2>3, <2>4, ListedRanked
    <3>2. Cardinality(B) \in Nat /\ Cardinality(C) \in Nat
      BY <2>3, <3>1, Positions, FS_CardinalityType
    <3>. QED
      BY <2>3, <3>1, <3>2
  <2>6. Best(B, k, B)
    BY <2>5 DEF Best
  <2>7. Sorted(B) = Truncate(Sorted(B), k)
    BY <2>5, <2>6, FirstOfAll
  <2>. HIDE DEF Nearer
  <2>. QED
    BY <2>1, <2>2, <2>7 DEF B, C
<1>. QED
  BY <1>8, <1>9 DEF TiersAreExact

(***************************************************************************)
(* Eight bits.                                                             *)
(***************************************************************************)

\* Rounding is off by half a unit at most.
LEMMA Rounded ==
  ASSUME NEW p \in Int, NEW q \in Nat \ {0}, NEW r, r = Round(p, q)
  PROVE  /\ r \in Int
         /\ 2 * (r * q) - 2 * p <= q /\ 2 * p - 2 * (r * q) <= q
<1>1. CASE p >= 0
  <2>. DEFINE s == (2 * p + q) \div (2 * q)
  <2>1. 2 * p + q \in Int /\ 2 * q \in Nat \ {0}
    OBVIOUS
  <2>2. s \in Int /\ s * (2 * q) <= 2 * p + q /\ 2 * p + q < s * (2 * q) + 2 * q
    BY <2>1, Division
  <2>3. r = s
    BY <1>1 DEF Round
  <2>. HIDE DEF s
  <2>4. s * (2 * q) = 2 * (s * q)
    BY <2>2
  <2>5. s * q \in Int
    BY <2>2
  <2>. QED
    BY <2>2, <2>3, <2>4, <2>5
<1>2. CASE p < 0
  <2>. DEFINE s == (q - 2 * p) \div (2 * q)
  <2>1. q - 2 * p \in Int /\ 2 * q \in Nat \ {0}
    OBVIOUS
  <2>2. s \in Int /\ s * (2 * q) <= q - 2 * p /\ q - 2 * p < s * (2 * q) + 2 * q
    BY <2>1, Division
  <2>3. r = 0 - s
    BY <1>2 DEF Round
  <2>. HIDE DEF s
  <2>4. s * (2 * q) = 2 * (s * q) /\ r * q = 0 - (s * q)
    BY <2>2, <2>3
  <2>5. s * q \in Int /\ r * q \in Int
    BY <2>2, <2>4
  <2>. QED
    BY <2>2, <2>3, <2>4, <2>5
<1>. QED
  BY <1>1, <1>2

\* So is the code of a component, in units of the largest: it needs no clamping.
LEMMA CodeClose ==
  ASSUME NEW m \in Nat \ {0}, NEW x \in Int, 0 - m <= x, x <= m,
         NEW r, r = Clamp(Round(x * 127, m), -127, 127)
  PROVE  /\ r \in Int
         /\ 2 * (r * m) - 254 * x <= m /\ 254 * x - 2 * (r * m) <= m
<1>. DEFINE s == Round(x * 127, m)
<1>1. x * 127 \in Int
  OBVIOUS
<1>2. /\ s \in Int
      /\ 2 * (s * m) - 2 * (x * 127) <= m /\ 2 * (x * 127) - 2 * (s * m) <= m
  BY <1>1, Rounded
<1>. HIDE DEF s
<1>3. s * m \in Int /\ 2 * (s * m) <= 255 * m /\ 0 - 255 * m <= 2 * (s * m)
  BY <1>2
<1>4. s <= 127
  <2>. SUFFICES ASSUME s >= 128 PROVE FALSE
    BY <1>2
  <2>1. s * m >= 128 * m
    BY <1>2
  <2>. QED
    BY <1>3, <2>1
<1>5. -127 <= s
  <2>. SUFFICES ASSUME s <= -128 PROVE FALSE
    BY <1>2
  <2>1. s * m <= (0 - 128) * m
    BY <1>2
  <2>. QED
    BY <1>3, <2>1
<1>6. r = s
  BY <1>2, <1>4, <1>5 DEF Clamp, s
<1>. QED
  BY <1>2, <1>3, <1>6

\* The same of its product with a component of a query.
LEMMA TermClose ==
  ASSUME NEW m \in Nat \ {0}, NEW x \in Int, NEW r \in Int, NEW y \in Int,
         2 * (r * m) - 254 * x <= m, 254 * x - 2 * (r * m) <= m
  PROVE  /\ 2 * ((r * y) * m) - 254 * (y * x) <= m * Abs(y)
         /\ 254 * (y * x) - 2 * ((r * y) * m) <= m * Abs(y)
<1>. DEFINE e == 2 * (r * m) - 254 * x
<1>1. e \in Int /\ e <= m /\ 0 - e <= m
  OBVIOUS
<1>2. 2 * ((r * y) * m) - 254 * (y * x) = y * e
  OBVIOUS
<1>3. 254 * (y * x) - 2 * ((r * y) * m) = 0 - y * e
  OBVIOUS
<1>. HIDE DEF e
<1>4. CASE y >= 0
  <2>1. y * e <= y * m /\ y * (0 - e) <= y * m
    BY <1>1, <1>4
  <2>2. Abs(y) = y
    BY <1>4 DEF Abs
  <2>. QED
    BY <1>1, <1>2, <1>3, <2>1, <2>2
<1>5. CASE y < 0
  <2>. DEFINE z == 0 - y
  <2>1. z \in Nat /\ y = 0 - z
    BY <1>5
  <2>2. Abs(y) = z
    BY <1>5 DEF Abs
  <2>. HIDE DEF z
  <2>3. z * e <= z * m /\ z * (0 - e) <= z * m
    BY <1>1, <2>1
  <2>. QED
    BY <1>1, <1>2, <1>3, <2>1, <2>2, <2>3
<1>. QED
  BY <1>4, <1>5

\* What is close term by term is close in sum.
LEMMA SumsClose ==
  ASSUME NEW D, IsFiniteSet(D), NEW f \in [D -> Int], NEW g \in [D -> Int],
         NEW h \in [D -> Int], NEW m \in Nat \ {0},
         \A d \in D : /\ 2 * (f[d] * m) - 254 * g[d] <= m * h[d]
                      /\ 254 * g[d] - 2 * (f[d] * m) <= m * h[d]
  PROVE  2 * Abs(SumFunction(f) * m - 127 * SumFunction(g)) <= m * SumFunction(h)
<1>1. PICK F : Adds(f, D, F) /\ SumFunction(f) = F[D]
  BY SumAdds
<1>2. PICK G : Adds(g, D, G) /\ SumFunction(g) = G[D]
  BY SumAdds
<1>3. PICK H : Adds(h, D, H) /\ SumFunction(h) = H[D]
  BY SumAdds
<1>. DEFINE Close(a, b, c) == 2 * (a * m) - 254 * b <= m * c /\ 254 * b - 2 * (a * m) <= m * c
            T == {s \in SUBSET D : Close(F[s], G[s], H[s])}
<1>4. {} \in T
  BY <1>1, <1>2, <1>3 DEF Adds
<1>5. ASSUME NEW s \in (SUBSET D) \ {{}} PROVE \E x \in s : s \ {x} \in T => s \in T
  <2>. DEFINE x == AnyOf(s)
              t == s \ {x}
  <2>1. x \in s /\ x \in D /\ t \in SUBSET D
    BY DEF AnyOf
  <2>2. F[s] = f[x] + F[t] /\ G[s] = g[x] + G[t] /\ H[s] = h[x] + H[t]
    BY <1>1, <1>2, <1>3 DEF Adds
  <2>3. /\ f[x] \in Int /\ g[x] \in Int /\ h[x] \in Int
        /\ F[t] \in Int /\ G[t] \in Int /\ H[t] \in Int
    BY <1>1, <1>2, <1>3, <2>1 DEF Adds
  <2>4. Close(f[x], g[x], h[x])
    BY <2>1
  <2>. HIDE DEF x, t
  <2>5. ASSUME NEW a \in Int, NEW b \in Int, NEW c \in Int, Close(a, b, c),
               NEW aa \in Int, NEW bb \in Int, NEW cc \in Int, Close(aa, bb, cc)
        PROVE  Close(a + aa, b + bb, c + cc)
    <3>1. (a + aa) * m = a * m + aa * m /\ m * (c + cc) = m * c + m * cc
      OBVIOUS
    <3>2. a * m \in Int /\ aa * m \in Int /\ m * c \in Int /\ m * cc \in Int
      OBVIOUS
    <3>. QED
      BY <2>5, <3>1, <3>2
  <2>. HIDE DEF Close
  <2>6. t \in T => s \in T
    <3>. SUFFICES ASSUME t \in T PROVE Close(F[s], G[s], H[s])
      OBVIOUS
    <3>1. Close(F[t], G[t], H[t])
      OBVIOUS
    <3>2. Close(f[x] + F[t], g[x] + G[t], h[x] + H[t])
      BY <2>3, <2>4, <2>5, <3>1
    <3>. QED
      BY <2>2, <3>2
  <2>. QED
    BY <2>1, <2>6 DEF t
<1>. HIDE DEF T
<1>6. D \in T
  <2>1. SUBSET D \subseteq T
    BY <1>4, <1>5, Parts
  <2>. QED
    BY <2>1
<1>7. SumFunction(f) \in Int /\ SumFunction(g) \in Int /\ SumFunction(h) \in Int
  BY SumInt
<1>8. Close(SumFunction(f), SumFunction(g), SumFunction(h))
  BY <1>1, <1>2, <1>3, <1>6 DEF T
<1>. DEFINE u == SumFunction(f)
            v == SumFunction(g)
            w == SumFunction(h)
<1>. HIDE DEF u, v, w
<1>9. u \in Int /\ v \in Int /\ w \in Int /\ Close(u, v, w)
  BY <1>7, <1>8 DEF u, v, w
<1>10. 2 * Abs(u * m - 127 * v) <= m * w
  <2>. DEFINE a == u * m
              b == m * w
  <2>1. a \in Int /\ b \in Int /\ 2 * a - 254 * v <= b /\ 254 * v - 2 * a <= b
    BY <1>9
  <2>. HIDE DEF a, b
  <2>2. 2 * Abs(a - 127 * v) <= b
    BY <1>9, <2>1 DEF Abs
  <2>. QED
    BY <2>2 DEF a, b
<1>. QED
  BY <1>10 DEF u, v, w

\* A product with the stored bytes is within half a unit for each component of
\* the query.
LEMMA EightBits ==
  ASSUME NEW dim \in Nat \ {0}, NEW row \in [1..dim -> Int], NEW query \in [1..dim -> Int]
  PROVE  2 * Abs(Int8Dot(Int8Row(row), query) - 127 * Dot(query, row))
           <= Int8Row(row).scale[1] * SumFunction([i \in 1..dim |-> Abs(query[i])])
<1>. DEFINE N == 1..dim
            sizes == {Abs(row[i]) : i \in N}
            m == MaxAbs(row)
            codes == Int8Row(row).codes
            scale == Int8Row(row).scale[1]
            f == [i \in N |-> codes[i] * query[i]]
            g == [i \in N |-> query[i] * row[i]]
            h == [i \in N |-> Abs(query[i])]
<1>1. IsFiniteSet(N) /\ 1 \in N
  BY FS_Interval
<1>2. \A i \in N : row[i] \in Int /\ query[i] \in Int
                   /\ Abs(row[i]) \in Nat /\ Abs(query[i]) \in Nat
  BY DEF Abs
<1>3. m \in sizes /\ \A s \in sizes : s <= m
  <2>. DEFINE size == [i \in N |-> Abs(row[i])]
  <2>1. size \in Surjection(N, sizes)
    BY DEF Surjection
  <2>. HIDE DEF size
  <2>2. IsFiniteSet(sizes)
    BY <1>1, <2>1, FS_Surjection
  <2>3. sizes \subseteq Int /\ sizes # {}
    BY <1>1, <1>2
  <2>. HIDE DEF sizes
  <2>4. \E x \in sizes : \A s \in sizes : s <= x
    BY <2>2, <2>3, GreatestInt
  <2>5. m = CHOOSE x \in sizes : \A s \in sizes : s <= x
    BY DEF MaxAbs, sizes
  <2>. HIDE DEF m
  <2>. QED
    BY <2>4, <2>5
<1>4. m \in Nat /\ \A i \in N : 0 - m <= row[i] /\ row[i] <= m
  <2>1. m \in Nat
    BY <1>2, <1>3
  <2>2. ASSUME NEW i \in N PROVE 0 - m <= row[i] /\ row[i] <= m
    <3>1. Abs(row[i]) <= m
      BY <1>3
    <3>. HIDE DEF m
    <3>. QED
      BY <1>2, <2>1, <3>1 DEF Abs
  <2>. QED
    BY <2>1, <2>2
<1>5. /\ scale \in Nat \ {0}
      /\ \A i \in N : /\ codes[i] \in Int
                      /\ 2 * (codes[i] * scale) - 254 * row[i] <= scale
                      /\ 254 * row[i] - 2 * (codes[i] * scale) <= scale
  <2>0. DOMAIN row = N
    OBVIOUS
  <2>1. CASE m = 0
    <3>1. codes = row /\ scale = 1
      BY <2>0, <2>1 DEF Int8Row
    <3>2. \A i \in N : row[i] = 0
      <4>. HIDE DEF m
      <4>. QED
        BY <1>2, <1>4, <2>1
    <3>. HIDE DEF codes, scale
    <3>. QED
      BY <3>1, <3>2
  <2>2. CASE m # 0
    <3>1. /\ codes = [i \in N |-> Clamp(Round(row[i] * 127, m), -127, 127)]
          /\ scale = m
      BY <2>0, <2>2 DEF Int8Row
    <3>. HIDE DEF codes, scale, m
    <3>2. m \in Nat \ {0}
      BY <1>4, <2>2
    <3>3. ASSUME NEW i \in N
          PROVE  /\ codes[i] \in Int
                 /\ 2 * (codes[i] * m) - 254 * row[i] <= m
                 /\ 254 * row[i] - 2 * (codes[i] * m) <= m
      <4>. DEFINE r == codes[i]
                  x == row[i]
      <4>1. r = Clamp(Round(x * 127, m), -127, 127)
        BY <3>1
      <4>2. x \in Int /\ 0 - m <= x /\ x <= m
        BY <1>2, <1>4
      <4>. HIDE DEF r, x
      <4>3. /\ r \in Int
            /\ 2 * (r * m) - 254 * x <= m /\ 254 * x - 2 * (r * m) <= m
        BY <3>2, <4>1, <4>2, CodeClose
      <4>. QED
        BY <4>3 DEF r, x
    <3>. QED
      BY <3>1, <3>2, <3>3
  <2>. QED
    BY <2>1, <2>2
<1>. HIDE DEF m
<1>6. f \in [N -> Int] /\ g \in [N -> Int] /\ h \in [N -> Int]
  <2>. HIDE DEF codes, scale
  <2>1. \A i \in N : codes[i] * query[i] \in Int /\ query[i] * row[i] \in Int
                     /\ Abs(query[i]) \in Int
    <3>1. ASSUME NEW i \in N
          PROVE  /\ codes[i] * query[i] \in Int /\ query[i] * row[i] \in Int
                 /\ Abs(query[i]) \in Int
      <4>1. codes[i] \in Int /\ query[i] \in Int /\ row[i] \in Int /\ Abs(query[i]) \in Int
        BY <1>2, <1>5
      <4>. QED
        BY <4>1
    <3>. QED
      BY <3>1
  <2>. HIDE DEF N
  <2>. QED
    BY <2>1
<1>7. \A i \in N : /\ 2 * (f[i] * scale) - 254 * g[i] <= scale * h[i]
                   /\ 254 * g[i] - 2 * (f[i] * scale) <= scale * h[i]
  <2>. SUFFICES ASSUME NEW i \in N
                PROVE  /\ 2 * (f[i] * scale) - 254 * g[i] <= scale * h[i]
                       /\ 254 * g[i] - 2 * (f[i] * scale) <= scale * h[i]
    OBVIOUS
  <2>. DEFINE r == codes[i]
              x == row[i]
              y == query[i]
  <2>1. /\ r \in Int /\ x \in Int /\ y \in Int /\ scale \in Nat \ {0}
        /\ 2 * (r * scale) - 254 * x <= scale /\ 254 * x - 2 * (r * scale) <= scale
    BY <1>2, <1>5
  <2>2. f[i] = r * y /\ g[i] = y * x /\ h[i] = Abs(y)
    OBVIOUS
  <2>. HIDE DEF r, x, y, scale, f, g, h
  <2>. QED
    BY <2>1, <2>2, TermClose
<1>8. Int8Dot(Int8Row(row), query) = SumFunction(f) * scale /\ Dot(query, row) = SumFunction(g)
  <2>1. DOMAIN codes = N
    BY DEF Int8Row
  <2>. QED
    BY <2>1, ZenonT(30) DEF Int8Dot, Dot
<1>. HIDE DEF f, g, h, N, scale
<1>9. 2 * Abs(SumFunction(f) * scale - 127 * SumFunction(g)) <= scale * SumFunction(h)
  BY <1>1, <1>5, <1>6, <1>7, SumsClose
<1>. QED
  BY <1>8, <1>9 DEF h, scale, N

(***************************************************************************)
(* The dense section.                                                      *)
(***************************************************************************)

\* The rows of a corpus are read back from the block they are written to.
LEMMA RowsBack ==
  ASSUME NEW dim \in Nat \ {0}, NEW n \in Nat \ {0}, NEW rows \in [1..n -> [1..dim -> Int]]
  PROVE  Rows(FlattenSeq(rows), dim, n) = rows /\ Len(FlattenSeq(rows)) = n * dim
<1>. DEFINE S == Seq(Int)
            step == [i \in 1..n |-> [s \in S |-> s \o rows[i]]]
            Body(F) == [i \in 1..Len(rows) |-> IF i = 1 THEN rows[i] ELSE F[i - 1] \o rows[i]]
            it == CHOOSE F : F = Body(F)
<1>1. Len(rows) = n /\ \A i \in 1..n : rows[i] \in S /\ Len(rows[i]) = dim
  <2>1. Len(rows) = n
    OBVIOUS
  <2>2. ASSUME NEW i \in 1..n PROVE rows[i] \in S /\ Len(rows[i]) = dim
    <3>. DEFINE r == rows[i]
    <3>1. r \in [1..dim -> Int]
      OBVIOUS
    <3>. HIDE DEF r
    <3>2. r \in S /\ Len(r) = dim
      BY <3>1
    <3>. QED
      BY <3>2 DEF r
  <2>. QED
    BY <2>1, <2>2
<1>2. step \in [1..n -> [S -> S]] /\ <<>> \in S
  <2>1. \A i \in 1..n, s \in S : s \o rows[i] \in S
    BY <1>1, ConcatProperties
  <2>. HIDE DEF S
  <2>2. step \in [1..n -> [S -> S]]
    BY <2>1
  <2>. QED
    BY <2>2, EmptySeq DEF S
<1>. HIDE DEF step
<1>3. PICK f \in [0..n -> S] : f[0] = <<>> /\ \A i \in 1..n : f[i] = step[i][f[i - 1]]
  <2>. HIDE DEF S
  <2>1. \E f : Recursive(n, S, <<>>, step, f)
    BY <1>2, Recursion
  <2>. QED
    BY <2>1 DEF Recursive
<1>4. \A i \in 1..n : f[i] = f[i - 1] \o rows[i] /\ f[i - 1] \in S
  <2>. SUFFICES ASSUME NEW i \in 1..n PROVE f[i] = f[i - 1] \o rows[i] /\ f[i - 1] \in S
    OBVIOUS
  <2>1. i - 1 \in 0..n
    OBVIOUS
  <2>2. f[i - 1] \in S
    BY <2>1
  <2>. HIDE DEF S
  <2>. QED
    BY <1>3, <2>2 DEF step
<1>5. \E F : F = Body(F)
  <2>. DEFINE g == [i \in 1..n |-> f[i]]
  <2>1. ASSUME NEW i \in 1..n PROVE g[i] = IF i = 1 THEN rows[i] ELSE g[i - 1] \o rows[i]
    <3>1. CASE i = 1
      <4>1. f[1] = f[0] \o rows[1] /\ f[0] = <<>>
        <5>1. 1 \in 1..n /\ 1 - 1 = 0
          BY <3>1
        <5>2. f[1] = f[1 - 1] \o rows[1]
          BY <1>4, <5>1
        <5>. QED
          BY <1>3, <5>1, <5>2
      <4>2. <<>> \o rows[1] = rows[1]
        BY <1>1, <3>1, ConcatEmptySeq
      <4>. QED
        BY <3>1, <4>1, <4>2
    <3>2. CASE i # 1
      <4>1. i - 1 \in 1..n
        BY <3>2
      <4>. QED
        BY <1>4, <3>2, <4>1
    <3>. QED
      BY <3>1, <3>2
  <2>2. g = Body(g)
    <3>1. g = [i \in 1..n |-> g[i]]
      OBVIOUS
    <3>. HIDE DEF g
    <3>. QED
      BY <1>1, <2>1, <3>1
  <2>. HIDE DEF Body
  <2>. QED
    BY <2>2
<1>6. it = Body(it)
  <2>. HIDE DEF Body
  <2>. QED
    BY <1>5, Zenon
<1>. HIDE DEF it
<1>7. \A i \in 1..n : it[i] = IF i = 1 THEN rows[i] ELSE it[i - 1] \o rows[i]
  <2>1. it = [i \in 1..n |-> IF i = 1 THEN rows[i] ELSE it[i - 1] \o rows[i]]
    BY <1>1, <1>6
  <2>. QED
    BY <2>1
<1>8. FlattenSeq(rows) = it[n]
  BY <1>1 DEF FlattenSeq, it

\* The first i rows fill the first i * dim elements.
<1>. DEFINE Full(i, s) == /\ s \in S /\ Len(s) = i * dim
                          /\ \A d \in 1..i, j \in 1..dim : s[(d - 1) * dim + j] = rows[d][j]
            T == {i \in 0..n : i # 0 => Full(i, it[i])}
<1>9. ASSUME NEW i \in 0..n, i \in T, i # n PROVE i + 1 \in T
  <2>0. i + 1 \in 1..n /\ i + 1 \in 0..n /\ i \in Nat
    BY <1>9
  <2>1. CASE i = 0
    <3>1. it[1] = rows[1] /\ 1 \in 1..n
      <4>1. 1 \in 1..n
        OBVIOUS
      <4>. HIDE DEF S, Full, T
      <4>. QED
        BY <1>7, <4>1
    <3>2. Full(1, rows[1])
      <4>1. rows[1] \in S /\ Len(rows[1]) = 1 * dim
        BY <1>1, <3>1
      <4>2. \A d \in 1..1, j \in 1..dim : rows[1][(d - 1) * dim + j] = rows[d][j]
        OBVIOUS
      <4>. QED
        BY <4>1, <4>2
    <3>3. Full(1, it[1])
      <4>. HIDE DEF Full
      <4>. QED
        BY <3>1, <3>2
    <3>4. i + 1 = 1
      BY <2>1
    <3>. HIDE DEF Full
    <3>. QED
      BY <3>1, <3>3, <3>4
  <2>2. CASE i # 0
    <3>. DEFINE s == it[i]
                r == rows[i + 1]
    <3>1. Full(i, s) /\ r \in S /\ Len(r) = dim
      BY <1>1, <1>9, <2>0, <2>2
    <3>2. it[i + 1] = s \o r
      <4>1. (i + 1) - 1 = i /\ i + 1 # 1
        BY <2>0, <2>2
      <4>. QED
        BY <1>7, <2>0, <4>1
    <3>. HIDE DEF s, r
    <3>3. i * dim \in Nat /\ (i + 1) * dim = i * dim + dim
      BY <2>0
    <3>4. /\ s \o r \in S /\ Len(s \o r) = (i + 1) * dim
          /\ \A p \in 1..(i * dim + dim) : (s \o r)[p] = IF p <= i * dim THEN s[p] ELSE r[p - i * dim]
      <4>1. Len(s) = i * dim
        BY <3>1
      <4>2. s \in Seq(Int) /\ r \in Seq(Int) /\ Len(r) = dim
        BY <3>1
      <4>. HIDE DEF Full
      <4>3. /\ s \o r \in Seq(Int) /\ Len(s \o r) = Len(s) + Len(r)
            /\ \A p \in 1..(Len(s) + Len(r)) :
                 (s \o r)[p] = IF p <= Len(s) THEN s[p] ELSE r[p - Len(s)]
        BY <4>2, ConcatProperties, ZenonT(30)
      <4>. QED
        BY <3>3, <4>1, <4>2, <4>3
    <3>5. ASSUME NEW d \in 1..(i + 1), NEW j \in 1..dim
          PROVE  (s \o r)[(d - 1) * dim + j] = rows[d][j]
      <4>. DEFINE p == (d - 1) * dim + j
      <4>1. CASE d = i + 1
        <5>1. p = i * dim + j
          BY <4>1
        <5>2. p \in 1..(i * dim + dim) /\ ~(p <= i * dim) /\ p - i * dim = j
          <6>. DEFINE w == i * dim
          <6>1. w \in Nat /\ p = w + j
            BY <3>3, <5>1
          <6>. HIDE DEF p, w
          <6>2. p \in 1..(w + dim) /\ ~(p <= w) /\ p - w = j
            BY <6>1
          <6>. QED
            BY <6>2 DEF w
        <5>. HIDE DEF p
        <5>3. (s \o r)[p] = r[j]
          BY <3>4, <5>2
        <5>. QED
          BY <4>1, <5>3 DEF p, r
      <4>2. CASE d # i + 1
        <5>1. d \in 1..i
          BY <2>0, <4>2
        <5>. DEFINE q == d - 1
        <5>2. q \in Nat /\ q + 1 <= i
          BY <2>0, <5>1
        <5>3. (q + 1) * dim <= i * dim /\ (q + 1) * dim = q * dim + dim /\ q * dim \in Nat
          <6>. HIDE DEF q
          <6>. QED
            BY <2>0, <5>2
        <5>4. p \in 1..(i * dim + dim) /\ p <= i * dim
          <6>1. p = q * dim + j
            OBVIOUS
          <6>. HIDE DEF p, q
          <6>. QED
            BY <3>3, <5>3, <6>1
        <5>5. s[p] = rows[d][j]
          BY <3>1, <5>1
        <5>. HIDE DEF p
        <5>6. (s \o r)[p] = s[p]
          BY <3>4, <5>4
        <5>. QED
          BY <5>5, <5>6 DEF p
      <4>. QED
        BY <4>1, <4>2
    <3>6. Full(i + 1, s \o r)
      BY <3>4, <3>5, ZenonT(30)
    <3>. HIDE DEF Full
    <3>7. Full(i + 1, it[i + 1])
      BY <3>2, <3>6
    <3>. QED
      BY <2>0, <3>7
  <2>. QED
    BY <2>1, <2>2
<1>10. 0 \in T
  OBVIOUS
<1>. HIDE DEF T
<1>11. n \in T
  <2>1. \A i \in 0..n : i \in T /\ i # n => i + 1 \in T
    BY <1>9
  <2>2. \A i \in 0..n : i \in T
    BY <1>10, <2>1, UpTo
  <2>. QED
    BY <2>2
<1>. DEFINE flat == FlattenSeq(rows)
<1>12. Full(n, flat)
  <2>. HIDE DEF Full
  <2>. QED
    BY <1>8, <1>11 DEF T
<1>. HIDE DEF flat
<1>13. ASSUME NEW d \in 1..n PROVE SubSeq(flat, (d - 1) * dim + 1, d * dim) = rows[d]
  <2>. DEFINE from == (d - 1) * dim
              q == d - 1
              t == SubSeq(flat, from + 1, d * dim)
  <2>1. from \in Nat /\ d * dim = from + dim
    <3>1. q \in Nat /\ d = q + 1
      OBVIOUS
    <3>. HIDE DEF q
    <3>2. q * dim \in Nat /\ (q + 1) * dim = q * dim + dim
      BY <3>1
    <3>. QED
      BY <3>1, <3>2 DEF q
  <2>2. \A j \in 1..dim : flat[from + j] = rows[d][j]
    BY <1>12
  <2>. HIDE DEF from
  <2>3. ASSUME NEW p \in (from + 1)..(d * dim) PROVE flat[p] \in Int
    <3>1. p - from \in 1..dim /\ from + (p - from) = p
      BY <2>1
    <3>2. rows[d] \in [1..dim -> Int]
      OBVIOUS
    <3>. QED
      BY <2>2, <3>1, <3>2
  <2>4. /\ t \in Seq(Int) /\ Len(t) = dim
        /\ \A j \in 1..dim : t[j] = flat[(from + 1) + j - 1]
    <3>. DEFINE a == from + 1
                b == d * dim
    <3>1. a \in Int /\ b \in Int /\ b - a + 1 = dim /\ a <= b
      BY <2>1
    <3>2. \A p \in a..b : flat[p] \in Int
      BY <2>3
    <3>. HIDE DEF a, b
    <3>3. /\ SubSeq(flat, a, b) \in Seq(Int)
          /\ Len(SubSeq(flat, a, b)) = b - a + 1
          /\ \A j \in 1..(b - a + 1) : SubSeq(flat, a, b)[j] = flat[a + j - 1]
      BY <3>1, <3>2, SubSeqProperties
    <3>. QED
      BY <3>1, <3>3 DEF a, b
  <2>. HIDE DEF t
  <2>5. ASSUME NEW j \in 1..dim PROVE t[j] = rows[d][j]
    <3>1. (from + 1) + j - 1 = from + j
      BY <2>1
    <3>. QED
      BY <2>2, <2>4, <3>1
  <2>6. t = rows[d]
    <3>1. t \in [1..dim -> Int] /\ rows[d] \in [1..dim -> Int]
      BY <2>4
    <3>. QED
      BY <2>5, <3>1
  <2>. QED
    BY <2>6 DEF t, from
<1>14. Rows(flat, dim, n) = [d \in 1..n |-> rows[d]]
  BY <1>13 DEF Rows
<1>15. Len(flat) = n * dim
  BY <1>12
<1>. QED
  BY <1>14, <1>15 DEF flat

(***************************************************************************)
(* Fields.                                                                 *)
(***************************************************************************)

\* What was read is replaced by a later value.
LEMMA Reval ==
  ASSUME NEW in, NEW a, NEW b
  PROVE  [At(in, a) EXCEPT !.val = b] = At(in, b)
<1>. DEFINE r == [ok |-> TRUE, in |-> in, val |-> a]
            s == [r EXCEPT !.val = b]
            t == [ok |-> TRUE, in |-> in, val |-> b]
<1>1. DOMAIN s = {"ok", "in", "val"} /\ s.ok = TRUE /\ s.in = in /\ s.val = b
  OBVIOUS
<1>2. s = [f \in {"ok", "in", "val"} |-> s[f]]
  OBVIOUS
<1>. HIDE DEF s
<1>3. s = t
  BY <1>1, <1>2
<1>. QED
  BY <1>3 DEF s, At

\* An integer is read back, and the rest left.
LEMMA IntBack ==
  ASSUME NEW v \in Nat, NEW w \in Seq(Nat), NEW x
  PROVE  ReadInt(At(<<v>> \o w, x)) = At(w, v)
<1>. DEFINE s == <<v>> \o w
<1>1. s # <<>> /\ Head(s) = v /\ Tail(s) = w
  BY InFront
<1>. HIDE DEF s
<1>2. ReadInt(At(s, x)) = At(w, v)
  BY <1>1 DEF ReadInt, At
<1>. QED
  BY <1>2 DEF s

\* A string is written as numbers.
LEMMA PutBlobType ==
  ASSUME NEW b \in Seq(Nat)
  PROVE  PutBlob(b) \in Seq(Nat) /\ Len(b) \in Nat
<1>1. Len(b) \in Nat
  BY LenProperties
<1>. QED
  BY <1>1, InFront DEF PutBlob

\* A string is read back, and the rest left.
LEMMA BlobBack ==
  ASSUME NEW b \in Seq(Nat), NEW w \in Seq(Nat), NEW x
  PROVE  ReadBlob(At(PutBlob(b) \o w, x)) = At(w, b)
<1>. DEFINE s == b \o w
            k == Len(b)
<1>1. s \in Seq(Nat) /\ k \in Nat /\ <<k>> \in Seq(Nat)
  BY ConcatProperties, LenProperties
<1>2. PutBlob(b) \o w = <<k>> \o s
  <2>. DEFINE c == <<k>>
  <2>1. c \in Seq(Nat)
    BY <1>1
  <2>. HIDE DEF c
  <2>2. (c \o b) \o w = c \o (b \o w)
    BY <2>1, ConcatAssociative
  <2>. QED
    BY <2>2 DEF c, PutBlob
<1>3. ReadInt(At(<<k>> \o s, x)) = At(s, k)
  <2>. HIDE DEF s, k
  <2>. QED
    BY <1>1, IntBack
<1>4. ~(k > Len(s)) /\ SubSeq(s, 1, k) = b /\ SubSeq(s, k + 1, Len(s)) = w
  BY Halves
<1>. DEFINE r == At(<<k>> \o s, x)
<1>. HIDE DEF s, k, r
<1>5. ReadInt(r).ok = TRUE /\ ReadInt(r).in = s /\ ReadInt(r).val = k
  BY <1>3 DEF At, r
<1>6. ReadBlob(r) = At(w, b)
  BY <1>4, <1>5 DEF ReadBlob, Then, At
<1>. QED
  BY <1>2, <1>6 DEF r

\* Two functions that start alike and go on alike end alike.
LEMMA InStep ==
  ASSUME NEW n \in Nat, NEW f, NEW g, f[0] = g[0],
         \A i \in 1..n : f[i - 1] = g[i - 1] => f[i] = g[i]
  PROVE  f[n] = g[n]
<1>. DEFINE T == {i \in 0..n : f[i] = g[i]}
<1>1. ASSUME NEW i \in 0..n, i \in T, i # n PROVE i + 1 \in T
  <2>1. i + 1 \in 1..n /\ i + 1 \in 0..n /\ (i + 1) - 1 = i
    BY <1>1
  <2>2. f[i + 1] = g[i + 1]
    BY <1>1, <2>1
  <2>. QED
    BY <2>1, <2>2
<1>2. 0 \in T
  OBVIOUS
<1>. HIDE DEF T
<1>3. \A i \in 0..n : i \in T
  BY <1>1, <1>2, UpTo
<1>. QED
  BY <1>3 DEF T

\* The readers of a counted sequence: behind i of its parts, i of the values
\* are read and R[i] is left.
Reading(n, R, v) == [i \in 0..n |-> At(R[i], First(v, i))]

\* What ReadMany makes of the reader a and the reader one behind the next part.
Adding(a, one) ==
  IF a.ok THEN IF one.ok THEN [one EXCEPT !.val = Append(a.val, one.val)] ELSE Err
  ELSE Err

Counted(n, R, v, A) ==
  /\ A = [i \in 0..n |-> A[i]]
  /\ A[0] = At(R[0], <<>>)
  /\ A[n] = At(R[n], First(v, n))
  /\ \A i \in 1..n : /\ A[i - 1] = At(R[i - 1], First(v, i - 1))
                     /\ Adding(A[i - 1], At(R[i], v[i])) = A[i]

\* What was read is put behind what was read before.
LEMMA NextAdded ==
  ASSUME NEW n \in Nat, NEW i \in 1..n, NEW v, NEW in, NEW rest
  PROVE  Adding(At(in, First(v, i - 1)), At(rest, v[i])) = At(rest, First(v, i))
<1>. DEFINE k == i - 1
            so_far == First(v, k)
            one == v[i]
<1>1. k \in Nat /\ k + 1 = i
  OBVIOUS
<1>2. Append(so_far, one) = First(v, i)
  BY <1>1, Longer DEF First
<1>. HIDE DEF so_far, k, one
<1>3. /\ At(in, so_far).ok = TRUE /\ At(in, so_far).val = so_far
      /\ At(rest, one).ok = TRUE /\ At(rest, one).val = one
  BY DEF At
<1>4. [At(rest, one) EXCEPT !.val = Append(so_far, one)] = At(rest, Append(so_far, one))
  BY Reval
<1>5. Adding(At(in, so_far), At(rest, one)) = At(rest, First(v, i))
  BY <1>2, <1>3, <1>4 DEF Adding
<1>. QED
  BY <1>5 DEF so_far, k, one

\* Reads of which each gives the next value collect the values.
LEMMA ReadingAdds ==
  ASSUME NEW n \in Nat, NEW R, NEW v
  PROVE  Counted(n, R, v, Reading(n, R, v))
<1>. DEFINE A == Reading(n, R, v)
<1>1. A = [i \in 0..n |-> A[i]]
  BY DEF Reading
<1>2. \A i \in 0..n : A[i] = At(R[i], First(v, i))
  BY DEF Reading
<1>. HIDE DEF A
<1>3. A[0] = At(R[0], <<>>)
  <2>1. First(v, 0) = <<>> /\ 0 \in 0..n
    BY DEF First
  <2>. QED
    BY <1>2, <2>1
<1>4. ASSUME NEW i \in 1..n
      PROVE  /\ A[i - 1] = At(R[i - 1], First(v, i - 1))
             /\ Adding(A[i - 1], At(R[i], v[i])) = A[i]
  <2>1. i - 1 \in 0..n /\ i \in 0..n
    OBVIOUS
  <2>. QED
    BY <1>2, <2>1, NextAdded
<1>5. A[n] = At(R[n], First(v, n))
  BY <1>2
<1>. QED
  BY <1>1, <1>3, <1>4, <1>5 DEF A, Counted

\* The readers of a counted sequence whose k-th part cannot be read.
Stopping(n, k, Q, v) == [i \in 0..n |-> IF i < k THEN At(Q[i], First(v, i)) ELSE Err]

Stopped(n, k, Q, v, A) ==
  /\ A = [i \in 0..n |-> A[i]]
  /\ A[0] = At(Q[0], <<>>)
  /\ A[n] = Err
  /\ \A i \in 1..(k - 1) : /\ A[i - 1] = At(Q[i - 1], First(v, i - 1))
                           /\ Adding(A[i - 1], At(Q[i], v[i])) = A[i]
  /\ A[k - 1] = At(Q[k - 1], First(v, k - 1)) /\ Adding(A[k - 1], Err) = A[k]
  /\ \A i \in (k + 1)..n : A[i - 1] = Err /\ \A one : Adding(A[i - 1], one) = A[i]

\* After a read that fails, nothing more is read.
LEMMA StoppingStops ==
  ASSUME NEW n \in Nat, NEW k \in 1..n, NEW Q, NEW v
  PROVE  Stopped(n, k, Q, v, Stopping(n, k, Q, v))
<1>. DEFINE A == Stopping(n, k, Q, v)
<1>1. A = [i \in 0..n |-> A[i]]
  BY DEF Stopping
<1>2. /\ \A i \in 0..(k - 1) : A[i] = At(Q[i], First(v, i))
      /\ \A i \in k..n : A[i] = Err
  <2>1. \A i \in 0..(k - 1) : i \in 0..n /\ i < k
    OBVIOUS
  <2>2. \A i \in k..n : i \in 0..n /\ ~(i < k)
    OBVIOUS
  <2>. QED
    BY <2>1, <2>2 DEF Stopping
<1>. HIDE DEF A
<1>3. A[0] = At(Q[0], <<>>)
  <2>1. First(v, 0) = <<>> /\ 0 \in 0..(k - 1)
    BY DEF First
  <2>. QED
    BY <1>2, <2>1
<1>4. ASSUME NEW i \in 1..(k - 1)
      PROVE  /\ A[i - 1] = At(Q[i - 1], First(v, i - 1))
             /\ Adding(A[i - 1], At(Q[i], v[i])) = A[i]
  <2>1. i - 1 \in 0..(k - 1) /\ i \in 0..(k - 1) /\ i \in 1..n
    OBVIOUS
  <2>. QED
    BY <1>2, <2>1, NextAdded
<1>5. Err.ok = FALSE
  BY DEF Err
<1>6. A[k - 1] = At(Q[k - 1], First(v, k - 1)) /\ Adding(A[k - 1], Err) = A[k]
  <2>1. k - 1 \in 0..(k - 1) /\ k \in k..n
    OBVIOUS
  <2>2. A[k] = Err /\ A[k - 1] = At(Q[k - 1], First(v, k - 1))
    BY <1>2, <2>1
  <2>. QED
    BY <1>5, <2>2 DEF Adding
<1>7. ASSUME NEW i \in (k + 1)..n PROVE A[i - 1] = Err /\ \A one : Adding(A[i - 1], one) = A[i]
  <2>1. i - 1 \in k..n /\ i \in k..n
    OBVIOUS
  <2>2. A[i - 1] = Err /\ A[i] = Err
    BY <1>2, <2>1
  <2>. QED
    BY <1>5, <2>2 DEF Adding
<1>8. A[n] = Err
  BY <1>2
<1>. QED
  BY <1>1, <1>3, <1>4, <1>6, <1>7, <1>8 DEF A, Stopped

\* A list of strings, each behind its length.
Blobs(n, v) == FlattenSeq([i \in 1..n |-> PutBlob(v[i])])

\* Strings are read one after the other.
LEMMA BlobReads ==
  ASSUME NEW n \in Nat, NEW in, NEW x, NEW A,
         A = [i \in 0..n |-> A[i]],
         A[0] = At(in, <<>>),
         \A i \in 1..n : A[i] = Adding(A[i - 1], ReadBlob(A[i - 1]))
  PROVE  ReadMany(At(in, x), n, ReadBlob) = A[n]
<1>. DEFINE r == At(in, x)
            start == [r EXCEPT !.val = <<>>]
            Body(F) == [i \in 0..n |->
                          IF i = 0 THEN start ELSE Adding(F[i - 1], ReadBlob(F[i - 1]))]
            it == CHOOSE F : F = Body(F)
<1>1. ReadMany(r, n, ReadBlob) = it[n]
  BY DEF ReadMany, Then, Adding
<1>2. A[0] = start
  BY Reval
<1>. HIDE DEF start
<1>3. A = Body(A)
  <2>1. ASSUME NEW i \in 0..n
        PROVE  A[i] = IF i = 0 THEN start ELSE Adding(A[i - 1], ReadBlob(A[i - 1]))
    <3>1. CASE i = 0
      BY <1>2, <3>1, Zenon
    <3>2. CASE i # 0
      <4>1. i \in 1..n
        BY <3>2
      <4>. QED
        BY <3>2, <4>1, Zenon
    <3>. QED
      BY <3>1, <3>2
  <2>. QED
    BY <2>1
<1>4. it = Body(it)
  <2>. HIDE DEF Body
  <2>1. \E F : F = Body(F)
    BY <1>3
  <2>. QED
    BY <2>1, Zenon
<1>. HIDE DEF it
<1>5. \A i \in 0..n : it[i] = IF i = 0 THEN start ELSE Adding(it[i - 1], ReadBlob(it[i - 1]))
  BY <1>4
<1>6. it[0] = A[0]
  BY <1>2, <1>5
<1>7. ASSUME NEW i \in 1..n, it[i - 1] = A[i - 1] PROVE it[i] = A[i]
  <2>1. i \in 0..n /\ i # 0
    OBVIOUS
  <2>2. it[i] = Adding(it[i - 1], ReadBlob(it[i - 1]))
    BY <1>5, <2>1
  <2>. QED
    BY <1>7, <2>2
<1>8. it[n] = A[n]
  BY <1>6, <1>7, InStep
<1>. QED
  BY <1>1, <1>8

\* Strings, one behind the other, are read back.
LEMMA BlobsBack ==
  ASSUME NEW n \in Nat, NEW v \in [1..n -> Seq(Nat)], NEW w \in Seq(Nat), NEW x
  PROVE  ReadMany(At(Blobs(n, v) \o w, x), n, ReadBlob) = At(w, v)
<1>. DEFINE parts == [i \in 1..n |-> PutBlob(v[i])]
<1>1. PICK R : Remaining(n, Nat, parts, w, R)
  <2>1. parts \in [1..n -> Seq(Nat)]
    BY PutBlobType
  <2>. HIDE DEF parts
  <2>. QED
    BY <2>1, Unrolled
<1>. DEFINE A == Reading(n, R, v)
<1>2. Counted(n, R, v, A)
  BY ReadingAdds
<1>. HIDE DEF A
<1>3. A[0] = At(Blobs(n, v) \o w, <<>>)
  <2>1. R[0] = Blobs(n, v) \o w
    BY <1>1 DEF Remaining, Blobs
  <2>. QED
    BY <1>2, <2>1 DEF Counted
<1>4. ASSUME NEW i \in 1..n PROVE A[i] = Adding(A[i - 1], ReadBlob(A[i - 1]))
  <2>1. R[i - 1] = PutBlob(v[i]) \o R[i] /\ R[i] \in Seq(Nat) /\ v[i] \in Seq(Nat)
    <3>1. parts[i] = PutBlob(v[i]) /\ i \in 0..n
      OBVIOUS
    <3>. HIDE DEF parts
    <3>2. R[i - 1] = parts[i] \o R[i] /\ R \in [0..n -> Seq(Nat)]
      BY <1>1 DEF Remaining
    <3>. QED
      BY <3>1, <3>2
  <2>2. A[i - 1] = At(R[i - 1], First(v, i - 1)) /\ Adding(A[i - 1], At(R[i], v[i])) = A[i]
    BY <1>2 DEF Counted
  <2>. QED
    BY <2>1, <2>2, BlobBack
<1>5. A[n] = At(w, v)
  <2>1. R[n] = w
    BY <1>1 DEF Remaining
  <2>2. First(v, n) = v
    BY DEF First
  <2>. QED
    BY <1>2, <2>1, <2>2 DEF Counted
<1>6. A = [i \in 0..n |-> A[i]]
  BY <1>2 DEF Counted
<1>7. ReadMany(At(Blobs(n, v) \o w, x), n, ReadBlob) = A[n]
  BY <1>3, <1>4, <1>6, BlobReads
<1>. QED
  BY <1>5, <1>7

\* A count in front is read, and what it counts is left.
LEMMA CountBack ==
  ASSUME NEW v \in Nat, NEW s \in Seq(Nat), NEW w \in Seq(Nat), NEW x
  PROVE  /\ <<v>> \o s \in Seq(Nat)
         /\ ReadInt(At((<<v>> \o s) \o w, x)) = At(s \o w, v)
<1>1. <<v>> \o s \in Seq(Nat)
  BY InFront
<1>2. (<<v>> \o s) \o w = <<v>> \o (s \o w)
  <2>. DEFINE c == <<v>>
  <2>1. c \in Seq(Nat)
    OBVIOUS
  <2>. HIDE DEF c
  <2>2. (c \o s) \o w = c \o (s \o w)
    BY <2>1, ConcatAssociative
  <2>. QED
    BY <2>2 DEF c
<1>3. s \o w \in Seq(Nat)
  BY ConcatProperties
<1>4. ReadInt(At(<<v>> \o (s \o w), x)) = At(s \o w, v)
  <2>. DEFINE t == s \o w
  <2>. HIDE DEF t
  <2>1. ReadInt(At(<<v>> \o t, x)) = At(t, v)
    BY <1>3, IntBack DEF t
  <2>. QED
    BY <2>1 DEF t
<1>. QED
  BY <1>1, <1>2, <1>4

\* The values a field of this type can hold.
Fits(type, v) ==
  \/ type = "int" /\ v \in Nat
  \/ type = "flag" /\ v \in BOOLEAN
  \/ type = "blob" /\ v \in Seq(Nat)
  \/ type = "opt" /\ (v = <<>> \/ \E b \in Seq(Nat) : v = <<b>>)
  \/ type = "list" /\ v \in Seq(Seq(Nat))

\* What is put into a field is read from it, and what follows is left.
Back(type, v) ==
  /\ Put(type, v) \in Seq(Nat)
  /\ \A w \in Seq(Nat) : \A x : Read(type, At(Put(type, v) \o w, x)) = At(w, v)

\* A flag is read back.
LEMMA FlagBack ==
  ASSUME NEW v \in BOOLEAN
  PROVE  Back("flag", v)
<1>. DEFINE k == IF v THEN 1 ELSE 0
<1>1. Put("flag", v) = <<k>> /\ k \in Nat /\ k \in {0, 1} /\ (k = 1) = v
  BY DEF Put
<1>. HIDE DEF k
<1>2. ASSUME NEW w \in Seq(Nat), NEW x PROVE Read("flag", At(<<k>> \o w, x)) = At(w, v)
  <2>. DEFINE r == At(<<k>> \o w, x)
  <2>1. ReadInt(r) = At(w, k)
    BY <1>1, IntBack
  <2>. HIDE DEF r
  <2>2. ReadInt(r).ok = TRUE /\ ReadInt(r).val = k
    BY <2>1 DEF At
  <2>3. [At(w, k) EXCEPT !.val = (k = 1)] = At(w, k = 1)
    BY Reval
  <2>4. ReadFlag(r) = At(w, k = 1)
    BY <1>1, <2>1, <2>2, <2>3 DEF ReadFlag, Then
  <2>5. Read("flag", r) = ReadFlag(r)
    BY DEF Read
  <2>. QED
    BY <1>1, <2>4, <2>5 DEF r
<1>. DEFINE c == <<k>>
<1>3. Put("flag", v) = c /\ c \in Seq(Nat)
  BY <1>1
<1>4. \A w \in Seq(Nat) : \A x : Read("flag", At(c \o w, x)) = At(w, v)
  BY <1>2
<1>. HIDE DEF c
<1>. QED
  BY <1>3, <1>4 DEF Back

\* An optional string is read back.
LEMMA OptBack ==
  ASSUME NEW v, v = <<>> \/ \E b \in Seq(Nat) : v = <<b>>
  PROVE  Back("opt", v)
<1>1. CASE v = <<>>
  <2>1. Put("opt", v) = <<0>> /\ <<0>> \in Seq(Nat)
    BY <1>1 DEF Put
  <2>2. ASSUME NEW w \in Seq(Nat), NEW x PROVE Read("opt", At(<<0>> \o w, x)) = At(w, v)
    <3>. DEFINE r == At(<<0>> \o w, x)
    <3>1. ReadInt(r) = At(w, 0)
      BY IntBack
    <3>. HIDE DEF r
    <3>2. ReadInt(r).ok = TRUE /\ ReadInt(r).val = 0
      BY <3>1 DEF At
    <3>3. [At(w, 0) EXCEPT !.val = <<>>] = At(w, <<>>)
      BY Reval
    <3>4. ReadOpt(r) = At(w, <<>>)
      BY <3>1, <3>2, <3>3 DEF ReadOpt, Then
    <3>5. Read("opt", r) = ReadOpt(r)
      BY DEF Read
    <3>. QED
      BY <1>1, <3>4, <3>5 DEF r
  <2>. QED
    BY <2>1, <2>2 DEF Back
<1>2. ASSUME NEW b \in Seq(Nat), v = <<b>> PROVE Back("opt", v)
  <2>. DEFINE p == PutBlob(b)
  <2>1. Put("opt", v) = <<1>> \o p
    <3>1. v # <<>> /\ v[1] = b
      BY <1>2
    <3>. QED
      BY <3>1 DEF Put
  <2>2. p \in Seq(Nat)
    BY PutBlobType
  <2>3. ASSUME NEW w \in Seq(Nat), NEW x PROVE Read("opt", At((<<1>> \o p) \o w, x)) = At(w, v)
    <3>. DEFINE r == At((<<1>> \o p) \o w, x)
                n == ReadInt(r)
    <3>. HIDE DEF p
    <3>1. n = At(p \o w, 1)
      BY <2>2, CountBack
    <3>. HIDE DEF r
    <3>2. n.ok = TRUE /\ n.val = 1
      BY <3>1 DEF At
    <3>3. ReadBlob(n) = At(w, b)
      <4>. HIDE DEF n
      <4>. QED
        BY <3>1, BlobBack DEF p
    <3>4. ReadBlob(n).ok = TRUE /\ ReadBlob(n).val = b
      BY <3>3 DEF At
    <3>5. [At(w, b) EXCEPT !.val = <<b>>] = At(w, <<b>>)
      BY Reval
    <3>6. ReadOpt(r) = At(w, <<b>>)
      BY <3>2, <3>3, <3>4, <3>5 DEF ReadOpt, Then
    <3>7. Read("opt", r) = ReadOpt(r)
      BY DEF Read
    <3>. QED
      BY <1>2, <3>6, <3>7 DEF r
  <2>4. <<1>> \o p \in Seq(Nat)
    BY <2>2, InFront
  <2>. HIDE DEF p
  <2>. QED
    BY <2>1, <2>3, <2>4 DEF Back
<1>. QED
  BY <1>1, <1>2

\* Strings are written as numbers.
LEMMA BlobsType ==
  ASSUME NEW n \in Nat, NEW v \in [1..n -> Seq(Nat)]
  PROVE  Blobs(n, v) \in Seq(Nat)
<1>. DEFINE parts == [i \in 1..n |-> PutBlob(v[i])]
<1>1. parts \in [1..n -> Seq(Nat)]
  BY PutBlobType
<1>. HIDE DEF parts
<1>2. PICK P : Joined(n, Nat, parts, P) /\ FlattenSeq(parts) = P[n]
  BY <1>1, Flattened
<1>3. FlattenSeq(parts) \in Seq(Nat)
  <2>1. n \in 0..n
    OBVIOUS
  <2>. QED
    BY <1>2, <2>1 DEF Joined
<1>. QED
  BY <1>3 DEF Blobs, parts

\* A list of strings is read back.
LEMMA ListBack ==
  ASSUME NEW v \in Seq(Seq(Nat))
  PROVE  Back("list", v)
<1>. DEFINE n == Len(v)
            p == Blobs(n, v)
<1>1. n \in Nat /\ v \in [1..n -> Seq(Nat)] /\ DOMAIN v = 1..n
  BY LenProperties
<1>2. Put("list", v) = <<n>> \o p
  BY <1>1 DEF Put, Blobs
<1>3. p \in Seq(Nat)
  BY <1>1, BlobsType
<1>. HIDE DEF n
<1>4. ASSUME NEW w \in Seq(Nat), NEW x PROVE Read("list", At((<<n>> \o p) \o w, x)) = At(w, v)
  <2>. DEFINE r == At((<<n>> \o p) \o w, x)
              m == ReadInt(r)
  <2>1. ReadMany(At(p \o w, n), n, ReadBlob) = At(w, v)
    BY <1>1, BlobsBack
  <2>. HIDE DEF p
  <2>2. m = At(p \o w, n)
    BY <1>1, <1>3, CountBack
  <2>. HIDE DEF r
  <2>3. m.ok = TRUE /\ m.val = n
    BY <2>2 DEF At
  <2>4. ReadList(r) = ReadMany(m, m.val, ReadBlob)
    BY <2>3 DEF ReadList, Then
  <2>5. Read("list", r) = ReadList(r)
    BY DEF Read
  <2>. HIDE DEF m
  <2>. QED
    BY <2>1, <2>2, <2>3, <2>4, <2>5 DEF r
<1>5. <<n>> \o p \in Seq(Nat)
  BY <1>1, <1>3, InFront
<1>. HIDE DEF p
<1>. QED
  BY <1>2, <1>4, <1>5 DEF Back

\* A field of every type is read back.
LEMMA FieldBack ==
  ASSUME NEW type, NEW v, Fits(type, v)
  PROVE  Back(type, v)
<1>1. CASE type = "int" /\ v \in Nat
  <2>1. Put("int", v) = <<v>> /\ <<v>> \in Seq(Nat)
    BY <1>1 DEF Put
  <2>2. \A r : Read("int", r) = ReadInt(r)
    BY DEF Read
  <2>3. \A w \in Seq(Nat) : \A x : ReadInt(At(<<v>> \o w, x)) = At(w, v)
    BY <1>1, IntBack
  <2>. QED
    BY <1>1, <2>1, <2>2, <2>3 DEF Back
<1>2. CASE type = "blob" /\ v \in Seq(Nat)
  <2>1. Put("blob", v) = PutBlob(v) /\ PutBlob(v) \in Seq(Nat)
    BY <1>2, PutBlobType DEF Put
  <2>2. \A r : Read("blob", r) = ReadBlob(r)
    BY DEF Read
  <2>3. \A w \in Seq(Nat) : \A x : ReadBlob(At(PutBlob(v) \o w, x)) = At(w, v)
    BY <1>2, BlobBack
  <2>. QED
    BY <1>2, <2>1, <2>2, <2>3 DEF Back
<1>. QED
  BY <1>1, <1>2, FlagBack, OptBack, ListBack DEF Fits

(***************************************************************************)
(* Documents.                                                              *)
(***************************************************************************)

\* The columns of a file that this code writes: their names and their types.
Cols == Columns \o Freshness

\* The columns are twelve, each of a name of its own.
LEMMA TwelveColumns ==
  /\ Len(Cols) = 12
  /\ Cols[1] = <<"url", "blob">> /\ Cols[2] = <<"url_key", "int">>
  /\ Cols[3] = <<"kind", "int">> /\ Cols[4] = <<"content_hash", "int">>
  /\ Cols[5] = <<"doc_len", "int">> /\ Cols[6] = <<"title", "opt">>
  /\ Cols[7] = <<"snippet", "blob">> /\ Cols[8] = <<"lang", "opt">>
  /\ Cols[9] = <<"tags", "list">> /\ Cols[10] = <<"fetched_at_ms", "int">>
  /\ Cols[11] = <<"pinned", "flag">> /\ Cols[12] = <<"etag", "opt">>
  /\ {Cols[i][1] : i \in 1..12} = DOMAIN Legacy
  /\ Legacy = [name \in DOMAIN Legacy |-> Legacy[name]]
<1>. DEFINE S == {Columns[i] : i \in 1..9} \cup {Freshness[i] : i \in 1..3}
            both == Columns \o Freshness
<1>1. Columns \in Seq(S) /\ Len(Columns) = 9 /\ Freshness \in Seq(S) /\ Len(Freshness) = 3
  <2>1. Columns = [i \in 1..9 |-> Columns[i]] /\ Freshness = [i \in 1..3 |-> Freshness[i]]
    BY DEF Columns, Freshness
  <2>2. (\A i \in 1..9 : Columns[i] \in S) /\ (\A i \in 1..3 : Freshness[i] \in S)
    OBVIOUS
  <2>. HIDE DEF S
  <2>3. Columns \in [1..9 -> S] /\ Freshness \in [1..3 -> S]
    BY <2>1, <2>2
  <2>. QED
    BY <2>3, AsSequence
<1>. HIDE DEF S
<1>2. /\ Len(both) = 9 + 3
      /\ \A i \in 1..(9 + 3) : both[i] = IF i <= 9 THEN Columns[i] ELSE Freshness[i - 9]
  <2>1. /\ Len(both) = Len(Columns) + Len(Freshness)
        /\ \A i \in 1..(Len(Columns) + Len(Freshness)) :
             both[i] = IF i <= Len(Columns) THEN Columns[i] ELSE Freshness[i - Len(Columns)]
    BY <1>1, ConcatProperties
  <2>. HIDE DEF both
  <2>. QED
    BY <1>1, <2>1
<1>3. Cols = both
  BY DEF Cols
<1>. HIDE DEF both
<1>4. \A i \in 1..9 : Cols[i] = Columns[i]
  BY <1>2, <1>3
<1>5. Cols[10] = Freshness[1] /\ Cols[11] = Freshness[2] /\ Cols[12] = Freshness[3]
  BY <1>2, <1>3
<1>6. /\ Columns[1] = <<"url", "blob">> /\ Columns[2] = <<"url_key", "int">>
      /\ Columns[3] = <<"kind", "int">> /\ Columns[4] = <<"content_hash", "int">>
      /\ Columns[5] = <<"doc_len", "int">> /\ Columns[6] = <<"title", "opt">>
      /\ Columns[7] = <<"snippet", "blob">> /\ Columns[8] = <<"lang", "opt">>
      /\ Columns[9] = <<"tags", "list">> /\ Freshness[1] = <<"fetched_at_ms", "int">>
      /\ Freshness[2] = <<"pinned", "flag">> /\ Freshness[3] = <<"etag", "opt">>
  BY DEF Columns, Freshness
<1>7. /\ Cols[1] = <<"url", "blob">> /\ Cols[2] = <<"url_key", "int">>
      /\ Cols[3] = <<"kind", "int">> /\ Cols[4] = <<"content_hash", "int">>
      /\ Cols[5] = <<"doc_len", "int">> /\ Cols[6] = <<"title", "opt">>
      /\ Cols[7] = <<"snippet", "blob">> /\ Cols[8] = <<"lang", "opt">>
      /\ Cols[9] = <<"tags", "list">> /\ Cols[10] = <<"fetched_at_ms", "int">>
      /\ Cols[11] = <<"pinned", "flag">> /\ Cols[12] = <<"etag", "opt">>
  BY <1>4, <1>5, <1>6
<1>8. DOMAIN Legacy = {"url", "url_key", "kind", "content_hash", "doc_len", "title", "snippet",
                       "lang", "tags", "fetched_at_ms", "pinned", "etag"}
  BY DEF Legacy
<1>9. Legacy = [name \in DOMAIN Legacy |-> Legacy[name]]
  BY DEF Legacy
<1>10. 1..12 = {1, 2, 3, 4, 5, 6, 7, 8, 9, 10, 11, 12}
  OBVIOUS
<1>11. /\ Cols[1][1] = "url" /\ Cols[2][1] = "url_key" /\ Cols[3][1] = "kind"
       /\ Cols[4][1] = "content_hash" /\ Cols[5][1] = "doc_len" /\ Cols[6][1] = "title"
       /\ Cols[7][1] = "snippet" /\ Cols[8][1] = "lang" /\ Cols[9][1] = "tags"
       /\ Cols[10][1] = "fetched_at_ms" /\ Cols[11][1] = "pinned" /\ Cols[12][1] = "etag"
  BY <1>7
<1>12. {Cols[i][1] : i \in 1..12} = DOMAIN Legacy
  BY <1>8, <1>10, <1>11
<1>. QED
  BY <1>2, <1>3, <1>7, <1>9, <1>12

\* A stored document: a value for every column, of the column's type.
Stored(d) ==
  /\ d = [name \in DOMAIN Legacy |-> d[name]]
  /\ \A i \in 1..12 : Fits(Cols[i][2], d[Cols[i][1]])

\* Every document has a stored form of these columns.
LEMMA DocumentStored ==
  ASSUME NEW doc \in Document
  PROVE  Stored(MetaOf(doc))
<1>. DEFINE d == MetaOf(doc)
<1>1. d = [name \in DOMAIN Legacy |-> d[name]]
  BY DEF Legacy, MetaOf
<1>2. /\ doc.url \in Seq(Nat) /\ doc.url_key \in Nat /\ doc.kind \in Nat
      /\ doc.content_hash \in Nat /\ doc.snippet \in Seq(Nat)
      /\ doc.tags \in Seq(Seq(Nat)) /\ doc.fetched_at_ms \in Nat /\ doc.pinned \in BOOLEAN
      /\ doc.title \in Optional /\ doc.lang \in Optional /\ doc.etag \in Optional
      /\ doc.terms \in Seq(Nat)
  BY DEF Document, String
<1>3. Len(doc.terms) \in Nat
  BY <1>2, LenProperties
<1>4. \A o \in Optional : o = <<>> \/ \E b \in Seq(Nat) : o = <<b>>
  <2>. SUFFICES ASSUME NEW o \in Optional, o # <<>> PROVE \E b \in Seq(Nat) : o = <<b>>
    OBVIOUS
  <2>1. o \in Seq(Seq(Nat)) /\ Len(o) <= 1
    BY DEF Optional, String
  <2>. DEFINE S == Seq(Nat)
  <2>3. o \in Seq(S) /\ Len(o) = 1 /\ o[1] \in S
    <3>. HIDE DEF S
    <3>1. o \in Seq(S)
      BY <2>1 DEF S
    <3>2. Len(o) \in Nat /\ o \in [1..Len(o) -> S]
      BY <3>1, LenProperties
    <3>3. Len(o) # 0
      BY <3>1, EmptySeq
    <3>. QED
      BY <2>1, <3>1, <3>2, <3>3
  <2>. HIDE DEF S
  <2>2. o = <<o[1]>>
    BY <2>3
  <2>. QED
    BY <2>2, <2>3 DEF S
<1>5. /\ d.url = doc.url /\ d.url_key = doc.url_key /\ d.kind = doc.kind
      /\ d.content_hash = doc.content_hash /\ d.doc_len = Len(doc.terms)
      /\ d.title = doc.title /\ d.snippet = doc.snippet /\ d.lang = doc.lang
      /\ d.tags = doc.tags /\ d.fetched_at_ms = doc.fetched_at_ms
      /\ d.pinned = doc.pinned /\ d.etag = doc.etag
  BY DEF MetaOf
<1>. HIDE DEF d
<1>6. /\ Fits("blob", d.url) /\ Fits("int", d.url_key) /\ Fits("int", d.kind)
      /\ Fits("int", d.content_hash) /\ Fits("int", d.doc_len) /\ Fits("opt", d.title)
      /\ Fits("blob", d.snippet) /\ Fits("opt", d.lang) /\ Fits("list", d.tags)
      /\ Fits("int", d.fetched_at_ms) /\ Fits("flag", d.pinned) /\ Fits("opt", d.etag)
  BY <1>2, <1>3, <1>4, <1>5 DEF Fits
<1>7. \A i \in 1..12 : Fits(Cols[i][2], d[Cols[i][1]])
  <2>1. \A i \in 1..12 : i = 1 \/ i = 2 \/ i = 3 \/ i = 4 \/ i = 5 \/ i = 6 \/ i = 7 \/ i = 8
                         \/ i = 9 \/ i = 10 \/ i = 11 \/ i = 12
    OBVIOUS
  <2>. QED
    BY <1>6, <2>1, TwelveColumns
<1>. QED
  BY <1>1, <1>7 DEF Stored, d

\* What DecodeDoc makes of the reader a and the reader c behind the next column.
Setting(a, c, name) ==
  IF a.ok THEN IF c.ok THEN [c EXCEPT !.val = [a.val EXCEPT ![name] = c.val]] ELSE Err
  ELSE Err

\* What decode does for one document.
ReadDoc(r) == DecodeDoc(r, TRUE)

\* A stored document is read column by column.
LEMMA DocReads ==
  ASSUME NEW r, NEW A,
         A = [i \in 0..12 |-> A[i]],
         A[0] = [r EXCEPT !.val = Legacy],
         \A i \in 1..12 : A[i] = Setting(A[i - 1], Read(Cols[i][2], A[i - 1]), Cols[i][1])
  PROVE  ReadDoc(r) = A[12]
<1>. DEFINE start == [r EXCEPT !.val = Legacy]
            columns == IF TRUE THEN Columns \o Freshness ELSE Columns
            Body(F) == [i \in 0..Len(columns) |->
                          IF i = 0 THEN start
                          ELSE Setting(F[i - 1], Read(columns[i][2], F[i - 1]), columns[i][1])]
            it == CHOOSE F : F = Body(F)
<1>1. ReadDoc(r) = it[Len(columns)]
  BY DEF ReadDoc, DecodeDoc, Then, Setting
<1>0. columns = Cols
  BY DEF Cols
<1>. HIDE DEF columns
<1>. HIDE DEF start
<1>2. Len(Cols) = 12
  BY TwelveColumns
<1>3. A = Body(A)
  <2>1. \A i \in 0..12 : A[i] = IF i = 0 THEN start
                                ELSE Setting(A[i - 1], Read(Cols[i][2], A[i - 1]), Cols[i][1])
    BY DEF start
  <2>. QED
    BY <1>0, <1>2, <2>1
<1>4. it = Body(it)
  <2>. HIDE DEF Body
  <2>1. \E F : F = Body(F)
    BY <1>3
  <2>. QED
    BY <2>1, Zenon
<1>. HIDE DEF it
<1>5. \A i \in 0..12 : it[i] = IF i = 0 THEN start
                               ELSE Setting(it[i - 1], Read(Cols[i][2], it[i - 1]), Cols[i][1])
  BY <1>0, <1>2, <1>4
<1>6. it[0] = A[0] /\ \A i \in 1..12 : it[i - 1] = A[i - 1] => it[i] = A[i]
  BY <1>5 DEF start
<1>7. it[12] = A[12]
  BY <1>6, InStep
<1>. QED
  BY <1>0, <1>1, <1>2, <1>7

\* A document of which the first i columns are read.
Begun(d, i) ==
  [name \in DOMAIN Legacy |->
     IF \E j \in 1..i : Cols[j][1] = name THEN d[name] ELSE Legacy[name]]

\* A document of which some columns are set gets the next one.
LEMMA BegunGoesOn ==
  ASSUME NEW d
  PROVE  /\ Begun(d, 0) = Legacy
         /\ Stored(d) => Begun(d, 12) = d
         /\ \A i \in 1..12 :
              [Begun(d, i - 1) EXCEPT ![Cols[i][1]] = d[Cols[i][1]]] = Begun(d, i)
<1>1. Begun(d, 0) = Legacy
  BY TwelveColumns DEF Begun
<1>2. ASSUME Stored(d) PROVE Begun(d, 12) = d
  <2>1. \A name \in DOMAIN Legacy : \E j \in 1..12 : Cols[j][1] = name
    BY TwelveColumns
  <2>2. Begun(d, 12) = [name \in DOMAIN Legacy |-> d[name]]
    BY <2>1 DEF Begun
  <2>. QED
    BY <1>2, <2>2 DEF Stored
<1>3. ASSUME NEW i \in 1..12
      PROVE  [Begun(d, i - 1) EXCEPT ![Cols[i][1]] = d[Cols[i][1]]] = Begun(d, i)
  <2>. DEFINE N == DOMAIN Legacy
              name == Cols[i][1]
              L == Legacy
              C == Cols
  <2>1. name \in N
    BY TwelveColumns
  <2>. HIDE DEF N, L, C
  <2>2. \A m : (\E j \in 1..i : C[j][1] = m) <=> (\E j \in 1..(i - 1) : C[j][1] = m) \/ m = C[i][1]
    <3>1. \A j \in 1..i : j = i \/ j \in 1..(i - 1)
      OBVIOUS
    <3>2. \A j \in 1..(i - 1) : j \in 1..i
      OBVIOUS
    <3>. QED
      BY <3>1, <3>2
  <2>3. [[m \in N |-> IF \E j \in 1..(i - 1) : C[j][1] = m THEN d[m] ELSE L[m]]
           EXCEPT ![C[i][1]] = d[C[i][1]]]
          = [m \in N |-> IF \E j \in 1..i : C[j][1] = m THEN d[m] ELSE L[m]]
    BY <2>1, <2>2 DEF C
  <2>. QED
    BY <2>3 DEF N, L, C, Begun
<1>. QED
  BY <1>1, <1>2, <1>3

\* The columns of a document as they are put.
Fields(d) == [i \in 1..12 |-> Put(Cols[i][2], d[Cols[i][1]])]

\* The fields of a document are what is written of it.
LEMMA FieldsType ==
  ASSUME NEW d, Stored(d)
  PROVE  /\ Fields(d) \in [1..12 -> Seq(Nat)]
         /\ EncodeDoc(d, Cols) = FlattenSeq(Fields(d))
<1>1. \A i \in 1..12 : Put(Cols[i][2], d[Cols[i][1]]) \in Seq(Nat)
  BY FieldBack DEF Stored, Back
<1>2. DOMAIN Cols = 1..12
  BY TwelveColumns
<1>. QED
  BY <1>1, <1>2 DEF Fields, EncodeDoc

\* A column that can be read adds itself.
LEMMA NextColumn ==
  ASSUME NEW d, NEW i \in 1..12, NEW in, NEW rest
  PROVE  Setting(At(in, Begun(d, i - 1)), At(rest, d[Cols[i][1]]), Cols[i][1])
           = At(rest, Begun(d, i))
<1>. DEFINE b == Begun(d, i - 1)
            v == d[Cols[i][1]]
<1>1. [b EXCEPT ![Cols[i][1]] = v] = Begun(d, i)
  BY BegunGoesOn
<1>. HIDE DEF b, v
<1>2. /\ At(in, b).ok = TRUE /\ At(in, b).val = b
      /\ At(rest, v).ok = TRUE /\ At(rest, v).val = v
  BY DEF At
<1>3. [At(rest, v) EXCEPT !.val = [b EXCEPT ![Cols[i][1]] = v]]
        = At(rest, [b EXCEPT ![Cols[i][1]] = v])
  BY Reval
<1>4. Setting(At(in, b), At(rest, v), Cols[i][1]) = At(rest, Begun(d, i))
  BY <1>1, <1>2, <1>3 DEF Setting
<1>. QED
  BY <1>4 DEF b, v

\* A stored document is read back, and the rest left.
LEMMA DocBack ==
  ASSUME NEW d, Stored(d), NEW w \in Seq(Nat), NEW x
  PROVE  ReadDoc(At(EncodeDoc(d, Cols) \o w, x)) = At(w, d)
<1>. DEFINE parts == Fields(d)
            r == At(FlattenSeq(parts) \o w, x)
<1>1. PICK R : Remaining(12, Nat, parts, w, R)
  BY FieldsType, Unrolled
<1>. DEFINE A == [i \in 0..12 |-> At(R[i], Begun(d, i))]
<1>2. A[0] = [r EXCEPT !.val = Legacy]
  <2>1. R[0] = FlattenSeq(parts) \o w
    BY <1>1 DEF Remaining
  <2>2. A[0] = At(R[0], Legacy)
    BY BegunGoesOn
  <2>3. [r EXCEPT !.val = Legacy] = At(FlattenSeq(parts) \o w, Legacy)
    BY Reval
  <2>. HIDE DEF A, r
  <2>. QED
    BY <2>1, <2>2, <2>3
<1>3. ASSUME NEW i \in 1..12
      PROVE  A[i] = Setting(A[i - 1], Read(Cols[i][2], A[i - 1]), Cols[i][1])
  <2>1. R[i - 1] = Put(Cols[i][2], d[Cols[i][1]]) \o R[i] /\ R[i] \in Seq(Nat)
    <3>1. parts[i] = Put(Cols[i][2], d[Cols[i][1]])
      BY DEF Fields
    <3>. HIDE DEF parts
    <3>2. R[i - 1] = parts[i] \o R[i]
      BY <1>1 DEF Remaining
    <3>3. R \in [0..12 -> Seq(Nat)] /\ i \in 0..12
      BY <1>1 DEF Remaining
    <3>. QED
      BY <3>1, <3>2, <3>3
  <2>2. A[i - 1] = At(R[i - 1], Begun(d, i - 1)) /\ A[i] = At(R[i], Begun(d, i))
    OBVIOUS
  <2>. HIDE DEF A
  <2>3. Read(Cols[i][2], A[i - 1]) = At(R[i], d[Cols[i][1]])
    <3>1. Back(Cols[i][2], d[Cols[i][1]])
      BY FieldBack DEF Stored
    <3>. QED
      BY <2>1, <2>2, <3>1 DEF Back
  <2>. QED
    BY <2>2, <2>3, NextColumn
<1>4. A = [i \in 0..12 |-> A[i]] /\ A[12] = At(R[12], Begun(d, 12))
  OBVIOUS
<1>. HIDE DEF A, r
<1>5. ReadDoc(r) = A[12]
  BY <1>2, <1>3, <1>4, DocReads
<1>6. R[12] = w /\ Begun(d, 12) = d
  BY <1>1, BegunGoesOn DEF Remaining
<1>. QED
  BY <1>4, <1>5, <1>6, FieldsType DEF r

(***************************************************************************)
(* What lost its end.                                                      *)
(***************************************************************************)

\* Nothing can be read where nothing is left.
LEMMA NothingLeft ==
  ASSUME NEW x
  PROVE  /\ ReadInt(At(<<>>, x)) = Err
         /\ ReadBlob(At(<<>>, x)) = Err
         /\ \A type \in {"int", "flag", "blob", "opt", "list"} : Read(type, At(<<>>, x)) = Err
<1>. DEFINE r == At(<<>>, x)
<1>1. ReadInt(r) = Err
  BY DEF ReadInt, At
<1>2. Err.ok = FALSE
  BY DEF Err
<1>. HIDE DEF r
<1>3. ReadBlob(r) = Err
  BY <1>1, <1>2 DEF ReadBlob, Then
<1>4. ReadFlag(r) = Err
  BY <1>1, <1>2 DEF ReadFlag, Then
<1>5. ReadOpt(r) = Err
  BY <1>1, <1>2 DEF ReadOpt, Then
<1>6. ReadList(r) = Err
  BY <1>1, <1>2 DEF ReadList, Then
<1>7. \A type \in {"int", "flag", "blob", "opt", "list"} : Read(type, r) = Err
  BY <1>1, <1>3, <1>4, <1>5, <1>6 DEF Read
<1>. QED
  BY <1>1, <1>3, <1>7 DEF r

\* A string that was cut is refused.
LEMMA BlobShort ==
  ASSUME NEW b \in Seq(Nat), NEW q, Cut(q, PutBlob(b)), NEW x
  PROVE  ReadBlob(At(q, x)) = Err
<1>. DEFINE k == Len(b)
<1>1. k \in Nat
  BY LenProperties
<1>2. q = <<>> \/ \E p \in Seq(Nat) : q = <<k>> \o p /\ Cut(p, b)
  BY <1>1, CutOne DEF PutBlob
<1>3. ASSUME NEW p \in Seq(Nat), q = <<k>> \o p, Cut(p, b) PROVE ReadBlob(At(q, x)) = Err
  <2>1. k > Len(p)
    BY <1>3, CutLen
  <2>. HIDE DEF k
  <2>2. ReadInt(At(q, x)) = At(p, k)
    BY <1>1, <1>3, IntBack
  <2>. DEFINE r == At(q, x)
  <2>. HIDE DEF r
  <2>3. ReadInt(r).ok = TRUE /\ ReadInt(r).in = p /\ ReadInt(r).val = k
    BY <2>2 DEF At, r
  <2>4. ReadBlob(r) = Err
    BY <2>1, <2>3 DEF ReadBlob, Then
  <2>. QED
    BY <2>4 DEF r
<1>. QED
  BY <1>2, <1>3, NothingLeft

\* Strings of which the end was cut are refused.
LEMMA BlobsShort ==
  ASSUME NEW n \in Nat, NEW v \in [1..n -> Seq(Nat)], NEW q, Cut(q, Blobs(n, v)), NEW x
  PROVE  ReadMany(At(q, x), n, ReadBlob) = Err
<1>. DEFINE parts == [i \in 1..n |-> PutBlob(v[i])]
<1>1. PICK k \in 1..n : \E Q : CutAt(parts, q, k, Q)
  <2>1. parts \in [1..n -> Seq(Nat)]
    BY PutBlobType
  <2>2. Cut(q, FlattenSeq(parts))
    BY DEF Blobs
  <2>. HIDE DEF parts
  <2>. QED
    BY <2>1, <2>2, CutEarly
<1>2. PICK Q : CutAt(parts, q, k, Q)
  BY <1>1
<1>3. \A i \in 1..n : parts[i] = PutBlob(v[i]) /\ v[i] \in Seq(Nat)
  OBVIOUS
<1>. DEFINE A == Stopping(n, k, Q, v)
<1>4. Stopped(n, k, Q, v, A)
  BY StoppingStops
<1>. HIDE DEF A, parts
<1>5. A[0] = At(q, <<>>) /\ A = [i \in 0..n |-> A[i]] /\ A[n] = Err
  BY <1>2, <1>4 DEF CutAt, Stopped
<1>6. ASSUME NEW i \in 1..n PROVE A[i] = Adding(A[i - 1], ReadBlob(A[i - 1]))
  <2>1. CASE i \in 1..(k - 1)
    <3>1. Q[i - 1] = PutBlob(v[i]) \o Q[i] /\ Q \in [0..(k - 1) -> Seq(Nat)]
      BY <1>2, <1>3, <2>1 DEF CutAt
    <3>2. Q[i] \in Seq(Nat)
      BY <2>1, <3>1
    <3>3. A[i - 1] = At(Q[i - 1], First(v, i - 1)) /\ Adding(A[i - 1], At(Q[i], v[i])) = A[i]
      BY <1>4, <2>1 DEF Stopped
    <3>. QED
      BY <1>3, <3>1, <3>2, <3>3, BlobBack
  <2>2. CASE i = k
    <3>1. Cut(Q[k - 1], PutBlob(v[k])) /\ v[k] \in Seq(Nat)
      BY <1>2, <1>3 DEF CutAt
    <3>2. A[k - 1] = At(Q[k - 1], First(v, k - 1)) /\ Adding(A[k - 1], Err) = A[k]
      BY <1>4 DEF Stopped
    <3>3. ReadBlob(A[k - 1]) = Err
      BY <3>1, <3>2, BlobShort
    <3>. QED
      BY <2>2, <3>2, <3>3
  <2>3. CASE i \in (k + 1)..n
    BY <1>4, <2>3 DEF Stopped
  <2>4. i \in 1..(k - 1) \/ i = k \/ i \in (k + 1)..n
    OBVIOUS
  <2>. QED
    BY <2>1, <2>2, <2>3, <2>4
<1>. QED
  BY <1>5, <1>6, BlobReads

\* A field that lost its end cannot be read.
LEMMA FieldShort ==
  ASSUME NEW type, NEW v, Fits(type, v), NEW q, Cut(q, Put(type, v)), NEW x
  PROVE  Read(type, At(q, x)) = Err
<1>0. type \in {"int", "flag", "blob", "opt", "list"}
  BY DEF Fits
<1>1. ASSUME NEW k \in Nat, Put(type, v) = <<k>> PROVE q = <<>>
  <2>. DEFINE e == <<>>
              c == <<k>>
  <2>1. c \in Seq(Nat) /\ e \in Seq(Nat)
    BY <1>1
  <2>. HIDE DEF c
  <2>2. c \o e = c
    BY <2>1, ConcatEmptySeq
  <2>3. Cut(q, <<k>> \o <<>>)
    BY <1>1, <2>2 DEF c
  <2>. HIDE DEF e
  <2>4. q = <<>> \/ \E p \in Seq(Nat) : q = <<k>> \o p /\ Cut(p, e)
    BY <1>1, <2>1, <2>3, CutOne DEF e
  <2>. QED
    BY <2>4, CutNone DEF e
<1>2. CASE q = <<>>
  BY <1>0, <1>2, NothingLeft
<1>3. CASE q # <<>>
  <2>1. CASE type = "int" /\ v \in Nat
    <3>1. Put(type, v) = <<v>>
      BY <2>1 DEF Put
    <3>. QED
      BY <1>1, <1>3, <2>1, <3>1
  <2>2. CASE type = "flag" /\ v \in BOOLEAN
    <3>1. Put(type, v) = <<IF v THEN 1 ELSE 0>>
      BY <2>2 DEF Put
    <3>. QED
      BY <1>1, <1>3, <2>2, <3>1
  <2>3. CASE type = "blob" /\ v \in Seq(Nat)
    <3>1. Put(type, v) = PutBlob(v) /\ Read(type, At(q, x)) = ReadBlob(At(q, x))
      BY <2>3 DEF Put, Read
    <3>. QED
      BY <2>3, <3>1, BlobShort
  <2>4. CASE type = "opt" /\ v = <<>>
    <3>1. Put(type, v) = <<0>>
      BY <2>4 DEF Put
    <3>. QED
      BY <1>1, <1>3, <3>1
  <2>5. ASSUME NEW b \in Seq(Nat), type = "opt", v = <<b>> PROVE Read(type, At(q, x)) = Err
    <3>. DEFINE blob == PutBlob(b)
                r == At(q, x)
                n == ReadInt(r)
    <3>1. Put(type, v) = <<1>> \o blob
      <4>1. v # <<>> /\ v[1] = b
        BY <2>5
      <4>. QED
        BY <2>5, <4>1 DEF Put
    <3>2. blob \in Seq(Nat)
      BY PutBlobType
    <3>. HIDE DEF blob
    <3>3. q = <<>> \/ \E p \in Seq(Nat) : q = <<1>> \o p /\ Cut(p, blob)
      BY <3>1, <3>2, CutOne
    <3>4. PICK p \in Seq(Nat) : q = <<1>> \o p /\ Cut(p, blob)
      BY <1>3, <3>3
    <3>5. n = At(p, 1)
      BY <3>4, IntBack
    <3>. HIDE DEF r
    <3>6. n.ok = TRUE /\ n.val = 1
      BY <3>5 DEF At
    <3>7. ReadBlob(n) = Err
      <4>. HIDE DEF n
      <4>. QED
        BY <3>4, <3>5, BlobShort DEF blob
    <3>8. Err.ok = FALSE
      BY DEF Err
    <3>9. ReadOpt(r) = Err
      BY <3>6, <3>7, <3>8 DEF ReadOpt, Then
    <3>10. Read(type, r) = ReadOpt(r)
      BY <2>5 DEF Read
    <3>. QED
      BY <3>9, <3>10 DEF r
  <2>6. CASE type = "list" /\ v \in Seq(Seq(Nat))
    <3>. DEFINE k == Len(v)
                blobs == Blobs(k, v)
                r == At(q, x)
                n == ReadInt(r)
    <3>1. k \in Nat /\ v \in [1..k -> Seq(Nat)] /\ DOMAIN v = 1..k
      BY <2>6, LenProperties
    <3>2. Put(type, v) = <<k>> \o blobs
      BY <2>6, <3>1 DEF Put, Blobs
    <3>3. blobs \in Seq(Nat)
      BY <3>1, BlobsType
    <3>. HIDE DEF k
    <3>4. \A p \in Seq(Nat) : Cut(p, blobs) => ReadMany(At(p, k), k, ReadBlob) = Err
      BY <3>1, BlobsShort
    <3>. HIDE DEF blobs
    <3>5. q = <<>> \/ \E p \in Seq(Nat) : q = <<k>> \o p /\ Cut(p, blobs)
      BY <3>1, <3>2, <3>3, CutOne
    <3>6. PICK p \in Seq(Nat) : q = <<k>> \o p /\ Cut(p, blobs)
      BY <1>3, <3>5
    <3>7. n = At(p, k)
      BY <3>1, <3>6, IntBack
    <3>. HIDE DEF r
    <3>8. n.ok = TRUE /\ n.val = k
      BY <3>7 DEF At
    <3>9. ReadList(r) = ReadMany(n, n.val, ReadBlob)
      BY <3>8 DEF ReadList, Then
    <3>10. Read(type, r) = ReadList(r)
      BY <2>6 DEF Read
    <3>. HIDE DEF n
    <3>. QED
      BY <3>4, <3>6, <3>7, <3>8, <3>9, <3>10 DEF r
  <2>. QED
    BY <2>1, <2>2, <2>3, <2>4, <2>5, <2>6 DEF Fits
<1>. QED
  BY <1>2, <1>3

\* A stored document that was cut is refused.
LEMMA DocShort ==
  ASSUME NEW d, Stored(d), NEW q, Cut(q, EncodeDoc(d, Cols)), NEW x
  PROVE  ReadDoc(At(q, x)) = Err
<1>. DEFINE parts == Fields(d)
            r == At(q, x)
<1>1. PICK k \in 1..12 : \E Q : CutAt(parts, q, k, Q)
  <2>1. parts \in [1..12 -> Seq(Nat)] /\ Cut(q, FlattenSeq(parts))
    BY FieldsType
  <2>. HIDE DEF parts
  <2>. QED
    BY <2>1, CutEarly
<1>2. PICK Q : CutAt(parts, q, k, Q)
  BY <1>1
<1>3. \A i \in 1..12 : parts[i] = Put(Cols[i][2], d[Cols[i][1]])
  BY DEF Fields
<1>. DEFINE A == [i \in 0..12 |-> IF i < k THEN At(Q[i], Begun(d, i)) ELSE Err]
<1>4. A = [i \in 0..12 |-> A[i]]
  OBVIOUS
<1>5. /\ \A i \in 0..(k - 1) : A[i] = At(Q[i], Begun(d, i))
      /\ \A i \in k..12 : A[i] = Err
  <2>1. \A i \in 0..(k - 1) : i \in 0..12 /\ i < k
    OBVIOUS
  <2>2. \A i \in k..12 : i \in 0..12 /\ ~(i < k)
    OBVIOUS
  <2>. QED
    BY <2>1, <2>2
<1>. HIDE DEF A, parts
<1>6. A[0] = [r EXCEPT !.val = Legacy]
  <2>1. A[0] = At(q, Legacy)
    <3>1. 0 \in 0..(k - 1) /\ Q[0] = q
      BY <1>2 DEF CutAt
    <3>. QED
      BY <1>5, <3>1, BegunGoesOn
  <2>. QED
    BY <2>1, Reval
<1>7. Err.ok = FALSE
  BY DEF Err
<1>8. ASSUME NEW i \in 1..12
      PROVE  A[i] = Setting(A[i - 1], Read(Cols[i][2], A[i - 1]), Cols[i][1])
  <2>0. Fits(Cols[i][2], d[Cols[i][1]])
    BY DEF Stored
  <2>1. CASE i \in 1..(k - 1)
    <3>1. Q[i - 1] = Put(Cols[i][2], d[Cols[i][1]]) \o Q[i]
      BY <1>2, <1>3, <2>1 DEF CutAt
    <3>2. Q \in [0..(k - 1) -> Seq(Nat)] /\ i \in 0..(k - 1) /\ i - 1 \in 0..(k - 1)
      BY <1>2, <2>1 DEF CutAt
    <3>3. A[i - 1] = At(Q[i - 1], Begun(d, i - 1)) /\ A[i] = At(Q[i], Begun(d, i))
      BY <1>5, <3>2
    <3>4. Read(Cols[i][2], A[i - 1]) = At(Q[i], d[Cols[i][1]])
      <4>1. Back(Cols[i][2], d[Cols[i][1]])
        BY <2>0, FieldBack
      <4>. QED
        BY <3>1, <3>2, <3>3, <4>1 DEF Back
    <3>. QED
      BY <3>3, <3>4, NextColumn
  <2>2. CASE i = k
    <3>1. Cut(Q[k - 1], Put(Cols[k][2], d[Cols[k][1]]))
      BY <1>2, <1>3 DEF CutAt
    <3>2. k - 1 \in 0..(k - 1) /\ k \in k..12
      OBVIOUS
    <3>3. A[k - 1] = At(Q[k - 1], Begun(d, k - 1)) /\ A[k] = Err
      BY <1>5, <3>2
    <3>4. Read(Cols[k][2], A[k - 1]) = Err
      BY <2>0, <2>2, <3>1, <3>3, FieldShort
    <3>. QED
      BY <1>7, <2>2, <3>3, <3>4 DEF Setting
  <2>3. CASE i \in (k + 1)..12
    <3>1. i - 1 \in k..12 /\ i \in k..12
      BY <2>3
    <3>2. A[i - 1] = Err /\ A[i] = Err
      BY <1>5, <3>1
    <3>. QED
      BY <1>7, <3>2 DEF Setting
  <2>4. i \in 1..(k - 1) \/ i = k \/ i \in (k + 1)..12
    OBVIOUS
  <2>. QED
    BY <2>1, <2>2, <2>3, <2>4
<1>. HIDE DEF r
<1>9. ReadDoc(r) = A[12]
  BY <1>4, <1>6, <1>8, DocReads
<1>10. 12 \in k..12
  OBVIOUS
<1>. QED
  BY <1>5, <1>9, <1>10 DEF r

(***************************************************************************)
(* The metadata section.                                                   *)
(***************************************************************************)

\* The documents of a section, without their number.
AllDocs(n, ds) == FlattenSeq([i \in 1..n |-> EncodeDoc(ds[i], Cols)])

\* What decode does behind the number of documents.
ReadDocs(r, n) == ReadMany(r, n, ReadDoc)

\* Stored documents are read one after the other.
LEMMA DocsReads ==
  ASSUME NEW n \in Nat, NEW in, NEW x, NEW A,
         A = [i \in 0..n |-> A[i]],
         A[0] = At(in, <<>>),
         \A i \in 1..n : A[i] = Adding(A[i - 1], ReadDoc(A[i - 1]))
  PROVE  ReadDocs(At(in, x), n) = A[n]
<1>. DEFINE r == At(in, x)
            start == [r EXCEPT !.val = <<>>]
            Body(F) == [i \in 0..n |->
                          IF i = 0 THEN start ELSE Adding(F[i - 1], ReadDoc(F[i - 1]))]
            it == CHOOSE F : F = Body(F)
<1>1. ReadDocs(r, n) = it[n]
  BY DEF ReadDocs, ReadMany, Then, Adding
<1>2. A[0] = start
  BY Reval
<1>. HIDE DEF start
<1>3. A = Body(A)
  <2>1. ASSUME NEW i \in 0..n
        PROVE  A[i] = IF i = 0 THEN start ELSE Adding(A[i - 1], ReadDoc(A[i - 1]))
    <3>1. CASE i = 0
      BY <1>2, <3>1, Zenon
    <3>2. CASE i # 0
      <4>1. i \in 1..n
        BY <3>2
      <4>. QED
        BY <3>2, <4>1, Zenon
    <3>. QED
      BY <3>1, <3>2
  <2>. QED
    BY <2>1
<1>4. it = Body(it)
  <2>. HIDE DEF Body
  <2>1. \E F : F = Body(F)
    BY <1>3
  <2>. QED
    BY <2>1, Zenon
<1>. HIDE DEF it
<1>5. \A i \in 0..n : it[i] = IF i = 0 THEN start ELSE Adding(it[i - 1], ReadDoc(it[i - 1]))
  BY <1>4
<1>6. it[0] = A[0]
  BY <1>2, <1>5
<1>7. ASSUME NEW i \in 1..n, it[i - 1] = A[i - 1] PROVE it[i] = A[i]
  <2>1. i \in 0..n /\ i # 0
    OBVIOUS
  <2>2. it[i] = Adding(it[i - 1], ReadDoc(it[i - 1]))
    BY <1>5, <2>1
  <2>. QED
    BY <1>7, <2>2
<1>8. it[n] = A[n]
  BY <1>6, <1>7, InStep
<1>. QED
  BY <1>1, <1>8

\* A stored document is written as numbers.
LEMMA EncodeDocType ==
  ASSUME NEW d, Stored(d)
  PROVE  EncodeDoc(d, Cols) \in Seq(Nat)
<1>. DEFINE parts == Fields(d)
<1>1. parts \in [1..12 -> Seq(Nat)] /\ EncodeDoc(d, Cols) = FlattenSeq(parts)
  BY FieldsType
<1>. HIDE DEF parts
<1>2. PICK P : Joined(12, Nat, parts, P) /\ FlattenSeq(parts) = P[12]
  BY <1>1, Flattened
<1>. QED
  BY <1>1, <1>2 DEF Joined

\* Stored documents, one behind the other, are read back.
LEMMA DocsBack ==
  ASSUME NEW n \in Nat, NEW ds, ds = First(ds, n), \A i \in 1..n : Stored(ds[i]),
         NEW w \in Seq(Nat), NEW x
  PROVE  /\ ReadDocs(At(AllDocs(n, ds) \o w, x), n) = At(w, ds)
         /\ AllDocs(n, ds) \in Seq(Nat)
<1>. DEFINE parts == [i \in 1..n |-> EncodeDoc(ds[i], Cols)]
<1>0. parts \in [1..n -> Seq(Nat)]
  BY EncodeDocType
<1>1. PICK R : Remaining(n, Nat, parts, w, R)
  <2>. HIDE DEF parts
  <2>. QED
    BY <1>0, Unrolled
<1>. DEFINE A == Reading(n, R, ds)
<1>2. Counted(n, R, ds, A)
  BY ReadingAdds
<1>. HIDE DEF A
<1>3. A[0] = At(AllDocs(n, ds) \o w, <<>>)
  <2>1. R[0] = AllDocs(n, ds) \o w
    BY <1>1 DEF Remaining, AllDocs
  <2>. QED
    BY <1>2, <2>1 DEF Counted
<1>4. ASSUME NEW i \in 1..n PROVE A[i] = Adding(A[i - 1], ReadDoc(A[i - 1]))
  <2>1. R[i - 1] = EncodeDoc(ds[i], Cols) \o R[i] /\ R[i] \in Seq(Nat)
    <3>1. parts[i] = EncodeDoc(ds[i], Cols) /\ i \in 0..n
      OBVIOUS
    <3>. HIDE DEF parts
    <3>2. R[i - 1] = parts[i] \o R[i] /\ R \in [0..n -> Seq(Nat)]
      BY <1>1 DEF Remaining
    <3>. QED
      BY <3>1, <3>2
  <2>2. A[i - 1] = At(R[i - 1], First(ds, i - 1)) /\ Adding(A[i - 1], At(R[i], ds[i])) = A[i]
    BY <1>2 DEF Counted
  <2>. QED
    BY <2>1, <2>2, DocBack
<1>5. A[n] = At(w, ds)
  BY <1>1, <1>2 DEF Counted, Remaining
<1>6. A = [i \in 0..n |-> A[i]]
  BY <1>2 DEF Counted
<1>7. ReadDocs(At(AllDocs(n, ds) \o w, x), n) = A[n]
  BY <1>3, <1>4, <1>6, DocsReads
<1>8. AllDocs(n, ds) \in Seq(Nat)
  <2>1. AllDocs(n, ds) = FlattenSeq(parts)
    BY DEF AllDocs
  <2>. HIDE DEF parts
  <2>2. PICK P : Joined(n, Nat, parts, P) /\ FlattenSeq(parts) = P[n]
    BY <1>0, Flattened
  <2>3. n \in 0..n
    OBVIOUS
  <2>. QED
    BY <2>1, <2>2, <2>3 DEF Joined
<1>. QED
  BY <1>5, <1>7, <1>8

\* Stored documents of which the end was cut are refused.
LEMMA DocsShort ==
  ASSUME NEW n \in Nat, NEW ds, \A i \in 1..n : Stored(ds[i]),
         NEW q, Cut(q, AllDocs(n, ds)), NEW x
  PROVE  ReadDocs(At(q, x), n) = Err
<1>. DEFINE parts == [i \in 1..n |-> EncodeDoc(ds[i], Cols)]
<1>1. PICK k \in 1..n : \E Q : CutAt(parts, q, k, Q)
  <2>1. parts \in [1..n -> Seq(Nat)]
    BY EncodeDocType
  <2>2. Cut(q, FlattenSeq(parts))
    BY DEF AllDocs
  <2>. HIDE DEF parts
  <2>. QED
    BY <2>1, <2>2, CutEarly
<1>2. PICK Q : CutAt(parts, q, k, Q)
  BY <1>1
<1>3. \A i \in 1..n : parts[i] = EncodeDoc(ds[i], Cols)
  OBVIOUS
<1>. DEFINE A == Stopping(n, k, Q, ds)
<1>4. Stopped(n, k, Q, ds, A)
  BY StoppingStops
<1>. HIDE DEF A, parts
<1>5. A[0] = At(q, <<>>) /\ A = [i \in 0..n |-> A[i]] /\ A[n] = Err
  BY <1>2, <1>4 DEF CutAt, Stopped
<1>6. ASSUME NEW i \in 1..n PROVE A[i] = Adding(A[i - 1], ReadDoc(A[i - 1]))
  <2>1. CASE i \in 1..(k - 1)
    <3>1. Q[i - 1] = EncodeDoc(ds[i], Cols) \o Q[i] /\ Q \in [0..(k - 1) -> Seq(Nat)]
      BY <1>2, <1>3, <2>1 DEF CutAt
    <3>2. Q[i] \in Seq(Nat)
      BY <2>1, <3>1
    <3>3. A[i - 1] = At(Q[i - 1], First(ds, i - 1)) /\ Adding(A[i - 1], At(Q[i], ds[i])) = A[i]
      BY <1>4, <2>1 DEF Stopped
    <3>. QED
      BY <3>1, <3>2, <3>3, DocBack
  <2>2. CASE i = k
    <3>1. Cut(Q[k - 1], EncodeDoc(ds[k], Cols)) /\ Stored(ds[k])
      BY <1>2, <1>3 DEF CutAt
    <3>2. A[k - 1] = At(Q[k - 1], First(ds, k - 1)) /\ Adding(A[k - 1], Err) = A[k]
      BY <1>4 DEF Stopped
    <3>3. ReadDoc(A[k - 1]) = Err
      BY <3>1, <3>2, DocShort
    <3>. QED
      BY <2>2, <3>2, <3>3
  <2>3. CASE i \in (k + 1)..n
    BY <1>4, <2>3 DEF Stopped
  <2>4. i \in 1..(k - 1) \/ i = k \/ i \in (k + 1)..n
    OBVIOUS
  <2>. QED
    BY <2>1, <2>2, <2>3, <2>4
<1>. QED
  BY <1>5, <1>6, DocsReads

\* What decode makes of a section, before it looks whether all is read.
ReadMeta(section) ==
  IF ReadInt(Reader(section)).ok
    THEN ReadDocs(ReadInt(Reader(section)), ReadInt(Reader(section)).val) ELSE Err

\* A metadata section is a count and so many documents, and nothing behind.
LEMMA MetaRead ==
  ASSUME NEW section
  PROVE  DecodeMeta(section, TRUE) = Whole(ReadMeta(section))
  BY DEF DecodeMeta, ReadMeta, Then, ReadDocs, ReadDoc, ReadMany

\* What leaves something behind is refused.
LEMMA WholeOrNot ==
  ASSUME NEW x
  PROVE  /\ Whole(At(<<>>, x)) = At(<<>>, x)
         /\ \A in : in # <<>> => Whole(At(in, x)) = Err
         /\ Whole(Err) = Err
         /\ Err.ok = FALSE
  BY DEF Whole, At, Err, Then

\* The stored documents of an index.
Metas(n, ds) == n \in Nat /\ ds = First(ds, n) /\ \A i \in 1..n : Stored(ds[i])

\* The metadata section of n documents.
LEMMA MetaEncoded ==
  ASSUME NEW n, NEW ds, Metas(n, ds)
  PROVE  /\ EncodeMeta(ds) = <<n>> \o AllDocs(n, ds)
         /\ EncodeMeta(ds) \in Seq(Nat)
         /\ AllDocs(n, ds) \in Seq(Nat)
         /\ Len(ds) = n
<1>1. n \in Nat /\ ds = First(ds, n) /\ \A i \in 1..n : Stored(ds[i])
  BY DEF Metas
<1>2. DOMAIN ds = 1..n /\ Len(ds) = n
  <2>. DEFINE f == First(ds, n)
  <2>1. DOMAIN f = 1..n /\ Len(f) = n
    BY <1>1 DEF First
  <2>. HIDE DEF f
  <2>2. ds = f
    BY <1>1, Zenon DEF f
  <2>. QED
    BY <2>1, <2>2
<1>3. AllDocs(n, ds) \in Seq(Nat)
  BY <1>1, DocsBack, EmptySeq
<1>4. EncodeMeta(ds) = <<n>> \o AllDocs(n, ds)
  BY <1>2 DEF EncodeMeta, AllDocs, Cols
<1>. DEFINE a == AllDocs(n, ds)
<1>. HIDE DEF a
<1>5. <<n>> \o a \in Seq(Nat)
  BY <1>1, <1>3, InFront DEF a
<1>. QED
  BY <1>2, <1>3, <1>4, <1>5 DEF a

\* The metadata section is read back, and only as a whole.
LEMMA MetaBack ==
  ASSUME NEW n, NEW ds, Metas(n, ds), NEW w \in Seq(Nat)
  PROVE  ReadMeta(EncodeMeta(ds) \o w) = At(w, ds)
<1>. DEFINE a == AllDocs(n, ds)
            in == EncodeMeta(ds) \o w
            r == Reader(in)
<1>1. n \in Nat /\ ds = First(ds, n) /\ \A i \in 1..n : Stored(ds[i])
  BY DEF Metas
<1>2. a \in Seq(Nat) /\ in = (<<n>> \o a) \o w
  BY MetaEncoded
<1>3. ReadDocs(At(a \o w, n), n) = At(w, ds)
  BY <1>1, DocsBack
<1>. HIDE DEF a
<1>4. r = At(in, <<>>)
  BY DEF Reader, At
<1>5. ReadInt(At((<<n>> \o a) \o w, <<>>)) = At(a \o w, n)
  BY <1>1, <1>2, CountBack
<1>6. ReadInt(r) = At(a \o w, n)
  <2>. HIDE DEF in, r
  <2>. QED
    BY <1>2, <1>4, <1>5, Zenon
<1>. HIDE DEF in, r
<1>7. ReadInt(r).ok = TRUE /\ ReadInt(r).val = n
  BY <1>6 DEF At
<1>8. ReadMeta(in) = At(w, ds)
  BY <1>3, <1>6, <1>7 DEF ReadMeta, r
<1>. QED
  BY <1>8 DEF in

\* The metadata section of any number of documents decodes to the documents, and
\* is refused with any end of it lost or with anything behind it
\* (encode_meta, decode_meta).
THEOREM MetaFramed ==
  ASSUME NEW n, NEW ds, Metas(n, ds)
  PROVE  /\ DecodeMeta(EncodeMeta(ds), TRUE) = At(<<>>, ds)
         /\ Framed(EncodeMeta(ds))
<1>. DEFINE section == EncodeMeta(ds)
<1>1. section \in Seq(Nat)
  BY MetaEncoded
<1>2. DecodeMeta(section, TRUE) = At(<<>>, ds)
  <2>1. section \o <<>> = section /\ <<>> \in Seq(Nat)
    BY <1>1, ConcatEmptySeq, EmptySeq
  <2>2. ReadMeta(section \o <<>>) = At(<<>>, ds)
    BY <2>1, MetaBack
  <2>3. ReadMeta(section) = At(<<>>, ds)
    BY <2>1, <2>2, Zenon
  <2>. HIDE DEF section
  <2>. QED
    BY <2>3, MetaRead, WholeOrNot
<1>3. ~DecodeMeta(Append(section, 0), TRUE).ok
  <2>. DEFINE w == <<0>>
  <2>1. w \in Seq(Nat) /\ w # <<>>
    OBVIOUS
  <2>2. Append(section, 0) = section \o w
    <3>. HIDE DEF section
    <3>. QED
      BY <1>1, AppendIsConcat
  <2>. HIDE DEF w
  <2>3. ReadMeta(section \o w) = At(w, ds)
    BY <2>1, MetaBack
  <2>. HIDE DEF section
  <2>4. ReadMeta(Append(section, 0)) = At(w, ds)
    BY <2>2, <2>3, Zenon
  <2>5. DecodeMeta(Append(section, 0), TRUE) = Err
    BY <2>1, <2>4, MetaRead, WholeOrNot
  <2>. QED
    BY <2>5, WholeOrNot
<1>4. ASSUME NEW k \in 0..(Len(section) - 1)
      PROVE  ~DecodeMeta(SubSeq(section, 1, k), TRUE).ok
  <2>. DEFINE q == SubSeq(section, 1, k)
  <2>1. Cut(q, section)
    <3>. DEFINE y == SubSeq(section, k + 1, Len(section))
                len == Len(section)
    <3>1. len \in Nat
      BY <1>1, LenProperties
    <3>. HIDE DEF section
    <3>2. q \o y = SubSeq(section, 1, len)
      <4>1. 1 \in 1..(len + 1) /\ k \in (1 - 1)..len /\ len \in k..len
        BY <3>1
      <4>. QED
        BY <1>1, <4>1, ConcatAdjacentSubSeq
    <3>3. SubSeq(section, 1, len) = section
      BY <1>1, SubSeqFull
    <3>4. \A i \in 1..len : section[i] \in Nat
      BY <1>1, ElementOfSeq
    <3>5. q \in Seq(Nat)
      <4>1. \A i \in 1..k : section[i] \in Nat
        BY <3>1, <3>4
      <4>2. 1 \in Int /\ k \in Int
        OBVIOUS
      <4>. QED
        BY <4>1, <4>2, SubSeqProperties
    <3>6. y \in Seq(Nat) /\ Len(y) # 0
      <4>1. k + 1 \in Int /\ len \in Int /\ k + 1 <= len /\ \A i \in (k + 1)..len : section[i] \in Nat
        BY <3>1, <3>4
      <4>2. y \in Seq(Nat) /\ Len(y) = IF k + 1 <= len THEN len - (k + 1) + 1 ELSE 0
        BY <4>1, SubSeqProperties
      <4>. HIDE DEF y
      <4>. QED
        BY <4>1, <4>2
    <3>7. y # <<>>
      BY <3>6, EmptySeq
    <3>. HIDE DEF q, y
    <3>8. q \o y = section
      BY <3>2, <3>3, Zenon
    <3>. QED
      BY <3>5, <3>6, <3>7, <3>8, Zenon DEF Cut
  <2>. HIDE DEF q
  <2>. DEFINE a == AllDocs(n, ds)
              r == Reader(q)
  <2>2. n \in Nat /\ a \in Seq(Nat) /\ section = <<n>> \o a
    BY MetaEncoded DEF Metas
  <2>3. \A p \in Seq(Nat) : Cut(p, a) => ReadDocs(At(p, n), n) = Err
    BY DocsShort DEF Metas
  <2>. HIDE DEF a, section
  <2>4. q = <<>> \/ \E p \in Seq(Nat) : q = <<n>> \o p /\ Cut(p, a)
    BY <2>1, <2>2, CutOne
  <2>5. r = At(q, <<>>)
    BY DEF Reader, At
  <2>. HIDE DEF r
  <2>6. ReadMeta(q) = Err
    <3>1. CASE q = <<>>
      <4>1. ReadInt(r) = Err
        BY <2>5, <3>1, NothingLeft
      <4>. QED
        BY <4>1, WholeOrNot DEF ReadMeta, r
    <3>2. ASSUME NEW p \in Seq(Nat), q = <<n>> \o p, Cut(p, a) PROVE ReadMeta(q) = Err
      <4>1. ReadInt(r) = At(p, n)
        BY <2>2, <2>5, <3>2, IntBack
      <4>2. ReadInt(r).ok = TRUE /\ ReadInt(r).val = n
        BY <4>1 DEF At
      <4>3. ReadDocs(At(p, n), n) = Err
        BY <2>3, <3>2
      <4>. QED
        BY <4>1, <4>2, <4>3 DEF ReadMeta, r
    <3>. QED
      BY <2>4, <3>1, <3>2
  <2>. QED
    BY <2>6, MetaRead, WholeOrNot DEF q
<1>. QED
  BY <1>2, <1>3, <1>4 DEF Framed

(***************************************************************************)
(* The link section and the BM25 section.                                  *)
(***************************************************************************)

\* n strings of numbers.
Strings(n, v) == n \in Nat /\ v \in [1..n -> Seq(Nat)]

\* The link section is read back.
LEMMA EdgesBack ==
  ASSUME NEW n, NEW v, Strings(n, v)
  PROVE  DecodeEdges(EncodeEdges(v)) = At(<<>>, v)
<1>. DEFINE a == Blobs(n, v)
            in == EncodeEdges(v)
            r == Reader(in)
            e == <<>>
<1>1. n \in Nat /\ v \in [1..n -> Seq(Nat)]
  BY DEF Strings
<1>2. DOMAIN v = 1..n /\ Len(v) = n
  <2>. DEFINE S == Seq(Nat)
  <2>. HIDE DEF S
  <2>1. v \in [1..n -> S]
    BY <1>1 DEF S
  <2>. QED
    BY <1>1, <2>1
<1>3. in = <<n>> \o a
  BY <1>2 DEF EncodeEdges, Blobs
<1>4. a \in Seq(Nat)
  BY <1>1, BlobsType
<1>0. e \in Seq(Nat)
  OBVIOUS
<1>. HIDE DEF e
<1>5. ReadMany(At(a \o e, n), n, ReadBlob) = At(e, v)
  BY <1>0, <1>1, BlobsBack
<1>. HIDE DEF a
<1>6. a \o e = a
  BY <1>4, ConcatEmptySeq DEF e
<1>7. ReadInt(At(<<n>> \o a, <<>>)) = At(a, n)
  BY <1>1, <1>4, IntBack
<1>8. r = At(in, <<>>)
  BY DEF Reader, At
<1>. HIDE DEF in, r
<1>9. ReadInt(r) = At(a, n)
  BY <1>3, <1>7, <1>8, Zenon
<1>10. ReadInt(r).ok = TRUE /\ ReadInt(r).val = n
  BY <1>9 DEF At
<1>. DEFINE m == ReadMany(ReadInt(r), ReadInt(r).val, ReadBlob)
<1>11. m = At(e, v)
  BY <1>5, <1>6, <1>9, <1>10
<1>12. DecodeEdges(in) = Whole(m)
  <2>1. DecodeEdges(in) = Whole(IF ReadInt(r).ok THEN m ELSE Err)
    BY DEF DecodeEdges, Then, r
  <2>. HIDE DEF m
  <2>. QED
    BY <1>10, <2>1
<1>. HIDE DEF m
<1>13. DecodeEdges(in) = At(e, v)
  BY <1>11, <1>12, WholeOrNot DEF e
<1>. QED
  BY <1>13 DEF in, e

\* Integers are read one after the other.
LEMMA IntsReads ==
  ASSUME NEW n \in Nat, NEW in, NEW x, NEW A,
         A = [i \in 0..n |-> A[i]],
         A[0] = At(in, <<>>),
         \A i \in 1..n : A[i] = Adding(A[i - 1], ReadInt(A[i - 1]))
  PROVE  ReadMany(At(in, x), n, ReadInt) = A[n]
<1>. DEFINE r == At(in, x)
            start == [r EXCEPT !.val = <<>>]
            Body(F) == [i \in 0..n |->
                          IF i = 0 THEN start ELSE Adding(F[i - 1], ReadInt(F[i - 1]))]
            it == CHOOSE F : F = Body(F)
<1>1. ReadMany(r, n, ReadInt) = it[n]
  BY DEF ReadMany, Then, Adding
<1>2. A[0] = start
  BY Reval
<1>. HIDE DEF start
<1>3. A = Body(A)
  <2>1. ASSUME NEW i \in 0..n
        PROVE  A[i] = IF i = 0 THEN start ELSE Adding(A[i - 1], ReadInt(A[i - 1]))
    <3>1. CASE i = 0
      BY <1>2, <3>1, Zenon
    <3>2. CASE i # 0
      <4>1. i \in 1..n
        BY <3>2
      <4>. QED
        BY <3>2, <4>1, Zenon
    <3>. QED
      BY <3>1, <3>2
  <2>. QED
    BY <2>1
<1>4. it = Body(it)
  <2>. HIDE DEF Body
  <2>1. \E F : F = Body(F)
    BY <1>3
  <2>. QED
    BY <2>1, Zenon
<1>. HIDE DEF it
<1>5. \A i \in 0..n : it[i] = IF i = 0 THEN start ELSE Adding(it[i - 1], ReadInt(it[i - 1]))
  BY <1>4
<1>6. it[0] = A[0]
  BY <1>2, <1>5
<1>7. ASSUME NEW i \in 1..n, it[i - 1] = A[i - 1] PROVE it[i] = A[i]
  <2>1. i \in 0..n /\ i # 0
    OBVIOUS
  <2>2. it[i] = Adding(it[i - 1], ReadInt(it[i - 1]))
    BY <1>5, <2>1
  <2>. QED
    BY <1>7, <2>2
<1>8. it[n] = A[n]
  BY <1>6, <1>7, InStep
<1>. QED
  BY <1>1, <1>8

\* A sequence of integers is read back.
LEMMA IntsBack ==
  ASSUME NEW v \in Seq(Nat), NEW w \in Seq(Nat), NEW x
  PROVE  ReadMany(At(v \o w, x), Len(v), ReadInt) = At(w, v)
<1>. DEFINE n == Len(v)
            parts == [i \in 1..n |-> <<v[i]>>]
<1>1. n \in Nat /\ v \in [1..n -> Nat]
  BY LenProperties
<1>2. FlattenSeq(parts) = v
  BY Singles
<1>. HIDE DEF n
<1>3. parts \in [1..n -> Seq(Nat)]
  BY <1>1
<1>4. \A i \in 1..n : parts[i] = <<v[i]>> /\ v[i] \in Nat
  BY <1>1
<1>. HIDE DEF parts
<1>5. PICK R : Remaining(n, Nat, parts, w, R)
  BY <1>1, <1>3, Unrolled
<1>. DEFINE A == Reading(n, R, v)
<1>6. Counted(n, R, v, A)
  BY <1>1, ReadingAdds
<1>. HIDE DEF A
<1>7. A[0] = At(v \o w, <<>>)
  BY <1>2, <1>5, <1>6 DEF Counted, Remaining
<1>8. ASSUME NEW i \in 1..n PROVE A[i] = Adding(A[i - 1], ReadInt(A[i - 1]))
  <2>1. R[i - 1] = <<v[i]>> \o R[i] /\ R[i] \in Seq(Nat)
    <3>1. i \in 0..n
      BY <1>1
    <3>2. R[i - 1] = parts[i] \o R[i] /\ R \in [0..n -> Seq(Nat)]
      BY <1>5 DEF Remaining
    <3>. QED
      BY <1>4, <3>1, <3>2
  <2>2. A[i - 1] = At(R[i - 1], First(v, i - 1)) /\ Adding(A[i - 1], At(R[i], v[i])) = A[i]
    BY <1>6 DEF Counted
  <2>. QED
    BY <1>4, <2>1, <2>2, IntBack
<1>9. A[n] = At(w, v)
  <2>1. First(v, n) = v
    BY <1>1 DEF First
  <2>. QED
    BY <1>5, <1>6, <2>1 DEF Counted, Remaining
<1>10. A = [i \in 0..n |-> A[i]]
  BY <1>6 DEF Counted
<1>11. ReadMany(At(v \o w, x), n, ReadInt) = A[n]
  BY <1>1, <1>7, <1>8, <1>10, IntsReads
<1>. QED
  BY <1>9, <1>11 DEF n

\* A posting of the dictionary.
WellPosted(p) ==
  /\ p = [term |-> p.term, docs |-> p.docs, tf |-> p.tf]
  /\ p.term \in Nat
  /\ p.docs \in Seq(Nat)
  /\ p.tf \in Seq(Nat)
  /\ Len(p.docs) = Len(p.tf)

\* A posting as it is written.
PutPosting(p) == <<p.term, Len(p.docs)>> \o PutBlob(p.docs) \o p.tf

\* A posting is read back, and the rest left.
LEMMA PostingBack ==
  ASSUME NEW p, WellPosted(p), NEW w \in Seq(Nat), NEW x
  PROVE  /\ ReadPosting(At(PutPosting(p) \o w, x)) = At(w, p)
         /\ PutPosting(p) \in Seq(Nat)
<1>. DEFINE k == Len(p.docs)
            docs == p.docs
            tf == p.tf
            blob == PutBlob(docs)
            head == <<p.term, k>>
            in == PutPosting(p) \o w
            s1 == tf \o w
            s2 == blob \o s1
<1>1. /\ p.term \in Nat /\ docs \in Seq(Nat) /\ tf \in Seq(Nat) /\ k \in Nat
      /\ Len(tf) = k /\ blob \in Seq(Nat)
      /\ p = [term |-> p.term, docs |-> docs, tf |-> tf]
  BY PutBlobType DEF WellPosted
<1>2. head \in Seq(Nat)
  BY <1>1
<1>3. in = ((head \o blob) \o tf) \o w
  BY DEF PutPosting
<1>4. ReadMany(At(tf \o w, docs), Len(tf), ReadInt) = At(w, tf)
  BY <1>1, IntsBack
<1>5. ReadBlob(At(PutBlob(docs) \o (tf \o w), k)) = At(tf \o w, docs)
  <2>1. tf \o w \in Seq(Nat)
    BY <1>1, ConcatProperties
  <2>. DEFINE t == tf \o w
  <2>. HIDE DEF t, docs, k
  <2>2. ReadBlob(At(PutBlob(docs) \o t, k)) = At(t, docs)
    BY <1>1, <2>1, BlobBack DEF t
  <2>. QED
    BY <2>2 DEF t
<1>6. s1 \in Seq(Nat) /\ s2 \in Seq(Nat)
  <2>. HIDE DEF blob, tf
  <2>1. s1 \in Seq(Nat)
    BY <1>1, ConcatProperties
  <2>. HIDE DEF s1
  <2>. QED
    BY <1>1, <2>1, ConcatProperties
<1>. HIDE DEF head, blob, tf, docs, k
<1>7. in = head \o s2 /\ PutPosting(p) \in Seq(Nat)
  <2>. DEFINE h2 == head \o blob
              h3 == h2 \o tf
  <2>1. h2 \in Seq(Nat)
    BY <1>1, <1>2, ConcatProperties
  <2>2. h2 \o s1 = head \o s2
    <3>. DEFINE u == h2 \o s1
    <3>1. Behind(h2, head, blob) /\ Behind(s2, blob, s1) /\ Behind(u, h2, s1)
      BY DEF Behind
    <3>. HIDE DEF s1, s2, h2, u
    <3>2. Behind(u, head, s2)
      BY <1>1, <1>2, <1>6, <3>1, Regrouped
    <3>. QED
      BY <3>2, Zenon DEF Behind, u
  <2>3. h3 \o w = h2 \o s1
    <3>. DEFINE u == h3 \o w
    <3>1. Behind(h3, h2, tf) /\ Behind(s1, tf, w) /\ Behind(u, h3, w)
      BY DEF Behind
    <3>. HIDE DEF s1, h2, h3, u
    <3>2. Behind(u, h2, s1)
      BY <1>1, <2>1, <3>1, Regrouped
    <3>. QED
      BY <3>2, Zenon DEF Behind, u
  <2>. HIDE DEF h2
  <2>4. h3 \in Seq(Nat)
    BY <1>1, <2>1, ConcatProperties
  <2>5. PutPosting(p) = h3
    BY DEF PutPosting, h2, head, blob, tf, docs, k
  <2>6. in = h3 \o w
    BY <2>5
  <2>. HIDE DEF in
  <2>. QED
    BY <2>2, <2>3, <2>4, <2>5, <2>6, Zenon
<1>8. head \o s2 = <<p.term>> \o (<<k>> \o s2)
  <2>. HIDE DEF s2
  <2>. QED
    BY <1>1, <1>6, TwoInFront DEF head
<1>. DEFINE s3 == <<k>> \o s2
            r == At(in, x)
            r1 == ReadInt(r)
            r2 == ReadInt(r1)
            r3 == ReadBlob(r2)
            r4 == ReadMany(r3, k, ReadInt)
<1>9. s3 \in Seq(Nat)
  <2>. HIDE DEF s2
  <2>. QED
    BY <1>1, <1>6, InFront
<1>10. r1 = At(s3, p.term)
  <2>1. in = <<p.term>> \o s3
    BY <1>7, <1>8, Zenon
  <2>. HIDE DEF in, s3
  <2>. QED
    BY <1>1, <1>9, <2>1, IntBack
<1>11. r2 = At(s2, k)
  <2>. HIDE DEF s2, r1
  <2>. QED
    BY <1>1, <1>6, <1>10, IntBack
<1>12. r3 = At(s1, docs)
  <2>1. ReadBlob(At(s2, k)) = At(s1, docs)
    BY <1>5 DEF blob
  <2>. HIDE DEF r2, s1, s2
  <2>. QED
    BY <1>11, <2>1
<1>13. r4 = At(w, tf)
  <2>1. ReadMany(At(s1, docs), k, ReadInt) = At(w, tf)
    BY <1>1, <1>4
  <2>. HIDE DEF r3, s1
  <2>. QED
    BY <1>12, <2>1
<1>14. [At(w, tf) EXCEPT !.val = p] = At(w, p)
  BY Reval
<1>. HIDE DEF r, r1, r2, r3, r4, s1, s2, s3, in
<1>15. /\ r1.ok = TRUE /\ r1.val = p.term /\ r2.ok = TRUE /\ r2.val = k
       /\ r3.ok = TRUE /\ r3.val = docs /\ r4.ok = TRUE /\ r4.val = tf
  BY <1>10, <1>11, <1>12, <1>13 DEF At
<1>16. Len(docs) = k
  BY DEF docs, k
<1>17. ReadPosting(r) =
         IF r1.ok
           THEN IF r2.ok
             THEN IF r3.ok
               THEN IF Len(r3.val) # r2.val THEN Err
                    ELSE IF ReadMany(r3, r2.val, ReadInt).ok
                      THEN [ReadMany(r3, r2.val, ReadInt) EXCEPT !.val =
                              [term |-> r1.val, docs |-> r3.val,
                               tf |-> ReadMany(r3, r2.val, ReadInt).val]]
                      ELSE Err
               ELSE Err
             ELSE Err
           ELSE Err
  BY DEF ReadPosting, Then, r1, r2, r3
<1>18. ReadMany(r3, r2.val, ReadInt) = r4
  BY <1>15 DEF r4
<1>. DEFINE m == ReadMany(r3, r2.val, ReadInt)
            q == [term |-> r1.val, docs |-> r3.val, tf |-> m.val]
<1>19. q = p
  <2>. HIDE DEF m
  <2>1. m.val = tf
    BY <1>15, <1>18 DEF m
  <2>. QED
    BY <1>1, <1>15, <2>1
<1>20. ReadPosting(r) = IF m.ok THEN [m EXCEPT !.val = q] ELSE Err
  BY <1>15, <1>16, <1>17
<1>. HIDE DEF q, m
<1>21. m = At(w, tf) /\ m.ok = TRUE
  BY <1>13, <1>15, <1>18 DEF m
<1>22. ReadPosting(r) = At(w, p)
  BY <1>14, <1>19, <1>20, <1>21
<1>. QED
  BY <1>7, <1>22 DEF r, in

\* Postings are read one after the other.
LEMMA PostingsReads ==
  ASSUME NEW n \in Nat, NEW in, NEW x, NEW A,
         A = [i \in 0..n |-> A[i]],
         A[0] = At(in, <<>>),
         \A i \in 1..n : A[i] = Adding(A[i - 1], ReadPosting(A[i - 1]))
  PROVE  ReadMany(At(in, x), n, ReadPosting) = A[n]
<1>. DEFINE r == At(in, x)
            start == [r EXCEPT !.val = <<>>]
            Body(F) == [i \in 0..n |->
                          IF i = 0 THEN start ELSE Adding(F[i - 1], ReadPosting(F[i - 1]))]
            it == CHOOSE F : F = Body(F)
<1>1. ReadMany(r, n, ReadPosting) = it[n]
  BY DEF ReadMany, Then, Adding
<1>2. A[0] = start
  BY Reval
<1>. HIDE DEF start
<1>3. A = Body(A)
  <2>1. ASSUME NEW i \in 0..n
        PROVE  A[i] = IF i = 0 THEN start ELSE Adding(A[i - 1], ReadPosting(A[i - 1]))
    <3>1. CASE i = 0
      BY <1>2, <3>1, Zenon
    <3>2. CASE i # 0
      <4>1. i \in 1..n
        BY <3>2
      <4>. QED
        BY <3>2, <4>1, Zenon
    <3>. QED
      BY <3>1, <3>2
  <2>. QED
    BY <2>1
<1>4. it = Body(it)
  <2>. HIDE DEF Body
  <2>1. \E F : F = Body(F)
    BY <1>3
  <2>. QED
    BY <2>1, Zenon
<1>. HIDE DEF it
<1>5. \A i \in 0..n : it[i] = IF i = 0 THEN start ELSE Adding(it[i - 1], ReadPosting(it[i - 1]))
  BY <1>4
<1>6. it[0] = A[0]
  BY <1>2, <1>5
<1>7. ASSUME NEW i \in 1..n, it[i - 1] = A[i - 1] PROVE it[i] = A[i]
  <2>1. i \in 0..n /\ i # 0
    OBVIOUS
  <2>2. it[i] = Adding(it[i - 1], ReadPosting(it[i - 1]))
    BY <1>5, <2>1
  <2>. QED
    BY <1>7, <2>2
<1>8. it[n] = A[n]
  BY <1>6, <1>7, InStep
<1>. QED
  BY <1>1, <1>8

\* The postings of a dictionary.
AllPostings(m, ps) == FlattenSeq([i \in 1..m |-> PutPosting(ps[i])])

\* Postings, one behind the other, are read back.
LEMMA PostingsBack ==
  ASSUME NEW n \in Nat, NEW ps, ps = First(ps, n), \A i \in 1..n : WellPosted(ps[i]),
         NEW w \in Seq(Nat), NEW x
  PROVE  /\ ReadMany(At(AllPostings(n, ps) \o w, x), n, ReadPosting) = At(w, ps)
         /\ AllPostings(n, ps) \in Seq(Nat)
<1>. DEFINE parts == [i \in 1..n |-> PutPosting(ps[i])]
<1>0. parts \in [1..n -> Seq(Nat)]
  BY PostingBack
<1>1. PICK R : Remaining(n, Nat, parts, w, R)
  <2>. HIDE DEF parts
  <2>. QED
    BY <1>0, Unrolled
<1>. DEFINE A == Reading(n, R, ps)
<1>2. Counted(n, R, ps, A)
  BY ReadingAdds
<1>. HIDE DEF A
<1>3. A[0] = At(AllPostings(n, ps) \o w, <<>>)
  <2>1. R[0] = AllPostings(n, ps) \o w
    BY <1>1 DEF Remaining, AllPostings
  <2>. QED
    BY <1>2, <2>1 DEF Counted
<1>4. ASSUME NEW i \in 1..n PROVE A[i] = Adding(A[i - 1], ReadPosting(A[i - 1]))
  <2>1. R[i - 1] = PutPosting(ps[i]) \o R[i] /\ R[i] \in Seq(Nat)
    <3>1. parts[i] = PutPosting(ps[i]) /\ i \in 0..n
      OBVIOUS
    <3>. HIDE DEF parts
    <3>2. R[i - 1] = parts[i] \o R[i] /\ R \in [0..n -> Seq(Nat)]
      BY <1>1 DEF Remaining
    <3>. QED
      BY <3>1, <3>2
  <2>2. A[i - 1] = At(R[i - 1], First(ps, i - 1)) /\ Adding(A[i - 1], At(R[i], ps[i])) = A[i]
    BY <1>2 DEF Counted
  <2>. QED
    BY <2>1, <2>2, PostingBack
<1>5. A[n] = At(w, ps)
  BY <1>1, <1>2 DEF Counted, Remaining
<1>6. A = [i \in 0..n |-> A[i]]
  BY <1>2 DEF Counted
<1>7. ReadMany(At(AllPostings(n, ps) \o w, x), n, ReadPosting) = A[n]
  BY <1>3, <1>4, <1>6, PostingsReads
<1>8. AllPostings(n, ps) \in Seq(Nat)
  <2>1. AllPostings(n, ps) = FlattenSeq(parts)
    BY DEF AllPostings
  <2>. HIDE DEF parts
  <2>2. PICK P : Joined(n, Nat, parts, P) /\ FlattenSeq(parts) = P[n]
    BY <1>0, Flattened
  <2>3. n \in 0..n
    OBVIOUS
  <2>. QED
    BY <2>1, <2>2, <2>3 DEF Joined
<1>. QED
  BY <1>5, <1>7, <1>8

\* An inverted index as it is built over n documents, with m terms.
WellBuilt(n, m, b) ==
  /\ n \in Nat /\ m \in Nat
  /\ b = [doc_count |-> n, doc_len |-> b.doc_len, avgdl |-> b.avgdl, terms |-> b.terms]
  /\ b.doc_len \in Seq(Nat) /\ Len(b.doc_len) = n
  /\ \E p \in Nat : b.avgdl = <<p, n>>
  /\ b.terms = First(b.terms, m)
  /\ \A i \in 1..m : WellPosted(b.terms[i])

\* The BM25 section is read back.
LEMMA Bm25Back ==
  ASSUME NEW n, NEW m, NEW b, WellBuilt(n, m, b)
  PROVE  /\ DecodeBm25(EncodeBm25(b)) = At(<<>>, b)
         /\ EncodeBm25(b) # <<>>
<1>. DEFINE lens == b.doc_len
            ps == b.terms
            post == AllPostings(m, ps)
            s2 == lens \o post
            in == EncodeBm25(b)
<1>1. n \in Nat /\ m \in Nat /\ lens \in Seq(Nat) /\ Len(lens) = n /\ Len(ps) = m
  BY DEF WellBuilt, First
<1>2. PICK p \in Nat : b.avgdl = <<p, n>>
  BY DEF WellBuilt
<1>. DEFINE head == <<p, n, n, m>>
            h2 == head \o lens
<1>3. /\ \A x : ReadMany(At(post \o <<>>, x), m, ReadPosting) = At(<<>>, ps)
      /\ post \in Seq(Nat)
  <2>1. ps = First(ps, m) /\ \A i \in 1..m : WellPosted(ps[i])
    BY DEF WellBuilt
  <2>. DEFINE none == <<>>
  <2>2. none \in Seq(Nat)
    OBVIOUS
  <2>. HIDE DEF ps, none
  <2>3. /\ \A x : ReadMany(At(AllPostings(m, ps) \o none, x), m, ReadPosting) = At(none, ps)
        /\ AllPostings(m, ps) \in Seq(Nat)
    BY <1>1, <2>1, <2>2, PostingsBack
  <2>. QED
    BY <2>3 DEF none
<1>4. head \in Seq(Nat) /\ Len(head) = 4
      /\ head[1] = p /\ head[2] = n /\ head[3] = n /\ head[4] = m
  BY <1>1
<1>5. in = h2 \o post
  <2>1. <<p, n>> \o <<n, m>> = head
    BY <1>1, FourInFront
  <2>2. b.doc_count = n
    BY DEF WellBuilt
  <2>3. DOMAIN ps = 1..m
    BY DEF WellBuilt, First
  <2>4. in = ((b.avgdl \o <<b.doc_count, Len(ps)>>) \o lens)
               \o FlattenSeq([i \in 1..m |-> PutPosting(ps[i])])
    BY <2>3 DEF EncodeBm25, PutPosting
  <2>. QED
    BY <1>1, <1>2, <2>1, <2>2, <2>4 DEF AllPostings
<1>. HIDE DEF lens, ps, post, head, in
<1>6. post \o <<>> = post
  BY <1>3, ConcatEmptySeq
<1>7. s2 \in Seq(Nat) /\ h2 \in Seq(Nat)
  BY <1>1, <1>3, <1>4, ConcatProperties
<1>8. in = head \o s2
  <2>1. Behind(h2, head, lens) /\ Behind(s2, lens, post) /\ Behind(in, h2, post)
    BY <1>5 DEF Behind
  <2>. HIDE DEF h2, s2
  <2>2. Behind(in, head, s2)
    BY <1>1, <1>3, <1>4, <2>1, Regrouped
  <2>. QED
    BY <2>2, Zenon DEF Behind
<1>. HIDE DEF h2
<1>. DEFINE r0 == Reader(in)
            r1 == ReadMany(r0, 4, ReadInt)
            r2 == ReadMany(r1, n, ReadInt)
            r3 == ReadMany(r2, m, ReadPosting)
<1>9. r1 = At(s2, head)
  <2>1. r0 = At(in, <<>>)
    BY DEF Reader, At
  <2>. HIDE DEF s2, r0
  <2>2. ReadMany(At(head \o s2, <<>>), Len(head), ReadInt) = At(s2, head)
    BY <1>4, <1>7, IntsBack
  <2>. QED
    BY <1>4, <1>8, <2>1, <2>2
<1>10. r2 = At(post, lens)
  <2>1. ReadMany(At(lens \o post, head), Len(lens), ReadInt) = At(post, lens)
    BY <1>1, <1>3, IntsBack
  <2>. HIDE DEF r1
  <2>. QED
    BY <1>1, <1>9, <2>1
<1>11. r3 = At(<<>>, ps)
  <2>. HIDE DEF r2
  <2>. QED
    BY <1>3, <1>6, <1>10
<1>. HIDE DEF s2, r0, r1, r2, r3
<1>12. /\ r1.ok = TRUE /\ r1.val = head /\ r2.ok = TRUE /\ r2.val = lens
       /\ r3.ok = TRUE /\ r3.val = ps
  BY <1>9, <1>10, <1>11 DEF At
<1>. DEFINE q == [ avgdl |-> <<r1.val[1], r1.val[2]>>, doc_count |-> r1.val[3],
                   doc_len |-> r2.val, terms |-> r3.val ]
<1>13. DecodeBm25(in) = [r3 EXCEPT !.val = q]
  <2>1. DecodeBm25(in) =
          IF r1.ok
            THEN IF ReadMany(r1, r1.val[3], ReadInt).ok
              THEN IF ReadMany(ReadMany(r1, r1.val[3], ReadInt), r1.val[4], ReadPosting).ok
                THEN [ReadMany(ReadMany(r1, r1.val[3], ReadInt), r1.val[4], ReadPosting)
                        EXCEPT !.val =
                          [ avgdl |-> <<r1.val[1], r1.val[2]>>, doc_count |-> r1.val[3],
                            doc_len |-> ReadMany(r1, r1.val[3], ReadInt).val,
                            terms |-> ReadMany(ReadMany(r1, r1.val[3], ReadInt),
                                               r1.val[4], ReadPosting).val ]]
                ELSE Err
              ELSE Err
            ELSE Err
    BY DEF DecodeBm25, Then, r1, r0
  <2>2. ReadMany(r1, r1.val[3], ReadInt) = r2
    BY <1>4, <1>12 DEF r2
  <2>3. ReadMany(r2, r1.val[4], ReadPosting) = r3
    BY <1>4, <1>12 DEF r3
  <2>. QED
    BY <1>12, <2>1, <2>2, <2>3
<1>14. q = b
  <2>1. q = [doc_count |-> n, doc_len |-> lens, avgdl |-> <<p, n>>, terms |-> ps]
    BY <1>4, <1>12
  <2>2. b = [doc_count |-> n, doc_len |-> lens, avgdl |-> b.avgdl, terms |-> ps]
    BY DEF WellBuilt, lens, ps
  <2>. HIDE DEF q
  <2>. QED
    BY <1>2, <2>1, <2>2
<1>. HIDE DEF q
<1>15. DecodeBm25(in) = At(<<>>, b)
  BY <1>11, <1>13, <1>14, Reval
<1>16. in # <<>>
  <2>1. Len(in) = Len(head) + Len(s2) /\ Len(s2) \in Nat
    <3>1. Len(head \o s2) = Len(head) + Len(s2)
      BY <1>4, <1>7, ConcatProperties
    <3>. QED
      BY <1>7, <1>8, <3>1, LenProperties
  <2>. QED
    BY <1>4, <2>1
<1>. QED
  BY <1>15, <1>16 DEF in

(***************************************************************************)
(* Positions in an order, and how often a sequence holds a value.          *)
(***************************************************************************)

\* A set of numbers in ascending order holds each of them, once.
LEMMA AscendingOnce ==
  ASSUME NEW S \in SUBSET Nat, IsFiniteSet(S)
  PROVE  Enumerates(Ascending(S), S)
<1>. DEFINE Low(x) == {y \in S : y < x}
            below == [x \in S |-> Low(x)]
            n == Cardinality(S)
            s == Ascending(S)
<1>1. Orders(S, below)
  <2>1. ASSUME NEW x \in S, NEW y \in S
        PROVE  \/ x = y
               \/ x \in Low(y) /\ Low(x) \subseteq Low(y)
               \/ y \in Low(x) /\ Low(y) \subseteq Low(x)
    <3>1. \A z \in S : z \in Nat
      OBVIOUS
    <3>2. x < y \/ y < x \/ x = y
      BY <3>1
    <3>3. ASSUME NEW u \in S, NEW v \in S, u < v PROVE u \in Low(v) /\ Low(u) \subseteq Low(v)
      <4>1. u \in Nat /\ v \in Nat
        BY <3>1
      <4>2. ASSUME NEW z \in Low(u) PROVE z \in Low(v)
        <5>1. z \in S /\ z \in Nat /\ z < u
          BY <3>1
        <5>2. z < v
          BY <3>3, <4>1, <5>1
        <5>. QED
          BY <5>1, <5>2
      <4>. QED
        BY <3>3, <4>2
    <3>. HIDE DEF Low
    <3>. QED
      BY <3>2, <3>3
  <2>2. \A x \in S : Low(x) \in SUBSET S /\ x \notin Low(x)
    OBVIOUS
  <2>. HIDE DEF Low
  <2>3. \A x \in S : below[x] = Low(x)
    OBVIOUS
  <2>4. below \in [S -> SUBSET S]
    BY <2>2
  <2>. HIDE DEF below
  <2>. QED
    BY <2>1, <2>2, <2>3, <2>4 DEF Orders
<1>2. /\ n \in Nat
      /\ \A x \in S : Cardinality(below[x]) \in 0..(n - 1)
      /\ \A x, y \in S : Cardinality(below[x]) = Cardinality(below[y]) => x = y
      /\ \A r \in 1..n : \E x \in S : Cardinality(below[x]) = r - 1
  <2>. HIDE DEF below, s, Low
  <2>1. Positioned(S, below)
    BY <1>1, Ranks
  <2>. QED
    BY <2>1 DEF Positioned
<1>3. s = [r \in 1..n |-> CHOOSE x \in S : Cardinality(Low(x)) = r - 1]
  BY DEF Ascending
<1>. HIDE DEF Low
<1>8. \A x \in S : below[x] = Low(x)
  OBVIOUS
<1>. HIDE DEF below, n, s
<1>4. ASSUME NEW r \in 1..n PROVE s[r] \in S /\ Cardinality(below[s[r]]) = r - 1
  <2>1. \E x \in S : Cardinality(Low(x)) = r - 1
    BY <1>2, <1>8
  <2>2. s[r] = CHOOSE x \in S : Cardinality(Low(x)) = r - 1
    BY <1>3
  <2>3. s[r] \in S /\ Cardinality(Low(s[r])) = r - 1
    BY <2>1, <2>2, Zenon
  <2>. QED
    BY <1>8, <2>3
<1>5. ASSUME NEW x \in S PROVE \E r \in 1..n : s[r] = x
  <2>. DEFINE r == Cardinality(below[x]) + 1
  <2>1. r \in 1..n /\ Cardinality(below[x]) = r - 1
    BY <1>2
  <2>2. s[r] \in S /\ Cardinality(below[s[r]]) = Cardinality(below[x])
    BY <1>4, <2>1
  <2>. QED
    BY <1>2, <2>1, <2>2
<1>6. ASSUME NEW q \in 1..n, NEW r \in 1..n, s[q] = s[r] PROVE q = r
  BY <1>4, <1>6
<1>7. s \in [1..n -> S] /\ DOMAIN s = 1..n
  BY <1>3, <1>4
<1>. QED
  BY <1>2, <1>5, <1>6, <1>7 DEF Enumerates, n, s

(***************************************************************************)
(* The inverted index.                                                     *)
(***************************************************************************)

\* The term frequencies of a document, exact below the limit of a frequency.
LEMMA CountsOf ==
  ASSUME NEW s \in Seq(Nat)
  PROVE  /\ LocalCounts(s) = [t \in ToSet(s) |-> IF Often(s, t) < MaxTf THEN Often(s, t) ELSE MaxTf]
         /\ DOMAIN LocalCounts(s) = ToSet(s)
         /\ ToSet(s) \in SUBSET Nat
         /\ IsFiniteSet(ToSet(s))
         /\ \A t \in ToSet(s) : LocalCounts(s)[t] \in Nat
         /\ Len(s) <= MaxTf => \A t \in ToSet(s) : LocalCounts(s)[t] = Often(s, t)
<1>1. LocalCounts(s) = [t \in ToSet(s) |-> IF Often(s, t) < MaxTf THEN Often(s, t) ELSE MaxTf]
  BY DEF LocalCounts, Often, Places
<1>2. IsFiniteSet(ToSet(s))
  <2>1. IsFiniteSet(DOMAIN s)
    BY OftenType
  <2>. DEFINE W == ToSet(s)
  <2>2. s \in [DOMAIN s -> W]
    BY LenProperties DEF ToSet
  <2>3. s \in Surjection(DOMAIN s, W)
    BY <2>2 DEF Surjection, ToSet
  <2>. HIDE DEF W
  <2>. QED
    BY <2>1, <2>3, FS_Surjection DEF W
<1>3. ToSet(s) \in SUBSET Nat
  BY LenProperties DEF ToSet
<1>4. \A t \in ToSet(s) : Often(s, t) \in 0..Len(s)
  BY OftenType
<1>5. MaxTf \in Nat /\ Len(s) \in Nat
  BY RankingAssumption, LenProperties
<1>. QED
  BY <1>1, <1>2, <1>3, <1>4, <1>5

\* The parts of Build, by the documents D and their counts c.
Holding(D, c, t) == {d \in D : t \in DOMAIN c[d]}
Dictionary(D, c) == UNION {DOMAIN c[d] : d \in D}
PostingOf(D, c, t) ==
  [ term |-> t, docs |-> Ascending(Holding(D, c, t)),
    tf |-> [i \in 1..Cardinality(Holding(D, c, t)) |-> c[Ascending(Holding(D, c, t))[i]][t]] ]
Postings(D, c) ==
  [i \in DOMAIN Ascending(Dictionary(D, c)) |->
     PostingOf(D, c, Ascending(Dictionary(D, c))[i])]
Counts(terms) == [d \in DOMAIN terms |-> LocalCounts(terms[d])]
Lengths(terms) == [d \in DOMAIN terms |-> Len(terms[d])]

\* The index that Build makes, in its parts.
LEMMA Built ==
  ASSUME NEW terms
  PROVE  Build(terms) =
           [ doc_count |-> Len(terms), doc_len |-> Lengths(terms),
             avgdl |-> <<SumFunction(Lengths(terms)), Len(terms)>>,
             terms |-> Postings(DOMAIN terms, Counts(terms)) ]
BY DEF Build, Holding, Dictionary, PostingOf, Postings, Counts, Lengths

\* The terms of n documents.
Texts(n, terms) == n \in Nat /\ terms \in [1..n -> Seq(Nat)]

\* The index does not tell the order of a document's terms.
LEMMA SameBuild ==
  ASSUME NEW n, NEW terms, NEW other, Texts(n, terms), Texts(n, other),
         \A d \in 1..n : ToBag(terms[d]) = ToBag(other[d])
  PROVE  Build(terms) = Build(other)
<1>1. /\ n \in Nat /\ DOMAIN terms = 1..n /\ DOMAIN other = 1..n
      /\ Len(terms) = n /\ Len(other) = n
      /\ \A d \in 1..n : terms[d] \in Seq(Nat) /\ other[d] \in Seq(Nat)
  BY AsSequence DEF Texts
<1>2. ASSUME NEW d \in 1..n
      PROVE  LocalCounts(terms[d]) = LocalCounts(other[d]) /\ Len(terms[d]) = Len(other[d])
  <2>. DEFINE s == terms[d]
              u == other[d]
  <2>1. s \in Seq(Nat) /\ u \in Seq(Nat) /\ ToBag(s) = ToBag(u)
    BY <1>1
  <2>. HIDE DEF s, u
  <2>2. \A t \in Nat : Often(s, t) = Often(u, t)
    BY <2>1, BagOften
  <2>3. ToSet(s) = ToSet(u) /\ Len(s) = Len(u)
    BY <2>1, <2>2, BagLength
  <2>4. ToSet(s) \in SUBSET Nat
    BY <2>1, CountsOf
  <2>5. \A t \in ToSet(s) : Often(s, t) = Often(u, t)
    BY <2>2, <2>4
  <2>6. LocalCounts(s) = LocalCounts(u)
    <3>1. LocalCounts(s) = [t \in ToSet(s) |-> IF Often(s, t) < MaxTf THEN Often(s, t) ELSE MaxTf]
      BY <2>1, CountsOf
    <3>2. LocalCounts(u) = [t \in ToSet(u) |-> IF Often(u, t) < MaxTf THEN Often(u, t) ELSE MaxTf]
      BY <2>1, CountsOf
    <3>. QED
      BY <2>3, <2>5, <3>1, <3>2
  <2>. QED
    BY <2>3, <2>6 DEF s, u
<1>3. Counts(terms) = Counts(other) /\ Lengths(terms) = Lengths(other)
  BY <1>1, <1>2 DEF Counts, Lengths
<1>4. /\ Build(terms) =
           [ doc_count |-> Len(terms), doc_len |-> Lengths(terms),
             avgdl |-> <<SumFunction(Lengths(terms)), Len(terms)>>,
             terms |-> Postings(DOMAIN terms, Counts(terms)) ]
      /\ Build(other) =
           [ doc_count |-> Len(other), doc_len |-> Lengths(other),
             avgdl |-> <<SumFunction(Lengths(other)), Len(other)>>,
             terms |-> Postings(DOMAIN other, Counts(other)) ]
  BY Built
<1>. QED
  BY <1>1, <1>3, <1>4

\* The postings of n documents: the dictionary lists every term that occurs,
\* each posting every document that has the term.
Posted(n, terms, m, dict, ps) ==
  LET D == 1..n
      c == Counts(terms)
      S == Dictionary(D, c)
  IN /\ m \in Nat /\ dict = Ascending(S) /\ ps = Postings(D, c)
     /\ Enumerates(dict, S) /\ DOMAIN dict = 1..m /\ S \in SUBSET Nat
     /\ ps = First(ps, m)
     /\ \A i \in 1..m : ps[i] = PostingOf(D, c, dict[i]) /\ dict[i] \in S
     /\ \A t : /\ Holding(D, c, t) = {d \in D : t \in ToSet(terms[d])}
               /\ IsFiniteSet(Holding(D, c, t))
               /\ Enumerates(Ascending(Holding(D, c, t)), Holding(D, c, t))

\* An index lists every term in a posting of its own, and in it every document
\* with that term.
LEMMA PostedSo ==
  ASSUME NEW n, NEW terms, Texts(n, terms)
  PROVE  \E m, dict, ps : Posted(n, terms, m, dict, ps)
<1>. DEFINE D == 1..n
            c == Counts(terms)
            S == Dictionary(D, c)
            m == Cardinality(S)
            dict == Ascending(S)
            ps == Postings(D, c)
<1>1. n \in Nat /\ DOMAIN terms = D /\ \A d \in D : terms[d] \in Seq(Nat)
  BY DEF Texts
<1>2. IsFiniteSet(D)
  <2>1. 1 \in Int /\ n \in Int
    BY <1>1
  <2>. QED
    BY <2>1, FS_Interval
<1>3. \A d \in D : c[d] = LocalCounts(terms[d])
  BY <1>1 DEF Counts
<1>4. \A d \in D : /\ DOMAIN c[d] = ToSet(terms[d]) /\ DOMAIN c[d] \in SUBSET Nat
                   /\ IsFiniteSet(DOMAIN c[d])
  BY <1>1, <1>3, CountsOf
<1>. HIDE DEF c
<1>5. S \in SUBSET Nat
  BY <1>4 DEF Dictionary
<1>6. IsFiniteSet(S)
  <2>. DEFINE T == {E \in SUBSET D : IsFiniteSet(Dictionary(E, c))}
  <2>1. {} \in T
    <3>1. Dictionary({}, c) = {}
      BY DEF Dictionary
    <3>. QED
      BY <3>1, FS_EmptySet
  <2>2. ASSUME NEW E \in (SUBSET D) \ {{}} PROVE \E d \in E : E \ {d} \in T => E \in T
    <3>1. PICK d \in E : TRUE
      OBVIOUS
    <3>2. Dictionary(E, c) = Dictionary(E \ {d}, c) \cup DOMAIN c[d]
      BY DEF Dictionary
    <3>3. IsFiniteSet(DOMAIN c[d])
      BY <1>4
    <3>4. IsFiniteSet(Dictionary(E \ {d}, c)) => IsFiniteSet(Dictionary(E, c))
      BY <3>2, <3>3, FS_Union
    <3>. QED
      BY <3>4
  <2>3. D \in T
    <3>. HIDE DEF T, D
    <3>1. SUBSET D \subseteq T
      BY <1>2, <2>1, <2>2, Parts
    <3>. QED
      BY <3>1
  <2>. QED
    BY <2>3
<1>. HIDE DEF S
<1>7. Enumerates(dict, S) /\ m \in Nat
  BY <1>5, <1>6, AscendingOnce DEF Enumerates
<1>8. dict \in [1..m -> S]
  BY <1>7 DEF Enumerates
<1>9. ps = [i \in 1..m |-> PostingOf(D, c, dict[i])]
  BY <1>8 DEF Postings, S
<1>10. ps = First(ps, m)
  BY <1>9 DEF First
<1>11. \A i \in 1..m : ps[i] = PostingOf(D, c, dict[i]) /\ dict[i] \in S
  BY <1>8, <1>9
<1>12. ASSUME NEW t
       PROVE  /\ Holding(D, c, t) = {d \in D : t \in ToSet(terms[d])}
              /\ IsFiniteSet(Holding(D, c, t))
              /\ Enumerates(Ascending(Holding(D, c, t)), Holding(D, c, t))
  <2>. DEFINE H == Holding(D, c, t)
  <2>1. H = {d \in D : t \in ToSet(terms[d])}
    BY <1>4 DEF Holding
  <2>2. H \in SUBSET D /\ H \in SUBSET Nat
    BY <2>1
  <2>. HIDE DEF H, D
  <2>3. IsFiniteSet(H)
    BY <1>2, <2>2, FS_Subset
  <2>4. Enumerates(Ascending(H), H)
    BY <2>2, <2>3, AscendingOnce
  <2>. QED
    BY <2>1, <2>3, <2>4 DEF H
<1>13. DOMAIN dict = 1..m
  BY <1>8
<1>14. Posted(n, terms, m, dict, ps)
  <2>. HIDE DEF m, dict, ps
  <2>. QED
    BY <1>5, <1>7, <1>10, <1>11, <1>12, <1>13 DEF Posted, S, c, dict, ps
<1>. QED
  BY <1>14

\* A built index can be written.
LEMMA BuildWell ==
  ASSUME NEW n, NEW terms, Texts(n, terms)
  PROVE  \E m : WellBuilt(n, m, Build(terms))
<1>. DEFINE lens == Lengths(terms)
            c == Counts(terms)
            D == 1..n
            b == Build(terms)
<1>1. n \in Nat /\ DOMAIN terms = D /\ Len(terms) = n /\ \A d \in D : terms[d] \in Seq(Nat)
  BY AsSequence DEF Texts
<1>2. lens \in [1..n -> Nat]
  BY <1>1, LenProperties DEF Lengths
<1>3. lens \in Seq(Nat) /\ Len(lens) = n
  <2>. HIDE DEF lens
  <2>. QED
    BY <1>1, <1>2, AsSequence
<1>4. SumFunction(lens) \in Nat
  <2>1. IsFiniteSet(1..n)
    <3>1. 1 \in Int /\ n \in Int
      BY <1>1
    <3>. QED
      BY <3>1, FS_Interval
  <2>. HIDE DEF lens
  <2>. QED
    BY <1>2, <2>1, SumNat
<1>5. PICK m, dict, ps : Posted(n, terms, m, dict, ps)
  BY PostedSo
<1>6. m \in Nat /\ ps = Postings(D, c) /\ ps = First(ps, m)
  BY <1>5 DEF Posted
<1>7. b = [doc_count |-> n, doc_len |-> lens, avgdl |-> <<SumFunction(lens), n>>, terms |-> ps]
  BY <1>1, <1>6, Built
<1>8. ASSUME NEW i \in 1..m PROVE WellPosted(ps[i])
  <2>. DEFINE t == dict[i]
              H == Holding(D, c, t)
              docs == Ascending(H)
              k == Cardinality(H)
              tf == [j \in 1..k |-> c[docs[j]][t]]
  <2>1. ps[i] = PostingOf(D, c, t) /\ t \in Nat
    BY <1>5 DEF Posted
  <2>2. Enumerates(docs, H) /\ H = {d \in D : t \in ToSet(terms[d])}
    BY <1>5 DEF Posted
  <2>3. ps[i] = [term |-> t, docs |-> docs, tf |-> tf]
    BY <2>1 DEF PostingOf
  <2>4. k \in Nat /\ docs \in [1..k -> H]
    BY <2>2 DEF Enumerates
  <2>5. docs \in [1..k -> Nat]
    BY <2>2, <2>4
  <2>. HIDE DEF docs, k
  <2>6. \A j \in 1..k : c[docs[j]][t] \in Nat
    <3>. SUFFICES ASSUME NEW j \in 1..k PROVE c[docs[j]][t] \in Nat
      OBVIOUS
    <3>1. docs[j] \in D /\ t \in ToSet(terms[docs[j]])
      BY <2>2, <2>4
    <3>2. c[docs[j]] = LocalCounts(terms[docs[j]])
      BY <1>1, <3>1 DEF Counts
    <3>. HIDE DEF c, t
    <3>. QED
      BY <1>1, <3>1, <3>2, CountsOf
  <2>7. tf \in [1..k -> Nat]
    <3>. HIDE DEF c, t
    <3>. QED
      BY <2>6
  <2>8. docs \in Seq(Nat) /\ Len(docs) = k /\ tf \in Seq(Nat) /\ Len(tf) = k
    <3>. HIDE DEF tf
    <3>. QED
      BY <2>4, <2>5, <2>7, AsSequence
  <2>. HIDE DEF tf, t
  <2>. QED
    BY <2>1, <2>3, <2>8 DEF WellPosted
<1>9. WellBuilt(n, m, b)
  <2>. HIDE DEF b, lens, c
  <2>1. b.terms = ps /\ b.doc_len = lens /\ b.avgdl = <<SumFunction(lens), n>>
    BY <1>7
  <2>. QED
    BY <1>1, <1>3, <1>4, <1>6, <1>7, <1>8, <2>1 DEF WellBuilt
<1>. QED
  BY <1>9

(***************************************************************************)
(* Terms that come back.                                                   *)
(***************************************************************************)

\* A posting says how often its term occurs in a document.
LEMMA TimesOften ==
  ASSUME NEW n, NEW terms, Texts(n, terms), \A d \in 1..n : Len(terms[d]) <= MaxTf,
         NEW m, NEW dict, NEW ps, Posted(n, terms, m, dict, ps),
         NEW d \in 1..n, NEW j \in 1..m
  PROVE  ps[j].term = dict[j] /\ TimesIn(ps[j], d) = Often(terms[d], dict[j])
<1>. DEFINE t == dict[j]
            c == Counts(terms)
            H == Holding(1..n, c, t)
            docs == Ascending(H)
            k == Cardinality(H)
            tf == [i \in 1..k |-> c[docs[i]][t]]
            s == terms[d]
<1>1. n \in Nat /\ DOMAIN terms = 1..n /\ s \in Seq(Nat) /\ Len(s) <= MaxTf
  BY DEF Texts
<1>2. ps[j] = PostingOf(1..n, c, t)
  BY DEF Posted
<1>3. Enumerates(docs, H) /\ H = {e \in 1..n : t \in ToSet(terms[e])}
  BY DEF Posted
<1>4. ps[j] = [term |-> t, docs |-> docs, tf |-> tf]
  BY <1>2 DEF PostingOf
<1>5. k \in Nat /\ docs \in [1..k -> H]
  BY <1>3 DEF Enumerates
<1>6. Len(docs) = k /\ DOMAIN docs = 1..k
  BY <1>5, AsSequence
<1>7. Contains(docs, d) <=> t \in ToSet(s)
  <2>1. Contains(docs, d) <=> d \in H
    BY <1>3, <1>5, <1>6 DEF Contains, Enumerates
  <2>. QED
    BY <1>3, <2>1
<1>. DEFINE at == CHOOSE i \in DOMAIN docs : docs[i] = d
<1>8. ps[j].term = t /\ ps[j].docs = docs /\ ps[j].tf = tf
  BY <1>4
<1>. HIDE DEF docs
<1>9. TimesIn(ps[j], d) = IF Contains(docs, d) THEN tf[at] ELSE 0
  <2>. HIDE DEF tf, k, t
  <2>. QED
    BY <1>8 DEF TimesIn
<1>10. CASE t \in ToSet(s)
  <2>1. \E i \in DOMAIN docs : docs[i] = d
    BY <1>6, <1>7, <1>10 DEF Contains
  <2>2. at \in DOMAIN docs /\ docs[at] = d
    BY <2>1, Zenon
  <2>. HIDE DEF at
  <2>3. tf[at] = c[d][t]
    BY <1>6, <2>2
  <2>4. c[d] = LocalCounts(s)
    BY <1>1 DEF Counts
  <2>. HIDE DEF c, t, tf, s, k
  <2>5. LocalCounts(s)[t] = Often(s, t)
    BY <1>1, <1>10, CountsOf
  <2>. QED
    BY <1>7, <1>8, <1>9, <1>10, <2>3, <2>4, <2>5 DEF t, s
<1>11. CASE t \notin ToSet(s)
  <2>. HIDE DEF c, t, tf, s, k, at
  <2>1. Often(s, t) = 0
    BY <1>1, <1>11, OftenType
  <2>. QED
    BY <1>7, <1>8, <1>9, <1>11, <2>1 DEF t, s
<1>. QED
  BY <1>10, <1>11

\* The terms of a document come back from the postings, in another order.
THEOREM TermsBack ==
  ASSUME NEW n, NEW terms, Texts(n, terms), \A d \in 1..n : Len(terms[d]) <= MaxTf
  PROVE  /\ Texts(n, ToDocTerms(Build(terms)))
         /\ \A d \in 1..n : ToBag(ToDocTerms(Build(terms))[d]) = ToBag(terms[d])
<1>. DEFINE b == Build(terms)
            back == ToDocTerms(b)
            c == Counts(terms)
            S == Dictionary(1..n, c)
<1>1. n \in Nat /\ DOMAIN terms = 1..n /\ Len(terms) = n /\ \A d \in 1..n : terms[d] \in Seq(Nat)
  BY AsSequence DEF Texts
<1>2. PICK m, dict, ps : Posted(n, terms, m, dict, ps)
  BY PostedSo
<1>3. /\ m \in Nat /\ ps = Postings(1..n, c) /\ ps = First(ps, m) /\ S \in SUBSET Nat
      /\ Enumerates(dict, S) /\ DOMAIN dict = 1..m
  BY <1>2 DEF Posted
<1>4. b.doc_count = n /\ b.terms = ps
  <2>1. b = [ doc_count |-> Len(terms), doc_len |-> Lengths(terms),
              avgdl |-> <<SumFunction(Lengths(terms)), Len(terms)>>,
              terms |-> Postings(DOMAIN terms, Counts(terms)) ]
    BY Built
  <2>. HIDE DEF b
  <2>. QED
    BY <1>1, <1>3, <2>1
<1>5. DOMAIN ps = 1..m
  BY <1>3 DEF First
<1>6. back = [d \in 1..b.doc_count |->
                FlattenSeq([j \in DOMAIN b.terms |->
                              [i \in 1..TimesIn(b.terms[j], d) |-> b.terms[j].term]])]
  BY DEF ToDocTerms, TimesIn
<1>. HIDE DEF b
<1>7. back = [d \in 1..n |->
                FlattenSeq([j \in 1..m |-> [i \in 1..TimesIn(ps[j], d) |-> ps[j].term]])]
  BY <1>4, <1>5, <1>6
<1>. HIDE DEF back
<1>8. dict \in [1..m -> Nat] /\ \A i, j \in 1..m : dict[i] = dict[j] => i = j
  BY <1>3 DEF Enumerates
<1>9. ASSUME NEW d \in 1..n
      PROVE  back[d] \in Seq(Nat) /\ ToBag(back[d]) = ToBag(terms[d])
  <2>. DEFINE s == terms[d]
              k == [j \in 1..m |-> Often(s, dict[j])]
              w == Repeated(m, dict, k)
  <2>1. s \in Seq(Nat)
    BY <1>1
  <2>2. k \in [1..m -> Nat]
    <3>1. \A j \in 1..m : Often(s, dict[j]) \in 0..Len(s)
      BY <2>1, OftenType
    <3>. HIDE DEF s
    <3>. QED
      BY <3>1
  <2>3. back[d] = w
    <3>1. \A j \in 1..m : ps[j].term = dict[j] /\ TimesIn(ps[j], d) = k[j]
      BY <1>2, TimesOften
    <3>2. back[d] = FlattenSeq([j \in 1..m |-> [i \in 1..TimesIn(ps[j], d) |-> ps[j].term]])
      BY <1>7
    <3>. HIDE DEF k
    <3>3. [j \in 1..m |-> [i \in 1..TimesIn(ps[j], d) |-> ps[j].term]]
            = [j \in 1..m |-> [i \in 1..k[j] |-> dict[j]]]
      <4>1. \A j \in 1..m : [i \in 1..TimesIn(ps[j], d) |-> ps[j].term] = [i \in 1..k[j] |-> dict[j]]
        BY <3>1
      <4>. QED
        BY <4>1
    <3>. QED
      BY <3>2, <3>3 DEF Repeated
  <2>4. /\ w \in Seq(Nat)
        /\ \A j \in 1..m : Often(w, dict[j]) = k[j]
        /\ \A t : (\A j \in 1..m : dict[j] # t) => Often(w, t) = 0
    <3>. HIDE DEF k
    <3>. QED
      BY <1>3, <1>8, <2>2, RepeatedOften
  <2>5. \A j \in 1..m : k[j] = Often(s, dict[j])
    OBVIOUS
  <2>6. ASSUME NEW t \in Nat PROVE Often(w, t) = Often(s, t)
    <3>1. CASE t \in S
      <4>1. PICK j \in 1..m : dict[j] = t
        BY <1>3, <3>1 DEF Enumerates
      <4>. HIDE DEF w, s, k
      <4>. QED
        BY <2>4, <2>5, <4>1
    <3>2. CASE t \notin S
      <4>1. \A j \in 1..m : dict[j] # t
        BY <1>3, <3>2 DEF Enumerates
      <4>2. t \notin ToSet(s)
        <5>1. c[d] = LocalCounts(s) /\ DOMAIN c[d] \subseteq S
          BY <1>1 DEF Counts, Dictionary
        <5>2. DOMAIN LocalCounts(s) = ToSet(s)
          BY <2>1, CountsOf
        <5>. HIDE DEF c, S, s
        <5>. QED
          BY <3>2, <5>1, <5>2
      <4>3. Often(s, t) = 0
        BY <2>1, <4>2, OftenType
      <4>. HIDE DEF w, s
      <4>. QED
        BY <2>4, <4>1, <4>3
    <3>. QED
      BY <3>1, <3>2
  <2>. HIDE DEF w, s
  <2>7. ToBag(w) = ToBag(s)
    BY <2>1, <2>4, <2>6, BagOften
  <2>. QED
    BY <2>3, <2>4, <2>7 DEF s
<1>10. back \in [1..n -> Seq(Nat)]
  BY <1>7, <1>9
<1>. QED
  BY <1>1, <1>9, <1>10 DEF Texts, back, b

(***************************************************************************)
(* The file of documents.                                                  *)
(***************************************************************************)

\* The vectors of documents, and the block of a file.
Vectors(docs) == [d \in DOMAIN docs |-> docs[d].vector]

DenseOf(image) ==
  IF "Dense" \in DOMAIN image.sections THEN image.sections["Dense"].data ELSE <<>>

\* The entries of documents, with their terms as they were put.
Entries(docs) == [d \in DOMAIN docs |-> Entry(docs[d])]

\* Documents as they can be put: extraction has capped their terms.
Corpus(docs) ==
  /\ docs \in Seq(Document)
  /\ \A d \in DOMAIN docs : Len(docs[d].terms) <= MaxExtracted

\* The columns of documents.
Metadata(docs) == [d \in 1..Len(docs) |-> MetaOf(docs[d])]
Outlinks(docs) == [d \in 1..Len(docs) |-> docs[d].edges]
Terms(docs) == [d \in 1..Len(docs) |-> docs[d].terms]
Linked(docs) == \E d \in 1..Len(docs) : docs[d].edges # <<>>

\* The columns of documents, and their types.
LEMMA Columned ==
  ASSUME NEW docs, Corpus(docs)
  PROVE  /\ Len(docs) \in Nat /\ DOMAIN docs = 1..Len(docs)
         /\ Metas(Len(docs), Metadata(docs))
         /\ Vectors(docs) \in [1..Len(docs) -> [1..Dim -> Int]]
         /\ Strings(Len(docs), Outlinks(docs))
         /\ Texts(Len(docs), Terms(docs))
         /\ \A d \in 1..Len(docs) : Len(Terms(docs)[d]) <= MaxTf
         /\ \E m : WellBuilt(Len(docs), m, Build(Terms(docs)))
<1>. DEFINE n == Len(docs)
<1>1. n \in Nat /\ DOMAIN docs = 1..n /\ \A d \in 1..n : docs[d] \in Document
  BY LenProperties DEF Corpus
<1>. HIDE DEF n
<1>2. \A d \in 1..n : /\ docs[d].terms \in Seq(Nat) /\ docs[d].edges \in Seq(Nat)
                      /\ docs[d].vector \in [1..Dim -> Int]
  <2>. SUFFICES ASSUME NEW d \in 1..n
                PROVE  /\ docs[d].terms \in Seq(Nat) /\ docs[d].edges \in Seq(Nat)
                       /\ docs[d].vector \in [1..Dim -> Int]
    OBVIOUS
  <2>1. docs[d] \in Document
    BY <1>1
  <2>. DEFINE doc == docs[d]
  <2>. HIDE DEF doc
  <2>2. doc \in Document
    BY <2>1 DEF doc
  <2>3. doc.terms \in Seq(Nat) /\ doc.edges \in Seq(Nat) /\ doc.vector \in Vector
    BY <2>2 DEF Document
  <2>. QED
    BY <2>3 DEF doc, Vector
<1>3. Metas(n, Metadata(docs))
  <2>. DEFINE ds == Metadata(docs)
  <2>1. ds = [d \in 1..n |-> MetaOf(docs[d])]
    BY DEF Metadata, n
  <2>2. ds = First(ds, n)
    BY <2>1 DEF First
  <2>3. \A i \in 1..n : ds[i] = MetaOf(docs[i])
    BY <2>1
  <2>. HIDE DEF ds
  <2>4. \A i \in 1..n : Stored(ds[i])
    BY <1>1, <2>3, DocumentStored
  <2>. QED
    BY <1>1, <2>2, <2>4 DEF Metas, ds
<1>4. Vectors(docs) \in [1..n -> [1..Dim -> Int]]
  BY <1>1, <1>2 DEF Vectors
<1>5. Strings(n, Outlinks(docs)) /\ Texts(n, Terms(docs))
  BY <1>1, <1>2 DEF Strings, Texts, Outlinks, Terms, n
<1>6. \A d \in 1..n : Len(Terms(docs)[d]) <= MaxTf
  <2>. SUFFICES ASSUME NEW d \in 1..n PROVE Len(Terms(docs)[d]) <= MaxTf
    OBVIOUS
  <2>. DEFINE k == Len(docs[d].terms)
  <2>1. Terms(docs)[d] = docs[d].terms
    BY DEF Terms, n
  <2>2. k \in Nat /\ k <= MaxExtracted
    BY <1>1, <1>2, LenProperties DEF Corpus
  <2>3. MaxExtracted \in 0..MaxTf /\ MaxTf \in Nat
    BY IndexAssumption, RankingAssumption
  <2>. HIDE DEF k
  <2>4. k <= MaxTf
    BY <2>2, <2>3
  <2>. QED
    BY <2>1, <2>4 DEF k
<1>7. \E m : WellBuilt(n, m, Build(Terms(docs)))
  BY <1>5, BuildWell
<1>. QED
  BY <1>1, <1>3, <1>4, <1>5, <1>6, <1>7 DEF n

\* What an index of documents is made of.
LEMMA SevenParts ==
  ASSUME NEW docs, Corpus(docs)
  PROVE  PartsOf(Entries(docs)) =
           [ dim |-> Dim, metric |-> Metric, embedder_id |-> EmbedderId,
             meta |-> Metadata(docs), dense |-> Vectors(docs), edges |-> Outlinks(docs),
             bm25 |-> Build(Terms(docs)) ]
<1>. DEFINE n == Len(docs)
            es == Entries(docs)
<1>1. DOMAIN docs = 1..n
  BY Columned
<1>2. DOMAIN es = 1..n
  BY <1>1 DEF Entries
<1>3. \A d \in 1..n : /\ es[d].meta = MetaOf(docs[d]) /\ es[d].vector = docs[d].vector
                      /\ es[d].terms = docs[d].terms /\ es[d].edges = docs[d].edges
  BY <1>1 DEF Entries, Entry
<1>. HIDE DEF es
<1>4. [d \in DOMAIN es |-> es[d].meta] = Metadata(docs)
  BY <1>2, <1>3 DEF Metadata
<1>5. [d \in DOMAIN es |-> es[d].vector] = Vectors(docs)
  BY <1>1, <1>2, <1>3 DEF Vectors
<1>6. [d \in DOMAIN es |-> es[d].edges] = Outlinks(docs)
  BY <1>2, <1>3 DEF Outlinks
<1>7. [d \in DOMAIN es |-> es[d].terms] = Terms(docs)
  BY <1>2, <1>3 DEF Terms
<1>. QED
  BY <1>4, <1>5, <1>6, <1>7 DEF PartsOf, es

\* The file of documents, and its sections.
Filed(docs) == SerializeSections(PartsOf(Entries(docs)))

\* The file of documents: its header and its sections.
LEMMA FiledSections ==
  ASSUME NEW docs, Corpus(docs)
  PROVE  LET image == Filed(docs)
         IN /\ "META_FRESHNESS" \in image.flags
            /\ "LINK_GRAPH" \in image.flags <=> Linked(docs)
            /\ image.dim = Dim /\ image.metric = Metric /\ image.embedder_id = EmbedderId
            /\ image.doc_count = Len(docs)
            /\ DOMAIN image.sections =
                 {"DocMeta", "Bm25"} \cup (IF Len(docs) # 0 THEN {"Dense"} ELSE {})
                   \cup (IF Linked(docs) THEN {"Edges"} ELSE {})
            /\ image.sections["DocMeta"] = ZstdSection(EncodeMeta(Metadata(docs)))
            /\ image.sections["Bm25"] = PlainSection(EncodeBm25(Build(Terms(docs))))
            /\ Len(docs) # 0 => image.sections["Dense"] = PlainSection(FlattenSeq(Vectors(docs)))
            /\ Linked(docs) => image.sections["Edges"] = ZstdSection(EncodeEdges(Outlinks(docs)))
<1>. DEFINE n == Len(docs)
            image == Filed(docs)
            ix == PartsOf(Entries(docs))
            meta == EncodeMeta(Metadata(docs))
            flat == FlattenSeq(Vectors(docs))
            bm25 == EncodeBm25(Build(Terms(docs)))
            edges == EncodeEdges(Outlinks(docs))
            has == \E d \in DOMAIN ix.edges : ix.edges[d] # <<>>
            all == [DocMeta |-> ZstdSection(meta), Dense |-> PlainSection(flat),
                    Bm25 |-> PlainSection(bm25), Edges |-> ZstdSection(edges)]
            added == {"DocMeta", "Dense", "Bm25"} \cup (IF has THEN {"Edges"} ELSE {})
            named == Restrict(all, added)
<1>1. /\ ix.dim = Dim /\ ix.metric = Metric /\ ix.embedder_id = EmbedderId
      /\ ix.meta = Metadata(docs) /\ ix.dense = Vectors(docs) /\ ix.edges = Outlinks(docs)
      /\ ix.bm25 = Build(Terms(docs))
  <2>1. ix = [ dim |-> Dim, metric |-> Metric, embedder_id |-> EmbedderId,
               meta |-> Metadata(docs), dense |-> Vectors(docs), edges |-> Outlinks(docs),
               bm25 |-> Build(Terms(docs)) ]
    BY SevenParts
  <2>. HIDE DEF ix
  <2>. QED
    BY <2>1
<1>2. has <=> Linked(docs)
  <2>. HIDE DEF ix
  <2>. QED
    BY <1>1 DEF Linked, Outlinks
<1>3. Len(Metadata(docs)) = n
  <2>1. Metas(n, Metadata(docs))
    BY Columned
  <2>. QED
    BY <2>1, MetaEncoded
<1>4. /\ image.sections = Sections(named) /\ image.flags = FlagsOf(ix)
      /\ image.dim = Dim /\ image.metric = Metric /\ image.embedder_id = EmbedderId
      /\ image.doc_count = n
  <2>. HIDE DEF ix
  <2>1. SerializeSections(ix) =
          [ flags |-> FlagsOf(ix), dim |-> ix.dim, doc_count |-> Len(ix.meta),
            metric |-> ix.metric, embedder_id |-> ix.embedder_id,
            sections |-> Sections(named) ]
    BY <1>1 DEF SerializeSections
  <2>2. image = SerializeSections(ix)
    BY DEF Filed, ix
  <2>. HIDE DEF image, named
  <2>. QED
    BY <1>1, <1>3, <2>1, <2>2
<1>5. "META_FRESHNESS" \in image.flags /\ ("LINK_GRAPH" \in image.flags <=> Linked(docs))
  <2>1. FlagsOf(ix) = {"META_FRESHNESS"} \cup (IF ix.metric = "cosine" THEN {"VECTORS_NORMALIZED"} ELSE {})
                       \cup (IF has THEN {"LINK_GRAPH"} ELSE {})
    BY DEF FlagsOf
  <2>. HIDE DEF ix, has, image
  <2>. QED
    BY <1>2, <1>4, <2>1
<1>6. meta # <<>> /\ bm25 # <<>> /\ edges # <<>>
  <2>1. meta # <<>>
    <3>1. Metas(n, Metadata(docs))
      BY Columned
    <3>. DEFINE s == AllDocs(n, Metadata(docs))
    <3>2. meta = <<n>> \o s /\ s \in Seq(Nat)
      BY <3>1, MetaEncoded
    <3>3. n \in Nat
      BY Columned
    <3>. HIDE DEF meta, s
    <3>. QED
      BY <3>2, <3>3, InFront
  <2>2. bm25 # <<>>
    <3>1. PICK m : WellBuilt(n, m, Build(Terms(docs)))
      BY Columned
    <3>. QED
      BY <3>1, Bm25Back
  <2>3. edges # <<>>
    <3>. DEFINE v == Outlinks(docs)
                s == Blobs(n, v)
    <3>1. Strings(n, v)
      BY Columned
    <3>2. n \in Nat /\ v \in [1..n -> Seq(Nat)]
      BY <3>1 DEF Strings
    <3>3. Len(v) = n /\ DOMAIN v = 1..n
      <4>. HIDE DEF v, n
      <4>. QED
        BY <3>2, AsSequence
    <3>. HIDE DEF v, n
    <3>4. s \in Seq(Nat)
      BY <3>2, BlobsType
    <3>5. EncodeEdges(v) = <<n>> \o s
      BY <3>3 DEF EncodeEdges, Blobs
    <3>. HIDE DEF s
    <3>6. EncodeEdges(v) # <<>>
      BY <3>2, <3>4, <3>5, InFront
    <3>. QED
      BY <3>6 DEF v
  <2>. QED
    BY <2>1, <2>2, <2>3
<1>7. flat # <<>> <=> n # 0
  <2>1. n \in Nat /\ Vectors(docs) \in [1..n -> [1..Dim -> Int]]
    BY Columned
  <2>. DEFINE rows == Vectors(docs)
  <2>. HIDE DEF rows, n
  <2>2. CASE n = 0
    <3>1. rows = <<>>
      BY <2>1, <2>2 DEF rows
    <3>2. Len(<<>>) = 0
      OBVIOUS
    <3>3. FlattenSeq(rows) = <<>>
      BY <3>1, <3>2, Zenon DEF FlattenSeq
    <3>. QED
      BY <2>2, <3>3 DEF rows
  <2>3. CASE n # 0
    <3>1. n \in Nat \ {0} /\ Dim \in Nat \ {0} /\ rows \in [1..n -> [1..Dim -> Int]]
      BY <2>1, <2>3, IndexAssumption DEF rows
    <3>2. Len(FlattenSeq(rows)) = n * Dim
      BY <3>1, RowsBack
    <3>3. n * Dim # 0
      BY <3>1
    <3>4. Len(<<>>) = 0
      OBVIOUS
    <3>. QED
      BY <2>3, <3>2, <3>3, <3>4 DEF rows
  <2>. QED
    BY <2>2, <2>3
<1>. HIDE DEF n, ix, meta, flat, bm25, edges, has, image
<1>8. /\ DOMAIN all = {"DocMeta", "Dense", "Bm25", "Edges"}
      /\ all["DocMeta"] = ZstdSection(meta) /\ all["Dense"] = PlainSection(flat)
      /\ all["Bm25"] = PlainSection(bm25) /\ all["Edges"] = ZstdSection(edges)
  OBVIOUS
<1>. HIDE DEF all
<1>9. /\ all["DocMeta"].data = meta /\ all["Dense"].data = flat
      /\ all["Bm25"].data = bm25 /\ all["Edges"].data = edges
  BY <1>8 DEF ZstdSection, PlainSection
<1>10. added = {"DocMeta", "Dense", "Bm25"} \cup (IF Linked(docs) THEN {"Edges"} ELSE {})
  BY <1>2
<1>. HIDE DEF added
<1>11. DOMAIN named = added /\ \A kind \in added : named[kind] = all[kind]
  <2>1. added \subseteq DOMAIN all
    BY <1>8, <1>10
  <2>. QED
    BY <1>8, <2>1 DEF Restrict
<1>. HIDE DEF named
<1>12. /\ DOMAIN image.sections = {k \in added : all[k].data # <<>>}
       /\ \A kind \in added : all[kind].data # <<>> => image.sections[kind] = all[kind]
  BY <1>4, <1>11 DEF Sections
<1>. DEFINE kept == {"DocMeta", "Bm25"} \cup (IF n # 0 THEN {"Dense"} ELSE {})
                      \cup (IF Linked(docs) THEN {"Edges"} ELSE {})
<1>13. DOMAIN image.sections = kept
  <2>1. ASSUME NEW k PROVE k \in added /\ all[k].data # <<>> <=> k \in kept
    BY <1>6, <1>7, <1>9, <1>10
  <2>. HIDE DEF kept
  <2>. QED
    BY <1>12, <2>1
<1>14. /\ image.sections["DocMeta"] = all["DocMeta"]
       /\ image.sections["Bm25"] = all["Bm25"]
       /\ n # 0 => image.sections["Dense"] = all["Dense"]
       /\ Linked(docs) => image.sections["Edges"] = all["Edges"]
  BY <1>6, <1>7, <1>9, <1>10, <1>12
<1>. QED
  BY <1>4, <1>5, <1>8, <1>13, <1>14 DEF n, image, meta, flat, bm25, edges

(***************************************************************************)
(* Opening the file.                                                       *)
(***************************************************************************)

\* What Parse reads from a file.
MetaIn(image) ==
  Then(Section(image, "DocMeta"), LAMBDA s : DecodeMeta(s.data, "META_FRESHNESS" \in image.flags))
Bm25In(image) == Then(Section(image, "Bm25"), LAMBDA s : DecodeBm25(s.data))
EdgesIn(image) ==
  IF "LINK_GRAPH" \in image.flags
    THEN Then(Section(image, "Edges"), LAMBDA s : DecodeEdges(s.data))
  ELSE [ok |-> TRUE, val |-> [d \in 1..image.doc_count |-> <<>>]]

\* Parse, section by section.
LEMMA ParseReads ==
  ASSUME NEW image
  PROVE  Parse(image) =
    IF Len(DenseOf(image)) # image.doc_count * image.dim \/ ~MetaIn(image).ok \/ ~Bm25In(image).ok
         \/ ~EdgesIn(image).ok
      THEN Err
    ELSE IF Len(MetaIn(image).val) # image.doc_count \/ Len(EdgesIn(image).val) # image.doc_count
      THEN Err
    ELSE [ ok |-> TRUE, dim |-> image.dim, metric |-> image.metric,
           embedder_id |-> image.embedder_id, meta |-> MetaIn(image).val, bm25 |-> Bm25In(image).val,
           dense |-> Rows(DenseOf(image), image.dim, image.doc_count), edges |-> EdgesIn(image).val ]
BY DEF Parse, MetaIn, Bm25In, EdgesIn, DenseOf

\* The parts of a record that has them all.
LEMMA SameContent ==
  ASSUME NEW x, NEW p,
         p = [ dim |-> p.dim, metric |-> p.metric, embedder_id |-> p.embedder_id,
               meta |-> p.meta, dense |-> p.dense, edges |-> p.edges, bm25 |-> p.bm25 ],
         x.dim = p.dim, x.metric = p.metric, x.embedder_id = p.embedder_id,
         x.meta = p.meta, x.dense = p.dense, x.edges = p.edges, x.bm25 = p.bm25
  PROVE  Content(x) = p
<1>. DEFINE F == {"dim", "metric", "embedder_id", "meta", "dense", "edges", "bm25"}
<1>1. DOMAIN PartsOf(<<>>) = F
  BY DEF PartsOf
<1>2. Content(x) = [f \in F |-> x[f]]
  BY <1>1 DEF Content
<1>3. DOMAIN p = F /\ p = [f \in F |-> p[f]]
  <2>. DEFINE q == [ dim |-> p.dim, metric |-> p.metric, embedder_id |-> p.embedder_id,
               meta |-> p.meta, dense |-> p.dense, edges |-> p.edges, bm25 |-> p.bm25 ]
  <2>1. DOMAIN q = F
    OBVIOUS
  <2>2. q = [f \in DOMAIN q |-> q[f]]
    OBVIOUS
  <2>3. p = q
    OBVIOUS
  <2>. HIDE DEF q
  <2>. QED
    BY <2>1, <2>2, <2>3
<1>4. \A f \in F : x[f] = p[f]
  OBVIOUS
<1>. QED
  BY <1>2, <1>3, <1>4

\* What a file opens to, if it opens, are the documents it was saved from; and
\* it opens if its compressed sections are not too well compressed.
THEOREM FileBack ==
  ASSUME NEW docs, Corpus(docs)
  PROVE  LET image == Filed(docs)
         IN /\ Parse(image).ok = \A kind \in DOMAIN image.sections : Decompresses(image.sections[kind])
            /\ Parse(image).ok => Content(Parse(image)) = PartsOf(Entries(docs))
            /\ Framed(image.sections["DocMeta"].data)
<1>. DEFINE n == Len(docs)
            image == Filed(docs)
            meta == Metadata(docs)
            edges == Outlinks(docs)
            bm25 == Build(Terms(docs))
            rows == Vectors(docs)
            flat == FlattenSeq(rows)
            all == \A kind \in DOMAIN image.sections : Decompresses(image.sections[kind])
            metaSec == ZstdSection(EncodeMeta(meta))
            edgesSec == ZstdSection(EncodeEdges(edges))
            linked == Linked(docs)
<1>1. /\ "META_FRESHNESS" \in image.flags
      /\ "LINK_GRAPH" \in image.flags <=> linked
      /\ image.dim = Dim /\ image.metric = Metric /\ image.embedder_id = EmbedderId
      /\ image.doc_count = n
      /\ DOMAIN image.sections = {"DocMeta", "Bm25"} \cup (IF n # 0 THEN {"Dense"} ELSE {})
                                  \cup (IF linked THEN {"Edges"} ELSE {})
      /\ image.sections["DocMeta"] = metaSec
      /\ image.sections["Bm25"] = PlainSection(EncodeBm25(bm25))
      /\ n # 0 => image.sections["Dense"] = PlainSection(flat)
      /\ linked => image.sections["Edges"] = edgesSec
  BY FiledSections
<1>2. /\ n \in Nat /\ Metas(n, meta) /\ rows \in [1..n -> [1..Dim -> Int]] /\ Strings(n, edges)
      /\ \E m : WellBuilt(n, m, bm25)
  BY Columned
<1>3. DecodeMeta(EncodeMeta(meta), TRUE) = At(<<>>, meta) /\ Framed(EncodeMeta(meta)) /\ Len(meta) = n
  BY <1>2, MetaFramed, MetaEncoded
<1>4. DecodeEdges(EncodeEdges(edges)) = At(<<>>, edges) /\ Len(edges) = n
  BY <1>2, EdgesBack, AsSequence DEF Strings
<1>5. DecodeBm25(EncodeBm25(bm25)) = At(<<>>, bm25)
  BY <1>2, Bm25Back
<1>6. ~linked => edges = [d \in 1..n |-> <<>>]
  BY DEF Linked, Outlinks
<1>7. Len(DenseOf(image)) = n * Dim /\ Rows(DenseOf(image), Dim, n) = rows
  <2>. HIDE DEF image, rows, linked
  <2>1. CASE n = 0
    <3>1. DenseOf(image) = <<>>
      <4>1. "Dense" \notin DOMAIN image.sections
        BY <1>1, <2>1
      <4>. QED
        BY <4>1 DEF DenseOf
    <3>2. Len(<<>>) = 0 /\ n * Dim = 0
      BY <2>1, IndexAssumption
    <3>3. Rows(<<>>, Dim, n) \in [{} -> Int] /\ rows \in [{} -> Int]
      BY <2>1, <1>2 DEF Rows
    <3>4. Rows(<<>>, Dim, n) = rows
      BY <3>3
    <3>. QED
      BY <3>1, <3>2, <3>4
  <2>2. CASE n # 0
    <3>1. n \in Nat \ {0} /\ Dim \in Nat \ {0} /\ rows \in [1..n -> [1..Dim -> Int]]
      BY <1>2, <2>2, IndexAssumption
    <3>2. DenseOf(image) = flat
      <4>1. "Dense" \in DOMAIN image.sections /\ image.sections["Dense"].data = flat
        BY <1>1, <2>2 DEF PlainSection
      <4>. QED
        BY <4>1 DEF DenseOf
    <3>. HIDE DEF n
    <3>3. Rows(flat, Dim, n) = rows /\ Len(flat) = n * Dim
      BY <3>1, RowsBack
    <3>. QED
      BY <3>2, <3>3
  <2>. QED
    BY <2>1, <2>2
<1>. HIDE DEF n, image, meta, edges, bm25, rows, linked
<1>8. all <=> Decompresses(metaSec) /\ (linked => Decompresses(edgesSec))
  <2>1. \A data : Decompresses(PlainSection(data))
    BY DEF Decompresses, PlainSection
  <2>2. ASSUME all PROVE Decompresses(metaSec) /\ (linked => Decompresses(edgesSec))
    BY <1>1, <2>2
  <2>3. ASSUME Decompresses(metaSec), linked => Decompresses(edgesSec),
               NEW kind \in DOMAIN image.sections
        PROVE  Decompresses(image.sections[kind])
    <3>1. kind \in {"DocMeta", "Bm25", "Dense", "Edges"} /\ (kind = "Dense" => n # 0)
          /\ (kind = "Edges" => linked)
      BY <1>1
    <3>. QED
      BY <1>1, <2>1, <2>3, <3>1
  <2>. QED
    BY <2>2, <2>3
<1>. DEFINE okMeta == Decompresses(metaSec)
            okEdges == linked => Decompresses(edgesSec)
<1>9. MetaIn(image) = IF okMeta THEN At(<<>>, meta) ELSE Err
  <2>1. metaSec.data = EncodeMeta(meta)
    BY DEF ZstdSection
  <2>2. "DocMeta" \in DOMAIN image.sections /\ image.sections["DocMeta"] = metaSec
    BY <1>1
  <2>3. ("META_FRESHNESS" \in image.flags) = TRUE
    BY <1>1
  <2>. HIDE DEF metaSec
  <2>. DEFINE decoded(data) == DecodeMeta(data, TRUE)
              sec == Section(image, "DocMeta")
  <2>4. sec = IF okMeta THEN [ok |-> TRUE, data |-> EncodeMeta(meta)] ELSE Err
    BY <2>1, <2>2 DEF Section
  <2>5. MetaIn(image) = IF sec.ok THEN DecodeMeta(sec.data, "META_FRESHNESS" \in image.flags)
                         ELSE Err
    BY DEF MetaIn, Then
  <2>6. MetaIn(image) = IF sec.ok THEN decoded(sec.data) ELSE Err
    BY <2>3, <2>5, Zenon
  <2>7. decoded(EncodeMeta(meta)) = At(<<>>, meta)
    BY <1>3
  <2>. HIDE DEF okMeta, sec, decoded
  <2>8. CASE okMeta
    BY <2>4, <2>6, <2>7, <2>8
  <2>9. CASE ~okMeta
    <3>1. sec = Err /\ Err.ok = FALSE
      BY <2>4, <2>9 DEF Err
    <3>2. MetaIn(image) = Err
      BY <2>6, <3>1
    <3>. QED
      BY <2>9, <3>2
  <2>. QED
    BY <2>8, <2>9
<1>10. Bm25In(image) = At(<<>>, bm25)
  <2>. DEFINE sec == PlainSection(EncodeBm25(bm25))
  <2>1. sec.data = EncodeBm25(bm25) /\ Decompresses(sec)
    BY DEF PlainSection, Decompresses
  <2>2. "Bm25" \in DOMAIN image.sections /\ image.sections["Bm25"] = sec
    BY <1>1
  <2>. HIDE DEF sec
  <2>3. Section(image, "Bm25") = [ok |-> TRUE, data |-> EncodeBm25(bm25)]
    BY <2>1, <2>2 DEF Section
  <2>. QED
    BY <1>5, <2>3 DEF Bm25In, Then
<1>11. EdgesIn(image).ok = okEdges /\ (okEdges => EdgesIn(image).val = edges)
  <2>1. CASE linked
    <3>1. edgesSec.data = EncodeEdges(edges)
      BY DEF ZstdSection
    <3>2. "Edges" \in DOMAIN image.sections /\ image.sections["Edges"] = edgesSec
      BY <1>1, <2>1
    <3>. HIDE DEF edgesSec
    <3>3. Section(image, "Edges") = IF Decompresses(edgesSec) THEN [ok |-> TRUE, data |-> EncodeEdges(edges)] ELSE Err
      BY <3>1, <3>2 DEF Section
    <3>4. EdgesIn(image) = IF Section(image, "Edges").ok THEN DecodeEdges(Section(image, "Edges").data) ELSE Err
      BY <1>1, <2>1 DEF EdgesIn, Then
    <3>5. At(<<>>, edges).ok = TRUE /\ At(<<>>, edges).val = edges /\ Err.ok = FALSE
      BY DEF At, Err
    <3>6. CASE Decompresses(edgesSec)
      <4>1. EdgesIn(image) = At(<<>>, edges)
        BY <1>4, <3>3, <3>4, <3>6
      <4>2. okEdges = TRUE
        BY <3>6
      <4>. QED
        BY <3>5, <4>1, <4>2
    <3>7. CASE ~Decompresses(edgesSec)
      <4>1. EdgesIn(image) = Err
        BY <3>3, <3>4, <3>7 DEF Err
      <4>2. okEdges = FALSE
        BY <2>1, <3>7
      <4>. QED
        BY <3>5, <4>1, <4>2
    <3>. QED
      BY <3>6, <3>7
  <2>2. CASE ~linked
    <3>1. EdgesIn(image) = [ok |-> TRUE, val |-> [d \in 1..n |-> <<>>]]
      BY <1>1, <2>2 DEF EdgesIn
    <3>2. okEdges = TRUE
      BY <2>2
    <3>3. EdgesIn(image).ok = TRUE /\ EdgesIn(image).val = edges
      BY <1>6, <2>2, <3>1
    <3>. HIDE DEF okEdges
    <3>. QED
      BY <3>2, <3>3
  <2>. QED
    BY <2>1, <2>2
<1>. HIDE DEF okMeta, okEdges, all
<1>12. /\ At(<<>>, meta).ok = TRUE /\ At(<<>>, meta).val = meta
       /\ At(<<>>, bm25).ok = TRUE /\ At(<<>>, bm25).val = bm25 /\ Err.ok = FALSE
  BY DEF At, Err
<1>13. Parse(image) =
         IF okMeta /\ okEdges
           THEN [ ok |-> TRUE, dim |-> Dim, metric |-> Metric, embedder_id |-> EmbedderId,
                  meta |-> meta, bm25 |-> bm25, dense |-> rows, edges |-> edges ]
           ELSE Err
  <2>1. Parse(image) =
    IF Len(DenseOf(image)) # n * Dim \/ ~MetaIn(image).ok \/ ~Bm25In(image).ok \/ ~EdgesIn(image).ok
      THEN Err
    ELSE IF Len(MetaIn(image).val) # n \/ Len(EdgesIn(image).val) # n
      THEN Err
    ELSE [ ok |-> TRUE, dim |-> Dim, metric |-> Metric,
           embedder_id |-> EmbedderId, meta |-> MetaIn(image).val, bm25 |-> Bm25In(image).val,
           dense |-> Rows(DenseOf(image), Dim, n), edges |-> EdgesIn(image).val ]
    BY <1>1, ParseReads
  <2>2. CASE okMeta /\ okEdges
    <3>1. MetaIn(image).ok = TRUE /\ MetaIn(image).val = meta /\ Bm25In(image).ok = TRUE
          /\ Bm25In(image).val = bm25 /\ EdgesIn(image).ok /\ EdgesIn(image).val = edges
      BY <1>9, <1>10, <1>11, <1>12, <2>2
    <3>. QED
      BY <1>3, <1>4, <1>7, <2>1, <2>2, <3>1
  <2>3. CASE ~okMeta
    BY <1>9, <1>12, <2>1, <2>3
  <2>4. CASE ~okEdges
    BY <1>11, <2>1, <2>4
  <2>. QED
    BY <2>2, <2>3, <2>4
<1>14. all <=> okMeta /\ okEdges
  BY <1>8 DEF okMeta, okEdges
<1>15. all \in BOOLEAN
  BY DEF all
<1>16. Parse(image).ok = all
  <2>1. CASE all
    BY <1>13, <1>14, <1>15, <2>1
  <2>2. CASE ~all
    BY <1>12, <1>13, <1>14, <1>15, <2>2
  <2>. QED
    BY <2>1, <2>2
<1>17. ASSUME Parse(image).ok PROVE Content(Parse(image)) = PartsOf(Entries(docs))
  <2>. DEFINE x == Parse(image)
              p == PartsOf(Entries(docs))
  <2>1. p = [ dim |-> Dim, metric |-> Metric, embedder_id |-> EmbedderId,
              meta |-> meta, dense |-> rows, edges |-> edges, bm25 |-> bm25 ]
    BY SevenParts DEF meta, rows, edges, bm25
  <2>2. x = [ ok |-> TRUE, dim |-> Dim, metric |-> Metric, embedder_id |-> EmbedderId,
              meta |-> meta, bm25 |-> bm25, dense |-> rows, edges |-> edges ]
    BY <1>12, <1>13, <1>17
  <2>. HIDE DEF x, p
  <2>3. Content(x) = p
    BY <2>1, <2>2, SameContent
  <2>. QED
    BY <2>3 DEF x, p
<1>18. Framed(image.sections["DocMeta"].data)
  BY <1>1, <1>3 DEF ZstdSection
<1>. QED
  BY <1>16, <1>17, <1>18 DEF image, all

(***************************************************************************)
(* The life of an index.                                                   *)
(***************************************************************************)

\* What a builder holds are these documents, their terms perhaps in another
\* order.
Entered(docs, put) ==
  /\ docs = [d \in DOMAIN put |-> docs[d]]
  /\ \A d \in DOMAIN put : Same(docs[d], put[d]) /\ docs[d].terms \in Seq(Nat)

Inv ==
  /\ Corpus(held) /\ Corpus(filed)
  /\ live.kind \in {"builder", "index"}
  /\ live.kind = "builder" => live = Builder(live.docs) /\ Entered(live.docs, held)
  /\ live.kind = "index" =>
       /\ live = Assemble(PartsOf(Entries(held)), live.image)
       /\ live.image # NoFile => live.image = Filed(held)
  /\ file # NoFile => file = Filed(filed)

\* A builder of documents freezes to their index, whatever the order of terms in it.
LEMMA EnteredParts ==
  ASSUME NEW docs, NEW put, Corpus(put), Entered(docs, put)
  PROVE  PartsOf(docs) = PartsOf(Entries(put)) /\ Len(docs) = Len(put)
<1>. DEFINE n == Len(put)
            ts == [d \in DOMAIN docs |-> docs[d].terms]
<1>1. n \in Nat /\ DOMAIN put = 1..n /\ Texts(n, Terms(put))
  BY Columned
<1>2. /\ DOMAIN docs = 1..n /\ docs = [d \in 1..n |-> docs[d]]
      /\ \A d \in 1..n : /\ docs[d].meta = MetaOf(put[d]) /\ docs[d].vector = put[d].vector
                         /\ docs[d].edges = put[d].edges /\ docs[d].terms \in Seq(Nat)
                         /\ ToBag(docs[d].terms) = ToBag(put[d].terms)
  <2>1. docs = [d \in 1..n |-> docs[d]]
    BY <1>1 DEF Entered
  <2>2. DOMAIN docs = 1..n
    BY <2>1
  <2>. QED
    BY <1>1, <2>1, <2>2 DEF Entered, Same
<1>3. Len(docs) = n
  <2>. DEFINE R == {docs[d] : d \in 1..n}
  <2>1. docs \in [1..n -> R]
    BY <1>2
  <2>. HIDE DEF R, n
  <2>. QED
    BY <1>1, <2>1, AsSequence
<1>4. Texts(n, ts) /\ \A d \in 1..n : ts[d] = docs[d].terms
  BY <1>1, <1>2 DEF Texts
<1>5. \A d \in 1..n : ToBag(ts[d]) = ToBag(Terms(put)[d])
  BY <1>2, <1>4 DEF Terms
<1>6. Build(ts) = Build(Terms(put))
  <2>. HIDE DEF ts, n
  <2>. QED
    BY <1>1, <1>4, <1>5, SameBuild
<1>7. /\ [d \in DOMAIN docs |-> docs[d].meta] = Metadata(put)
      /\ [d \in DOMAIN docs |-> docs[d].vector] = Vectors(put)
      /\ [d \in DOMAIN docs |-> docs[d].edges] = Outlinks(put)
  BY <1>1, <1>2 DEF Metadata, Vectors, Outlinks
<1>8. PartsOf(docs) = [ dim |-> Dim, metric |-> Metric, embedder_id |-> EmbedderId,
                        meta |-> Metadata(put), dense |-> Vectors(put), edges |-> Outlinks(put),
                        bm25 |-> Build(Terms(put)) ]
  BY <1>6, <1>7 DEF PartsOf
<1>. QED
  BY <1>3, <1>8, SevenParts

\* Indexes with the same parts are assembled and saved alike.
SameParts(x, y) ==
  /\ x.dim = y.dim /\ x.metric = y.metric /\ x.embedder_id = y.embedder_id
  /\ x.meta = y.meta /\ x.dense = y.dense /\ x.edges = y.edges /\ x.bm25 = y.bm25

\* Such indexes cannot be told apart.
LEMMA SamePartsSame ==
  ASSUME NEW x, NEW y, SameParts(x, y)
  PROVE  /\ SerializeSections(x) = SerializeSections(y)
         /\ \A image : Assemble(x, image) = Assemble(y, image)
<1>1. FlagsOf(x) = FlagsOf(y)
  BY DEF SameParts, FlagsOf
<1>2. SerializeSections(x) = SerializeSections(y)
  BY <1>1 DEF SameParts, SerializeSections
<1>3. \A image : Assemble(x, image) = Assemble(y, image)
  BY DEF SameParts, Assemble
<1>. QED
  BY <1>2, <1>3

\* An index keeps the parts it was made of.
LEMMA AssembledParts ==
  ASSUME NEW x, NEW image
  PROVE  /\ SameParts(Assemble(x, image), x)
         /\ Assemble(x, image).kind = "index"
         /\ Assemble(x, image).image = image
BY DEF Assemble, SameParts

\* At first there is nothing.
LEMMA InitInv == Init => Inv
<1>. SUFFICES ASSUME Init PROVE Inv
  OBVIOUS
<1>1. <<>> \in Seq(Document) /\ DOMAIN <<>> = {}
  OBVIOUS
<1>2. Corpus(<<>>)
  BY <1>1 DEF Corpus
<1>3. Entered(<<>>, <<>>)
  BY <1>1 DEF Entered
<1>. QED
  BY <1>2, <1>3 DEF Init, Inv, Builder, NoFile

\* An entry is its document.
LEMMA EntrySame ==
  ASSUME NEW doc \in Document
  PROVE  Same(Entry(doc), doc) /\ Entry(doc).terms \in Seq(Nat)
<1>1. doc.terms \in Seq(Nat)
  BY DEF Document
<1>. QED
  BY <1>1 DEF Same, Entry

\* One document is put behind the others, or in the place of one.
LEMMA UpsertInv ==
  ASSUME Inv, NEW doc \in Docs, Upsert(doc)
  PROVE  Inv'
<1>. DEFINE id == IdOf(doc.url_key)
            kept == [doc EXCEPT !.pinned = @ \/ live.docs[id].meta.pinned]
            n == Len(held)
<1>1. /\ live = Builder(live.docs) /\ Entered(live.docs, held) /\ Corpus(held)
  BY DEF Upsert, Inv
<1>2. n \in Nat /\ DOMAIN held = 1..n /\ held \in Seq(Document)
      /\ \A d \in 1..n : held[d] \in Document /\ Len(held[d].terms) <= MaxExtracted
  BY <1>1, Columned, LenProperties DEF Corpus
<1>3. live.docs = [d \in 1..n |-> live.docs[d]]
      /\ \A d \in 1..n : Same(live.docs[d], held[d]) /\ live.docs[d].terms \in Seq(Nat)
  BY <1>1, <1>2 DEF Entered
<1>4. doc \in Document /\ Len(doc.terms) <= MaxExtracted
  BY IndexAssumption
<1>5. Has(doc.url_key) => id \in 1..n
  <2>. DEFINE P(i) == held[i].url_key = doc.url_key
  <2>1. Has(doc.url_key) => \E i \in 1..n : P(i)
    BY <1>2 DEF Has
  <2>2. id = CHOOSE i \in 1..n : P(i)
    BY <1>2 DEF IdOf
  <2>. HIDE DEF P, id, n
  <2>. QED
    BY <2>1, <2>2
<1>6. ASSUME Has(doc.url_key) PROVE kept \in Document /\ Len(kept.terms) <= MaxExtracted
  <2>1. live.docs[id].meta.pinned = held[id].pinned /\ held[id] \in Document
    <3>1. id \in 1..n
      BY <1>5, <1>6
    <3>. HIDE DEF id, n
    <3>2. Same(live.docs[id], held[id]) /\ held[id] \in Document
      BY <1>2, <1>3, <3>1
    <3>3. live.docs[id].meta = MetaOf(held[id])
      BY <3>2 DEF Same
    <3>4. MetaOf(held[id]).pinned = held[id].pinned
      BY DEF MetaOf
    <3>. QED
      BY <3>2, <3>3, <3>4
  <2>2. live.docs[id].meta.pinned \in BOOLEAN
    BY <2>1 DEF Document
  <2>. DEFINE p == live.docs[id].meta.pinned
  <2>. HIDE DEF p, id
  <2>3. kept = [doc EXCEPT !.pinned = @ \/ p]
    BY DEF p
  <2>. HIDE DEF kept
  <2>4. p \in BOOLEAN
    BY <2>2 DEF p
  <2>5. doc.pinned \in BOOLEAN
    BY <1>4 DEF Document
  <2>6. (doc.pinned \/ p) \in BOOLEAN
    OBVIOUS
  <2>7. kept \in Document
    BY <1>4, <2>3, <2>6 DEF Document
  <2>8. kept.terms = doc.terms
    BY <1>4, <2>3 DEF Document
  <2>. QED
    BY <1>4, <2>7, <2>8
<1>. HIDE DEF kept, id
<1>7. live'.kind = "builder" /\ live' = Builder(live'.docs)
      /\ Entered(live'.docs, held') /\ Corpus(held')
  <2>1. CASE ~Has(doc.url_key)
    <3>. DEFINE docs == Append(live.docs, Entry(doc))
                whole == Append(held, doc)
    <3>1. live' = Builder(docs) /\ held' = whole
      BY <1>1, <2>1 DEF Upsert, Builder
    <3>2. /\ whole \in Seq(Document) /\ DOMAIN whole = 1..(n + 1)
          /\ \A i \in 1..(n + 1) : whole[i] = IF i <= n THEN held[i] ELSE doc
      <4>1. whole \in Seq(Document) /\ Len(whole) = n + 1
            /\ (\A i \in 1..n : whole[i] = held[i]) /\ whole[n + 1] = doc
        BY <1>2, <1>4, AppendProperties
      <4>. HIDE DEF whole
      <4>. QED
        BY <1>2, <4>1, LenProperties
    <3>3. /\ docs = [i \in 1..(n + 1) |-> docs[i]]
          /\ \A i \in 1..(n + 1) : docs[i] = IF i <= n THEN live.docs[i] ELSE Entry(doc)
      <4>. DEFINE R == {live.docs[i] : i \in 1..n} \cup {Entry(doc)}
                  e == Entry(doc)
      <4>1. live.docs \in [1..n -> R] /\ e \in R
        BY <1>3
      <4>. HIDE DEF R, e
      <4>2. live.docs \in Seq(R) /\ Len(live.docs) = n
        BY <1>2, <4>1, AsSequence
      <4>. DEFINE w == Append(live.docs, e)
      <4>3. w \in Seq(R) /\ Len(w) = n + 1
            /\ (\A i \in 1..n : w[i] = live.docs[i]) /\ w[n + 1] = e
        BY <4>1, <4>2, AppendProperties
      <4>. HIDE DEF w
      <4>4. w \in [1..(n + 1) -> R]
        BY <4>3, LenProperties
      <4>5. w = [i \in 1..(n + 1) |-> w[i]]
            /\ \A i \in 1..(n + 1) : w[i] = IF i <= n THEN live.docs[i] ELSE e
        BY <1>2, <4>3, <4>4
      <4>. QED
        BY <4>5 DEF w, e
    <3>. HIDE DEF docs, whole
    <3>4. Same(Entry(doc), doc) /\ Entry(doc).terms \in Seq(Nat)
      BY <1>4, EntrySame
    <3>5. ASSUME NEW i \in 1..(n + 1)
          PROVE  Same(docs[i], whole[i]) /\ docs[i].terms \in Seq(Nat)
                 /\ Len(whole[i].terms) <= MaxExtracted
      <4>1. CASE i <= n
        BY <1>2, <1>3, <3>2, <3>3, <4>1
      <4>2. CASE ~(i <= n)
        BY <1>4, <3>2, <3>3, <3>4, <4>2
      <4>. QED
        BY <4>1, <4>2
    <3>6. Entered(docs, whole)
      BY <3>2, <3>3, <3>5 DEF Entered
    <3>7. Corpus(whole)
      BY <3>2, <3>5 DEF Corpus
    <3>8. live'.docs = docs /\ live'.kind = "builder"
      BY <3>1 DEF Builder
    <3>. QED
      BY <3>1, <3>6, <3>7, <3>8
  <2>2. CASE Has(doc.url_key)
    <3>. DEFINE docs == [live.docs EXCEPT ![id] = Entry(kept)]
                whole == [held EXCEPT ![id] = kept]
    <3>1. live' = Builder(docs) /\ held' = whole
      BY <1>1, <2>2 DEF Upsert, Builder, kept, id
    <3>2. kept \in Document /\ Len(kept.terms) <= MaxExtracted /\ id \in 1..n
      BY <1>5, <1>6, <2>2
    <3>3. /\ whole = [i \in 1..n |-> IF i = id THEN kept ELSE held[i]]
          /\ docs = [i \in 1..n |-> IF i = id THEN Entry(kept) ELSE live.docs[i]]
      <4>1. DOMAIN live.docs = 1..n
        BY <1>3
      <4>2. whole = [i \in 1..n |-> IF i = id THEN kept ELSE held[i]]
        BY <1>2
      <4>. DEFINE e == Entry(kept)
      <4>. HIDE DEF e
      <4>3. [live.docs EXCEPT ![id] = e] = [i \in 1..n |-> IF i = id THEN e ELSE live.docs[i]]
        BY <4>1
      <4>. QED
        BY <4>2, <4>3 DEF e
    <3>. HIDE DEF docs, whole
    <3>4. Same(Entry(kept), kept) /\ Entry(kept).terms \in Seq(Nat)
      BY <3>2, EntrySame
    <3>5. ASSUME NEW i \in 1..n
          PROVE  /\ Same(docs[i], whole[i]) /\ docs[i].terms \in Seq(Nat)
                 /\ Len(whole[i].terms) <= MaxExtracted /\ whole[i] \in Document
      <4>1. CASE i = id
        BY <3>2, <3>3, <3>4, <4>1
      <4>2. CASE i # id
        BY <1>2, <1>3, <3>3, <4>2
      <4>. QED
        BY <4>1, <4>2
    <3>6. DOMAIN whole = 1..n /\ docs = [i \in 1..n |-> docs[i]]
      BY <3>3
    <3>7. Entered(docs, whole)
      BY <3>5, <3>6 DEF Entered
    <3>8. Corpus(whole)
      <4>1. whole \in [1..n -> Document]
        BY <3>3, <3>5
      <4>. HIDE DEF n
      <4>2. whole \in Seq(Document)
        BY <1>2, <4>1, AsSequence
      <4>. QED
        BY <3>5, <3>6, <4>2 DEF Corpus
    <3>9. live'.docs = docs /\ live'.kind = "builder"
      BY <3>1 DEF Builder
    <3>. QED
      BY <3>1, <3>7, <3>8, <3>9
  <2>. QED
    BY <2>1, <2>2
<1>8. file' = file /\ filed' = filed /\ Corpus(filed) /\ (file # NoFile => file = Filed(filed))
  BY DEF Upsert, Inv
<1>. QED
  BY <1>7, <1>8 DEF Inv

\* The last document takes the place of the one that goes.
LEMMA EvictInv ==
  ASSUME Inv, NEW key, Evict(key)
  PROVE  Inv'
<1>. DEFINE id == IdOf(key)
            n == Len(held)
            docs == SwapRemove(live.docs, id)
            whole == SwapRemove(held, id)
<1>1. /\ live = Builder(live.docs) /\ Entered(live.docs, held) /\ Corpus(held)
  BY DEF Evict, Inv
<1>2. n \in Nat /\ DOMAIN held = 1..n
      /\ \A d \in 1..n : held[d] \in Document /\ Len(held[d].terms) <= MaxExtracted
  BY <1>1, Columned, LenProperties DEF Corpus
<1>3. \A d \in 1..n : Same(live.docs[d], held[d]) /\ live.docs[d].terms \in Seq(Nat)
  BY <1>1, <1>2 DEF Entered
<1>4. n - 1 \in Nat
  BY <1>2 DEF Evict, Has
<1>5. live' = Builder(docs) /\ held' = whole
  BY <1>1 DEF Evict, Builder
<1>6. Len(live.docs) = n
  BY <1>1, EnteredParts
<1>. HIDE DEF id
<1>7. /\ docs = [i \in 1..(n - 1) |-> IF i = id THEN live.docs[n] ELSE live.docs[i]]
      /\ whole = [i \in 1..(n - 1) |-> IF i = id THEN held[n] ELSE held[i]]
  BY <1>6 DEF SwapRemove
<1>. HIDE DEF docs, whole
<1>8. ASSUME NEW i \in 1..(n - 1)
      PROVE  /\ Same(docs[i], whole[i]) /\ docs[i].terms \in Seq(Nat)
             /\ Len(whole[i].terms) <= MaxExtracted /\ whole[i] \in Document
  <2>1. n \in 1..n /\ i \in 1..n
    BY <1>2, <1>4
  <2>2. CASE i = id
    BY <1>2, <1>3, <1>7, <2>1, <2>2
  <2>3. CASE i # id
    BY <1>2, <1>3, <1>7, <2>1, <2>3
  <2>. QED
    BY <2>2, <2>3
<1>9. DOMAIN whole = 1..(n - 1) /\ docs = [i \in 1..(n - 1) |-> docs[i]]
      /\ whole \in [1..(n - 1) -> Document]
  BY <1>7, <1>8
<1>10. Entered(docs, whole)
  BY <1>8, <1>9 DEF Entered
<1>11. Corpus(whole)
  <2>. DEFINE k == n - 1
  <2>1. k \in Nat /\ whole \in [1..k -> Document]
    BY <1>4, <1>9
  <2>. HIDE DEF k
  <2>2. whole \in Seq(Document)
    BY <2>1, AsSequence
  <2>. QED
    BY <1>8, <1>9, <2>2 DEF Corpus
<1>12. live'.docs = docs /\ live'.kind = "builder"
  BY <1>5 DEF Builder
<1>13. file' = file /\ filed' = filed /\ Corpus(filed) /\ (file # NoFile => file = Filed(filed))
  BY DEF Evict, Inv
<1>. QED
  BY <1>5, <1>10, <1>11, <1>12, <1>13 DEF Inv

\* A builder is frozen.
LEMMA FreezeInv ==
  ASSUME Inv, Freeze
  PROVE  Inv'
<1>1. Entered(live.docs, held) /\ Corpus(held)
  BY DEF Freeze, Inv
<1>2. PartsOf(live.docs) = PartsOf(Entries(held))
  BY <1>1, EnteredParts
<1>3. live' = Assemble(PartsOf(Entries(held)), NoFile) /\ held' = held
  BY <1>2 DEF Freeze
<1>4. live'.kind = "index" /\ live'.image = NoFile
  BY <1>3, AssembledParts
<1>5. file' = file /\ filed' = filed /\ Corpus(filed) /\ (file # NoFile => file = Filed(filed))
  BY DEF Freeze, Inv
<1>. QED
  BY <1>1, <1>3, <1>4, <1>5 DEF Inv

\* An index is thawed: the terms come back in the order of the dictionary, as often
\* as they were.
LEMMA ThawInv ==
  ASSUME Inv, Thaw
  PROVE  Inv'
<1>. DEFINE n == Len(held)
            terms == ToDocTerms(live.bm25)
            docs == [d \in DOMAIN live.dense |->
                       [meta |-> live.meta[d], vector |-> live.dense[d],
                        terms |-> terms[d], edges |-> live.edges[d]]]
<1>1. /\ Corpus(held) /\ held' = held /\ live' = Builder(docs)
      /\ live = Assemble(PartsOf(Entries(held)), live.image)
  BY DEF Thaw, Inv
<1>2. /\ live.meta = Metadata(held) /\ live.dense = Vectors(held) /\ live.edges = Outlinks(held)
      /\ live.bm25 = Build(Terms(held))
  <2>. DEFINE p == PartsOf(Entries(held))
  <2>1. p = [ dim |-> Dim, metric |-> Metric, embedder_id |-> EmbedderId,
              meta |-> Metadata(held), dense |-> Vectors(held), edges |-> Outlinks(held),
              bm25 |-> Build(Terms(held)) ]
    BY <1>1, SevenParts
  <2>. HIDE DEF p
  <2>2. SameParts(live, p)
    BY <1>1, AssembledParts DEF p
  <2>. QED
    BY <2>1, <2>2 DEF SameParts
<1>3. /\ n \in Nat /\ DOMAIN held = 1..n /\ Texts(n, Terms(held))
      /\ \A d \in 1..n : Len(Terms(held)[d]) <= MaxTf
  BY <1>1, Columned
<1>4. Texts(n, terms) /\ \A d \in 1..n : ToBag(terms[d]) = ToBag(Terms(held)[d])
  <2>1. terms = ToDocTerms(Build(Terms(held)))
    BY <1>2
  <2>. HIDE DEF n, terms
  <2>. QED
    BY <1>3, <2>1, TermsBack
<1>. HIDE DEF terms
<1>5. DOMAIN live.dense = 1..n
  BY <1>2, <1>3 DEF Vectors
<1>6. /\ docs = [d \in 1..n |-> docs[d]]
      /\ \A d \in 1..n : docs[d] = [meta |-> live.meta[d], vector |-> live.dense[d],
                                    terms |-> terms[d], edges |-> live.edges[d]]
  BY <1>5
<1>. HIDE DEF docs
<1>7. ASSUME NEW d \in 1..n PROVE Same(docs[d], held[d]) /\ docs[d].terms \in Seq(Nat)
  <2>1. /\ live.meta[d] = MetaOf(held[d]) /\ live.dense[d] = held[d].vector
        /\ live.edges[d] = held[d].edges /\ Terms(held)[d] = held[d].terms
    BY <1>2, <1>3 DEF Metadata, Vectors, Outlinks, Terms
  <2>2. /\ docs[d].meta = live.meta[d] /\ docs[d].vector = live.dense[d]
        /\ docs[d].edges = live.edges[d] /\ docs[d].terms = terms[d]
    BY <1>6
  <2>3. terms[d] \in Seq(Nat) /\ ToBag(terms[d]) = ToBag(Terms(held)[d])
    BY <1>4 DEF Texts
  <2>. QED
    BY <2>1, <2>2, <2>3 DEF Same
<1>8. Entered(docs, held)
  BY <1>3, <1>6, <1>7 DEF Entered
<1>9. live'.docs = docs /\ live'.kind = "builder"
  BY <1>1 DEF Builder
<1>10. file' = file /\ filed' = filed /\ Corpus(filed) /\ (file # NoFile => file = Filed(filed))
  BY DEF Thaw, Inv
<1>. QED
  BY <1>1, <1>8, <1>9, <1>10 DEF Inv

\* What is in memory is saved, or the image it came from is written again.
LEMMA SaveInv ==
  ASSUME Inv, Save
  PROVE  Inv'
<1>1. Corpus(held)
  BY DEF Inv
<1>2. file' = Filed(held)
  <2>1. CASE live.kind = "index" /\ live.image # NoFile
    BY <2>1 DEF Save, Inv
  <2>2. CASE live.kind = "index" /\ live.image = NoFile
    <3>1. SameParts(live, PartsOf(Entries(held)))
      BY <2>2, AssembledParts DEF Inv
    <3>2. SerializeSections(live) = Filed(held)
      BY <3>1, SamePartsSame DEF Filed
    <3>. QED
      BY <2>2, <3>2 DEF Save
  <2>3. CASE live.kind # "index"
    <3>1. PartsOf(live.docs) = PartsOf(Entries(held))
      BY <1>1, <2>3, EnteredParts DEF Inv
    <3>. QED
      BY <2>3, <3>1 DEF Save, Filed
  <2>. QED
    BY <2>1, <2>2, <2>3
<1>3. live' = live /\ held' = held /\ filed' = held
  BY DEF Save
<1>. QED
  BY <1>1, <1>2, <1>3 DEF Inv

\* A file is opened, or refused and what is in memory kept.
LEMMA OpenInv ==
  ASSUME Inv, Open
  PROVE  Inv'
<1>. DEFINE parsed == Parse(file)
            p == PartsOf(Entries(filed))
<1>1. /\ file # NoFile /\ file' = file /\ filed' = filed /\ Corpus(filed) /\ file = Filed(filed)
  BY DEF Open, Inv
<1>2. CASE parsed.ok
  <2>1. live' = Assemble(parsed, file) /\ held' = filed
    BY <1>2 DEF Open
  <2>2. Content(parsed) = p
    BY <1>1, <1>2, FileBack
  <2>3. SameParts(parsed, p)
    <3>1. DOMAIN PartsOf(<<>>) = {"dim", "metric", "embedder_id", "meta", "dense", "edges", "bm25"}
      BY DEF PartsOf
    <3>. HIDE DEF parsed, p
    <3>2. p = [f \in {"dim", "metric", "embedder_id", "meta", "dense", "edges", "bm25"} |-> parsed[f]]
      BY <2>2, <3>1 DEF Content
    <3>. QED
      BY <3>2 DEF SameParts
  <2>. HIDE DEF parsed, p
  <2>4. live' = Assemble(p, file)
    BY <2>1, <2>3, SamePartsSame
  <2>5. live'.kind = "index" /\ live'.image = file
    BY <2>4, AssembledParts
  <2>. QED
    BY <1>1, <2>1, <2>4, <2>5 DEF Inv, p
<1>3. CASE ~parsed.ok
  <2>1. live' = live /\ held' = held
    BY <1>3 DEF Open
  <2>. QED
    BY <1>1, <2>1 DEF Inv
<1>. QED
  BY <1>2, <1>3

\* Every step keeps it.
LEMMA NextInv == Inv /\ [Next]_vars => Inv'
<1>. SUFFICES ASSUME Inv, [Next]_vars PROVE Inv'
  OBVIOUS
<1>1. ASSUME NEW doc \in Docs, Upsert(doc) PROVE Inv'
  BY <1>1, UpsertInv
<1>2. ASSUME NEW doc \in Docs, Evict(doc.url_key) PROVE Inv'
  BY <1>2, EvictInv
<1>3. CASE Freeze
  BY <1>3, FreezeInv
<1>4. CASE Thaw
  BY <1>4, ThawInv
<1>5. CASE Save
  BY <1>5, SaveInv
<1>6. CASE Open
  BY <1>6, OpenInv
<1>7. CASE UNCHANGED vars
  BY <1>7 DEF vars, Inv
<1>. QED
  BY <1>1, <1>2, <1>3, <1>4, <1>5, <1>6, <1>7 DEF Next

\* What is made of the documents, and nothing else, is faithful to them.
LEMMA InvFaithful ==
  ASSUME Inv
  PROVE  Faithful
<1>1. ASSUME live.kind = "builder"
      PROVE  Len(live.docs) = Len(held) /\ \A d \in DOMAIN held : Same(live.docs[d], held[d])
  BY <1>1, EnteredParts DEF Inv, Entered
<1>2. ASSUME live.kind = "index" PROVE Agrees(Content(live), held)
  <2>. DEFINE p == PartsOf(Entries(held))
  <2>1. SameParts(live, p)
    BY <1>2, AssembledParts DEF Inv
  <2>2. p = [ dim |-> Dim, metric |-> Metric, embedder_id |-> EmbedderId,
              meta |-> Metadata(held), dense |-> Vectors(held), edges |-> Outlinks(held),
              bm25 |-> Build(Terms(held)) ]
    BY SevenParts DEF Inv
  <2>. HIDE DEF p
  <2>3. Content(live) = p
    BY <2>1, <2>2, SameContent DEF SameParts
  <2>. QED
    BY <2>3 DEF Agrees, Entries, p
<1>3. ASSUME file # NoFile
      PROVE  /\ Parse(file).ok = \A kind \in DOMAIN file.sections : Decompresses(file.sections[kind])
             /\ Parse(file).ok => Agrees(Content(Parse(file)), filed)
             /\ Len(filed) = 1 => Framed(file.sections["DocMeta"].data)
  <2>1. Corpus(filed) /\ file = Filed(filed)
    BY <1>3 DEF Inv
  <2>2. /\ Parse(file).ok = \A kind \in DOMAIN file.sections : Decompresses(file.sections[kind])
        /\ Parse(file).ok => Content(Parse(file)) = PartsOf(Entries(filed))
        /\ Framed(file.sections["DocMeta"].data)
    BY <2>1, FileBack
  <2>. QED
    BY <2>2 DEF Agrees, Entries
<1>. QED
  BY <1>1, <1>2, <1>3 DEF Faithful

(***************************************************************************)
(* The tiers of every index there is.                                      *)
(***************************************************************************)

\* The tiers are exact over the vectors of the documents.
LEMMA InvTiers ==
  ASSUME Inv
  PROVE  TiersExact
<1>. SUFFICES ASSUME live.kind = "index", held # <<>>, NEW q \in DOMAIN Queries, NEW k \in 1..2
     PROVE  LET query == Queries[q].vector
                n == Len(held)
                exact(d) == Dot(query, held[d].vector)
                stored(d) == Int8Row(live.dense[d])
                differ(d) == Cardinality({i \in 1..Dim :
                               (query[i] >= 0) # (held[d].vector[i] >= 0)})
                Nearer(d) == Cardinality({e \in DOMAIN held :
                               differ(e) < differ(d) \/ (differ(e) = differ(d) /\ e < d)})
            IN /\ TwoTier(query, live.dense, Dim, n, k)
                    = TopK(query, live.dense, Dim, k, "dot", <<>>)
               /\ TwoTier(query, live.dense, Dim, 1, k)
                    = Sorted({Scored(d, exact(d)) : d \in {e \in DOMAIN held : Nearer(e) < k}})
               /\ \A d \in DOMAIN held :
                    2 * Abs(Int8Dot(stored(d), query) - 127 * exact(d))
                      <= stored(d).scale[1] * SumFunction([i \in DOMAIN query |-> Abs(query[i])])
  BY DEF TiersExact
<1>. DEFINE query == Queries[q].vector
            n == Len(held)
            rows == live.dense
            exact(d) == Dot(query, held[d].vector)
            stored(d) == Int8Row(live.dense[d])
            differ(d) == Cardinality({i \in 1..Dim :
                           (query[i] >= 0) # (held[d].vector[i] >= 0)})
            Nearer(d) == Cardinality({e \in DOMAIN held :
                           differ(e) < differ(d) \/ (differ(e) = differ(d) /\ e < d)})
            away(d) == Cardinality(Differ(query, rows[d]))
            Closer(d) == {e \in 1..n : away(e) < away(d) \/ (away(e) = away(d) /\ e < d)}
<1>1. /\ Dim \in Nat \ {0} /\ query \in [1..Dim -> Int] /\ k \in Nat \ {0}
      /\ DOMAIN query = 1..Dim
  BY IndexAssumption DEF Vector
<1>2. n \in Nat /\ DOMAIN held = 1..n
  BY Columned DEF Inv
<1>3. rows \in [1..n -> [1..Dim -> Int]] /\ \A d \in 1..n : rows[d] = held[d].vector
  <2>. DEFINE p == PartsOf(Entries(held))
  <2>1. SameParts(live, p)
    BY AssembledParts DEF Inv
  <2>2. p.dense = Vectors(held)
    <3>1. p = [ dim |-> Dim, metric |-> Metric, embedder_id |-> EmbedderId,
                meta |-> Metadata(held), dense |-> Vectors(held), edges |-> Outlinks(held),
                bm25 |-> Build(Terms(held)) ]
      BY SevenParts DEF Inv
    <3>. HIDE DEF p
    <3>. QED
      BY <3>1
  <2>3. rows = Vectors(held)
    BY <2>1, <2>2 DEF SameParts
  <2>4. Vectors(held) \in [1..n -> [1..Dim -> Int]]
    BY Columned DEF Inv
  <2>5. \A d \in 1..n : Vectors(held)[d] = held[d].vector
    BY DEF Vectors
  <2>. HIDE DEF n, rows
  <2>. QED
    BY <2>3, <2>4, <2>5
<1>4. \A d \in 1..n : /\ exact(d) = Dot(query, rows[d])
                      /\ differ(d) = away(d)
                      /\ stored(d) = Int8Row(rows[d])
  <2>. SUFFICES ASSUME NEW d \in 1..n
                PROVE  /\ exact(d) = Dot(query, rows[d])
                       /\ differ(d) = away(d)
                       /\ stored(d) = Int8Row(rows[d])
    OBVIOUS
  <2>1. rows[d] = held[d].vector /\ DOMAIN rows[d] = 1..Dim
    BY <1>3
  <2>. QED
    BY <2>1 DEF Differ
<1>. HIDE DEF query, n, rows, differ, away
<1>5. \A d \in 1..n : Nearer(d) = Cardinality(Closer(d))
  <2>. SUFFICES ASSUME NEW d \in 1..n PROVE Nearer(d) = Cardinality(Closer(d))
    OBVIOUS
  <2>1. {e \in DOMAIN held : differ(e) < differ(d) \/ (differ(e) = differ(d) /\ e < d)} = Closer(d)
    BY <1>2, <1>4
  <2>. QED
    BY <2>1
<1>6. /\ TwoTier(query, rows, Dim, n, k) = TopK(query, rows, Dim, k, "dot", <<>>)
      /\ TwoTier(query, rows, Dim, 1, k)
           = Sorted({Scored(d, Dot(query, rows[d])) :
                       d \in {e \in 1..n : Cardinality(Closer(e)) < k}})
  <2>1. TiersAreExact(query, rows, Dim, n, k)
    BY <1>1, <1>2, <1>3, TwoTiers
  <2>. QED
    BY <2>1 DEF TiersAreExact, away
<1>7. {Scored(d, Dot(query, rows[d])) : d \in {e \in 1..n : Cardinality(Closer(e)) < k}}
        = {Scored(d, exact(d)) : d \in {e \in DOMAIN held : Nearer(e) < k}}
  <2>. HIDE DEF Closer, Nearer, exact
  <2>. DEFINE C == {e \in 1..n : Cardinality(Closer(e)) < k}
              N == {e \in DOMAIN held : Nearer(e) < k}
  <2>1. C = N /\ C \subseteq 1..n
    BY <1>2, <1>5
  <2>. HIDE DEF C, N
  <2>2. \A d \in C : Scored(d, Dot(query, rows[d])) = Scored(d, exact(d))
    BY <1>4, <2>1
  <2>3. {Scored(d, Dot(query, rows[d])) : d \in C} = {Scored(d, exact(d)) : d \in N}
    BY <2>1, <2>2
  <2>. QED
    BY <2>3 DEF C, N
<1>8. ASSUME NEW d \in DOMAIN held
      PROVE  2 * Abs(Int8Dot(stored(d), query) - 127 * exact(d))
               <= stored(d).scale[1] * SumFunction([i \in DOMAIN query |-> Abs(query[i])])
  <2>1. d \in 1..n /\ rows[d] \in [1..Dim -> Int]
    BY <1>2, <1>3
  <2>2. 2 * Abs(Int8Dot(Int8Row(rows[d]), query) - 127 * Dot(query, rows[d]))
           <= Int8Row(rows[d]).scale[1] * SumFunction([i \in 1..Dim |-> Abs(query[i])])
    BY <1>1, <2>1, EightBits
  <2>3. exact(d) = Dot(query, rows[d]) /\ stored(d) = Int8Row(rows[d])
    BY <1>4, <2>1
  <2>. HIDE DEF exact, stored
  <2>. QED
    BY <1>1, <2>2, <2>3
<1>. QED
  <2>1. TwoTier(query, rows, Dim, 1, k)
          = Sorted({Scored(d, exact(d)) : d \in {e \in DOMAIN held : Nearer(e) < k}})
    BY <1>6, <1>7
  <2>2. TwoTier(query, rows, Dim, n, k) = TopK(query, rows, Dim, k, "dot", <<>>)
    BY <1>6
  <2>. QED
    BY <1>8, <2>1, <2>2 DEF query, n, rows, differ

\* However an index came about, through every sequence of changes, freezing,
\* thawing, saving and opening: what it is made of, and the file, are the
\* documents put into it, and nothing else (IndexBuilder, Index::serialize,
\* parse, into_builder).
THEOREM DocumentsKept == Spec => []Inv
<1>. QED
  BY InitInv, NextInv, PTL DEF Spec

\* What is promised of the contents holds of every one of them: an entry per
\* document, an index and an opened file with the columns of the documents, and
\* a file that opens exactly when its sections unpack (index/mod.rs).
THEOREM AlwaysFaithful == Spec => []Faithful
<1>. QED
  BY InvFaithful, DocumentsKept, PTL

\* However an index came about: a shortlist as long as the corpus gives the
\* exact answer, a shorter one the exact order of the documents nearest in sign,
\* and bytes keep a product within half a step per component (index/quant.rs).
THEOREM TiersAlwaysExact == Spec => []TiersExact
<1>. QED
  BY InvTiers, DocumentsKept, PTL

(***************************************************************************)
(* Related pages.                                                          *)
(***************************************************************************)

\* Points of every page there could be.
Points == [Nat -> Nat]

\* They as a table of scores: pages without points are not in it.
Tallied(g) == [t \in {u \in Nat : g[u] # 0} |-> g[t]]

\* Points are added to a page that may or may not have some.
LEMMA PointsAdded ==
  ASSUME NEW g \in Points, NEW t \in Nat, NEW v \in Nat \ {0}
  PROVE  /\ AddTo(Tallied(g), t, v) = Tallied([u \in Nat |-> IF u = t THEN g[u] + v ELSE g[u]])
         /\ [u \in Nat |-> IF u = t THEN g[u] + v ELSE g[u]] \in Points
<1>. DEFINE after == [u \in Nat |-> IF u = t THEN g[u] + v ELSE g[u]]
            f == Tallied(g)
            D == {u \in Nat : g[u] # 0}
            E == {u \in Nat : after[u] # 0}
<1>0. after \in Points /\ \A u \in Nat : g[u] \in Nat
  BY DEF Points
<1>1. f = [u \in D |-> g[u]] /\ DOMAIN f = D
  BY DEF Tallied
<1>2. E = D \cup {t}
  BY <1>0
<1>3. Tallied(after) = [u \in E |-> after[u]]
  BY DEF Tallied
<1>4. \A u \in Nat : after[u] = IF u = t THEN g[u] + v ELSE g[u]
  OBVIOUS
<1>. SUFFICES AddTo(f, t, v) = Tallied(after)
  BY <1>0
<1>5. CASE t \in D
  <2>1. AddTo(f, t, v) = [f EXCEPT ![t] = @ + v]
    BY <1>1, <1>5 DEF AddTo
  <2>2. E = D
    BY <1>2, <1>5
  <2>. HIDE DEF f, E, after
  <2>3. [f EXCEPT ![t] = @ + v] = [u \in D |-> IF u = t THEN g[u] + v ELSE g[u]]
    BY <1>1, <1>5
  <2>4. \A u \in D : u \in Nat
    OBVIOUS
  <2>. HIDE DEF D
  <2>5. [u \in D |-> IF u = t THEN g[u] + v ELSE g[u]] = [u \in D |-> after[u]]
    BY <1>4, <2>4
  <2>. QED
    BY <1>3, <2>1, <2>2, <2>3, <2>5
<1>6. CASE t \notin D
  <2>1. AddTo(f, t, v) = [j \in DOMAIN f \cup {t} |-> IF j = t THEN v ELSE f[j]]
    BY <1>1, <1>6 DEF AddTo
  <2>2. g[t] = 0
    BY <1>6
  <2>. HIDE DEF f, E, after
  <2>3. \A u \in D \cup {t} : (IF u = t THEN v ELSE f[u]) = after[u]
    BY <1>1, <1>4, <2>2
  <2>. HIDE DEF D
  <2>. QED
    BY <1>1, <1>2, <1>3, <2>1, <2>3
<1>. QED
  BY <1>5, <1>6

\* Before anything is counted, no page has points.
LEMMA NothingTallied ==
  /\ [t \in Nat |-> 0] \in Points
  /\ Tallied([t \in Nat |-> 0]) = NoScores
<1>. DEFINE g == [t \in Nat |-> 0]
            D == {u \in Nat : g[u] # 0}
<1>1. D = {}
  OBVIOUS
<1>2. Tallied(g) = [u \in D |-> g[u]]
  BY DEF Tallied
<1>. HIDE DEF D, g
<1>3. Tallied(g) = NoScores
  BY <1>1, <1>2 DEF NoScores
<1>. QED
  BY <1>3 DEF g, Points

\* A tally counts each page as often as it is in the list.
LEMMA TallyCounts ==
  ASSUME NEW g \in Points, NEW pages \in Seq(Nat), NEW points \in Nat \ {0},
         NEW left_out
  PROVE  Tally(Tallied(g), pages, points, left_out)
           = Tallied([t \in Nat |-> g[t] + (IF t \in left_out THEN 0 ELSE points * Often(pages, t))])
<1>. DEFINE n == Len(pages)
            N == 1..n
            base == Tallied(g)
            V == {Tallied(f) : f \in Points}
            Counting(acc, t) == IF t \in left_out THEN acc ELSE AddTo(acc, t, points)
            op == [p \in N \X V |-> Counting(p[2], pages[p[1]])]
            Body(F) == [s \in SUBSET N |-> IF s = {} THEN base
                                           ELSE Counting(F[s \ {Max(s)}], pages[Max(s)])]
            it == CHOOSE F : F = Body(F)
            after(j) == [t \in Nat |-> g[t] + (IF t \in left_out THEN 0 ELSE points * AmongFirst(pages, j, t))]
<1>1. n \in Nat /\ DOMAIN pages = N /\ \A i \in N : pages[i] \in Nat
  BY LenProperties
<1>0. g = [t \in Nat |-> g[t]] /\ \A t \in Nat : g[t] \in Nat
  BY DEF Points
<1>2. Tally(base, pages, points, left_out) = it[N]
  BY <1>1 DEF Tally, FoldLeft, MapThenFoldSet
<1>3. ASSUME NEW f \in Points, NEW t \in Nat
      PROVE  Counting(Tallied(f), t) \in V
  <2>. DEFINE f2 == [u \in Nat |-> IF u = t THEN f[u] + points ELSE f[u]]
  <2>1. AddTo(Tallied(f), t, points) = Tallied(f2) /\ f2 \in Points
    BY PointsAdded
  <2>. HIDE DEF f2
  <2>. QED
    BY <2>1
<1>4. \A a \in V, t \in Nat : Counting(a, t) \in V
  <2>. SUFFICES ASSUME NEW a \in V, NEW t \in Nat PROVE Counting(a, t) \in V
    OBVIOUS
  <2>1. PICK f \in Points : a = Tallied(f)
    OBVIOUS
  <2>. HIDE DEF V, Counting
  <2>. QED
    BY <1>3, <2>1
<1>. HIDE DEF N, V, Counting
<1>5. base \in V
  BY DEF V
<1>6. /\ op \in [N \X V -> V]
      /\ \A i \in N, a \in V : op[<<i, a>>] = Counting(a, pages[i])
  BY <1>1, <1>4
<1>. HIDE DEF op, base, n
<1>7. PICK h : Chained(n, V, base, op, h)
  BY <1>1, <1>5, <1>6, ChainExists DEF N
<1>8. h = Body(h)
  <2>0. h \in [SUBSET N -> V] /\ h[{}] = base
    BY <1>7 DEF Chained, N
  <2>1. ASSUME NEW s \in (SUBSET N) \ {{}}
        PROVE  h[s] = Counting(h[s \ {Max(s)}], pages[Max(s)])
    <3>1. Max(s) \in N /\ s \ {Max(s)} \in SUBSET N
          /\ h[s] = op[<<Max(s), h[s \ {Max(s)}]>>]
      BY <1>7 DEF Chained, N
    <3>2. h[s \ {Max(s)}] \in V
      BY <2>0, <3>1
    <3>. QED
      BY <1>6, <3>1, <3>2
  <2>2. \A s \in SUBSET N : h[s] = IF s = {} THEN base ELSE Counting(h[s \ {Max(s)}], pages[Max(s)])
    BY <2>0, <2>1
  <2>3. h = [s \in SUBSET N |-> h[s]]
    BY <2>0
  <2>. QED
    BY <2>2, <2>3
<1>9. it = Body(it)
  <2>. HIDE DEF Body
  <2>1. \E F : F = Body(F)
    BY <1>8, Zenon
  <2>. QED
    BY <2>1, Zenon
<1>. HIDE DEF it
<1>10. it[{}] = base
  BY <1>9
<1>11. ASSUME NEW j \in 1..n PROVE it[1..j] = Counting(it[1..(j - 1)], pages[j])
  <2>. DEFINE s == 1..j
  <2>1. s \in (SUBSET N) \ {{}} /\ Max(s) = j /\ s \ {j} = 1..(j - 1)
    BY <1>1, LastOf DEF N
  <2>. HIDE DEF s
  <2>2. it[s] = Counting(it[s \ {Max(s)}], pages[Max(s)])
    BY <1>9, <2>1
  <2>. QED
    BY <2>1, <2>2 DEF s
<1>. DEFINE T == {j \in 0..n : it[1..j] = Tallied(after(j))}
<1>12. 0 \in T
  <2>1. \A t \in Nat : g[t] + (IF t \in left_out THEN 0 ELSE points * AmongFirst(pages, 0, t)) = g[t]
    <3>1. \A t \in Nat : AmongFirst(pages, 0, t) = 0
      BY AmongNext
    <3>2. points * 0 = 0 /\ \A t \in Nat : g[t] \in Nat
      BY <1>0
    <3>. QED
      BY <3>1, <3>2
  <2>2. after(0) = g
    BY <1>0, <2>1
  <2>3. 1..0 = {}
    OBVIOUS
  <2>. HIDE DEF after
  <2>. QED
    BY <1>1, <1>10, <2>2, <2>3 DEF base
<1>. HIDE DEF T
<1>13. ASSUME NEW j \in 0..n, j \in T, j # n PROVE j + 1 \in T
  <2>. DEFINE k == j + 1
              t == pages[k]
  <2>1. k \in 1..n /\ k - 1 = j /\ t \in Nat /\ j \in Nat /\ k \in Nat /\ k # 0
    BY <1>1, <1>13 DEF N
  <2>2. it[1..k] = Counting(Tallied(after(j)), t)
    <3>1. it[1..j] = Tallied(after(j))
      BY <1>13 DEF T
    <3>. HIDE DEF after
    <3>. QED
      BY <1>11, <2>1, <3>1
  <2>. HIDE DEF k, t
  <2>3. ASSUME NEW u \in Nat
        PROVE  /\ AmongFirst(pages, j, u) \in Nat
               /\ AmongFirst(pages, k, u) = AmongFirst(pages, j, u) + (IF u = t THEN 1 ELSE 0)
    <3>1. AmongFirst(pages, j, u) \in Nat
      BY <2>1, AmongNext
    <3>2. CASE u = t
      BY <2>1, <3>1, <3>2, AmongNext DEF t
    <3>3. CASE u # t
      BY <2>1, <3>1, <3>3, AmongNext DEF t
    <3>. QED
      BY <3>2, <3>3
  <2>4. after(j) \in Points
    <3>. DEFINE m(u) == points * AmongFirst(pages, j, u)
    <3>1. \A u \in Nat : g[u] \in Nat /\ m(u) \in Nat
      BY <1>0, <2>3
    <3>. HIDE DEF m
    <3>2. \A u \in Nat : g[u] + (IF u \in left_out THEN 0 ELSE m(u)) \in Nat
      <4>. SUFFICES ASSUME NEW u \in Nat PROVE g[u] + (IF u \in left_out THEN 0 ELSE m(u)) \in Nat
        OBVIOUS
      <4>1. g[u] \in Nat /\ m(u) \in Nat
        BY <3>1
      <4>. QED
        BY <4>1
    <3>3. after(j) = [u \in Nat |-> g[u] + (IF u \in left_out THEN 0 ELSE m(u))]
      BY DEF m
    <3>. HIDE DEF after
    <3>. QED
      BY <3>2, <3>3 DEF Points
  <2>5. CASE t \in left_out
    <3>1. ASSUME NEW u \in Nat
          PROVE  (IF u \in left_out THEN 0 ELSE points * AmongFirst(pages, k, u))
                   = IF u \in left_out THEN 0 ELSE points * AmongFirst(pages, j, u)
      <4>1. CASE u = t
        BY <2>5, <4>1
      <4>2. CASE u # t
        BY <2>3, <4>2
      <4>. QED
        BY <4>1, <4>2
    <3>2. after(k) = after(j)
      BY <3>1
    <3>3. it[1..k] = Tallied(after(j))
      BY <2>2, <2>5 DEF Counting
    <3>. HIDE DEF after
    <3>. QED
      BY <1>1, <2>1, <3>2, <3>3 DEF T, k
  <2>6. CASE t \notin left_out
    <3>. DEFINE f == after(j)
                f2 == [u \in Nat |-> IF u = t THEN f[u] + points ELSE f[u]]
    <3>1. ASSUME NEW u \in Nat
          PROVE  g[u] + (IF u \in left_out THEN 0 ELSE points * AmongFirst(pages, k, u))
                   = IF u = t THEN f[u] + points ELSE f[u]
      <4>1. f[u] = g[u] + (IF u \in left_out THEN 0 ELSE points * AmongFirst(pages, j, u))
        OBVIOUS
      <4>. HIDE DEF f
      <4>2. CASE u = t
        <5>. DEFINE a == AmongFirst(pages, j, u)
        <5>1. a \in Nat /\ AmongFirst(pages, k, u) = a + 1 /\ f[u] = g[u] + points * a
          BY <2>3, <2>6, <4>1, <4>2
        <5>2. g[u] \in Nat
          BY <1>0
        <5>. HIDE DEF a
        <5>3. points * (a + 1) = points * a + points
          BY <5>1
        <5>4. g[u] + points * (a + 1) = f[u] + points
          BY <5>1, <5>2, <5>3
        <5>. QED
          BY <2>6, <4>2, <5>1, <5>4
      <4>3. CASE u # t
        <5>1. AmongFirst(pages, k, u) = AmongFirst(pages, j, u)
          <6>1. AmongFirst(pages, k, u) = AmongFirst(pages, j, u) + 0 /\ AmongFirst(pages, j, u) \in Nat
            BY <2>3, <4>3
          <6>. QED
            BY <6>1
        <5>. QED
          BY <4>1, <4>3, <5>1
      <4>. QED
        BY <4>2, <4>3
    <3>2. after(k) = f2
      BY <3>1
    <3>3. AddTo(Tallied(f), t, points) = Tallied(f2)
      <4>. HIDE DEF f
      <4>1. f \in Points
        BY <2>4 DEF f
      <4>. QED
        BY <2>1, <4>1, PointsAdded
    <3>. HIDE DEF f2
    <3>4. it[1..k] = Tallied(f2)
      BY <2>2, <2>6, <3>3 DEF Counting
    <3>. HIDE DEF after, f
    <3>. QED
      BY <1>1, <2>1, <3>2, <3>4 DEF T, k
  <2>. QED
    BY <2>5, <2>6
<1>14. n \in T
  <2>1. \A j \in 0..n : j \in T /\ j # n => j + 1 \in T
    BY <1>13
  <2>2. \A j \in 0..n : j \in T
    BY <1>1, <1>12, <2>1, UpTo
  <2>. QED
    BY <1>1, <2>2
<1>15. \A t \in Nat : AmongFirst(pages, n, t) = Often(pages, t)
  BY <1>1 DEF AmongFirst, Often, Places, N
<1>16. after(n) = [t \in Nat |-> g[t] + (IF t \in left_out THEN 0 ELSE points * Often(pages, t))]
  BY <1>15
<1>17. it[N] = Tallied(after(n))
  BY <1>14 DEF T, N
<1>. HIDE DEF after
<1>. QED
  BY <1>2, <1>16, <1>17 DEF base

\* How often a page is linked to by the first j of a list of parents.
LinksShared(m, out, inc, j, t) == [p \in 1..m |-> AmongFirst(inc, j, p) * Often(out[p], t)]
SharedBy(m, out, inc, j, t) == SumFunction(LinksShared(m, out, inc, j, t))

\* The parents of a page: documents, each with a list of links.
Linking(m, out, inc) == m \in Nat /\ out \in [1..m -> Seq(Nat)] /\ inc \in Seq(1..m)

\* One more parent adds its own links.
LEMMA SharedNext ==
  ASSUME NEW m, NEW out, NEW inc, Linking(m, out, inc), NEW j \in 0..Len(inc), NEW t
  PROVE  /\ SharedBy(m, out, inc, j, t) \in Nat
         /\ SharedBy(m, out, inc, 0, t) = 0
         /\ j # 0 => SharedBy(m, out, inc, j, t)
                       = SharedBy(m, out, inc, j - 1, t) + Often(out[inc[j]], t)
<1>. DEFINE S(i) == LinksShared(m, out, inc, i, t)
<1>1. m \in Nat /\ IsFiniteSet(1..m) /\ j \in Nat
  BY LenProperties, FS_Interval DEF Linking
<1>2. \A p \in 1..m : Often(out[p], t) \in Nat
  <2>. SUFFICES ASSUME NEW p \in 1..m PROVE Often(out[p], t) \in Nat
    OBVIOUS
  <2>1. out[p] \in Seq(Nat)
    BY DEF Linking
  <2>. QED
    BY <2>1, OftenNat
<1>3. ASSUME NEW i \in Nat
      PROVE  /\ S(i) \in [1..m -> Nat]
             /\ \A p \in 1..m : S(i)[p] = AmongFirst(inc, i, p) * Often(out[p], t)
  <2>1. \A p \in 1..m : AmongFirst(inc, i, p) \in Nat
    BY AmongNext
  <2>2. \A p \in 1..m : AmongFirst(inc, i, p) * Often(out[p], t) \in Nat
    BY <1>2, <2>1
  <2>. QED
    BY <2>2 DEF LinksShared
<1>. HIDE DEF S
<1>4. \A i \in Nat : SumFunction(S(i)) \in Nat
  BY <1>1, <1>3, SumNat
<1>5. SumFunction(S(0)) = 0
  <2>1. \A p \in 1..m : S(0)[p] = 0
    <3>. SUFFICES ASSUME NEW p \in 1..m PROVE S(0)[p] = 0
      OBVIOUS
    <3>1. AmongFirst(inc, 0, p) = 0
      BY AmongNext
    <3>2. S(0)[p] = AmongFirst(inc, 0, p) * Often(out[p], t)
      BY <1>3
    <3>. QED
      BY <1>2, <3>1, <3>2
  <2>2. S(0) \in [1..m -> Nat]
    BY <1>3
  <2>. QED
    BY <1>1, <2>1, <2>2, SumNothing
<1>6. ASSUME j # 0 PROVE SumFunction(S(j)) = SumFunction(S(j - 1)) + Often(out[inc[j]], t)
  <2>. DEFINE x == inc[j]
              v == Often(out[x], t)
              f == S(j - 1)
              h == S(j)
  <2>1. x \in 1..m /\ j - 1 \in Nat
    <3>1. j \in 1..Len(inc) /\ inc \in [1..Len(inc) -> 1..m]
      BY <1>6, LenProperties DEF Linking
    <3>. QED
      BY <1>1, <1>6, <3>1
  <2>2. v \in Nat
    BY <1>2, <2>1
  <2>3. f \in [1..m -> Nat] /\ h \in [1..m -> Nat]
    BY <1>1, <1>3, <2>1
  <2>4. ASSUME NEW p \in 1..m PROVE h[p] = IF p = x THEN f[p] + v ELSE f[p]
    <3>. DEFINE a == AmongFirst(inc, j - 1, p)
                b == Often(out[p], t)
    <3>1. a \in Nat /\ b \in Nat
      BY <1>2, <2>1, AmongNext
    <3>2. f[p] = a * b /\ h[p] = AmongFirst(inc, j, p) * b
      BY <1>1, <1>3, <2>1
    <3>3. CASE p = x
      <4>1. AmongFirst(inc, j, p) = a + 1
        BY <1>1, <1>6, <3>3, AmongNext
      <4>2. b = v
        BY <3>3
      <4>. HIDE DEF a, b, v, f, h, x
      <4>3. (a + 1) * b = a * b + b
        BY <3>1
      <4>. QED
        BY <3>2, <3>3, <4>1, <4>2, <4>3
    <3>4. CASE p # x
      <4>1. AmongFirst(inc, j, p) = a
        BY <1>1, <1>6, <3>4, AmongNext
      <4>. QED
        BY <3>2, <3>4, <4>1
    <3>. QED
      BY <3>3, <3>4
  <2>. HIDE DEF f, h, x, v
  <2>5. Grows(1..m, f, h, x, v)
    BY <1>1, <2>1, <2>2, <2>3, <2>4 DEF Grows
  <2>6. SumFunction(h) = SumFunction(f) + v
    BY <2>5, SumGrows
  <2>. QED
    BY <2>6 DEF f, h, x, v
<1>. QED
  BY <1>1, <1>4, <1>5, <1>6 DEF SharedBy, S

\* What the first j parents add to points that pages already have.
AfterParents(g, m, out, inc, left_out, j) ==
  [t \in Nat |-> g[t] + (IF t \in left_out THEN 0 ELSE SharedBy(m, out, inc, j, t))]

\* They are points.
LEMMA AfterType ==
  ASSUME NEW g \in Points, NEW m, NEW out, NEW inc, Linking(m, out, inc), NEW left_out,
         NEW j \in 0..Len(inc)
  PROVE  AfterParents(g, m, out, inc, left_out, j) \in Points
<1>1. \A t : SharedBy(m, out, inc, j, t) \in Nat
  BY SharedNext
<1>2. ASSUME NEW t \in Nat
      PROVE  g[t] + (IF t \in left_out THEN 0 ELSE SharedBy(m, out, inc, j, t)) \in Nat
  <2>1. g[t] \in Nat /\ SharedBy(m, out, inc, j, t) \in Nat
    BY <1>1 DEF Points
  <2>. QED
    BY <2>1
<1>. QED
  BY <1>2 DEF AfterParents, Points

\* One more parent is tallied.
LEMMA AfterNext ==
  ASSUME NEW g \in Points, NEW m, NEW out, NEW inc, Linking(m, out, inc), NEW left_out,
         NEW j \in 1..Len(inc)
  PROVE  Tally(Tallied(AfterParents(g, m, out, inc, left_out, j - 1)), out[inc[j]], 1, left_out)
           = Tallied(AfterParents(g, m, out, inc, left_out, j))
<1>. DEFINE f == AfterParents(g, m, out, inc, left_out, j - 1)
            pages == out[inc[j]]
            after == [t \in Nat |-> f[t] + (IF t \in left_out THEN 0 ELSE 1 * Often(pages, t))]
<1>1. j \in Nat /\ j # 0 /\ j \in 0..Len(inc) /\ j - 1 \in 0..Len(inc)
  BY LenProperties DEF Linking
<1>2. pages \in Seq(Nat)
  <2>1. inc[j] \in 1..m
    BY LenProperties DEF Linking
  <2>. QED
    BY <2>1 DEF Linking
<1>3. f \in Points
  BY <1>1, AfterType
<1>4. \A t \in Nat : f[t] = g[t] + (IF t \in left_out THEN 0 ELSE SharedBy(m, out, inc, j - 1, t))
  BY DEF AfterParents
<1>5. ASSUME NEW t \in Nat
      PROVE  g[t] + (IF t \in left_out THEN 0 ELSE SharedBy(m, out, inc, j, t)) = after[t]
  <2>1. /\ SharedBy(m, out, inc, j - 1, t) \in Nat
        /\ SharedBy(m, out, inc, j, t) = SharedBy(m, out, inc, j - 1, t) + Often(pages, t)
    BY <1>1, SharedNext
  <2>2. Often(pages, t) \in Nat /\ g[t] \in Nat
    <3>1. Often(pages, t) \in Nat
      BY <1>2, OftenNat
    <3>2. g[t] \in Nat
      BY DEF Points
    <3>. QED
      BY <3>1, <3>2
  <2>. HIDE DEF f, pages
  <2>3. after[t] = f[t] + (IF t \in left_out THEN 0 ELSE 1 * Often(pages, t))
    OBVIOUS
  <2>. HIDE DEF after
  <2>4. CASE t \in left_out
    BY <1>4, <2>2, <2>3, <2>4
  <2>5. CASE t \notin left_out
    BY <1>4, <2>1, <2>2, <2>3, <2>5
  <2>. QED
    BY <2>4, <2>5
<1>6. AfterParents(g, m, out, inc, left_out, j) = after
  <2>. HIDE DEF f, pages
  <2>1. after = [t \in Nat |-> after[t]]
    OBVIOUS
  <2>. HIDE DEF after
  <2>. QED
    BY <1>5, <2>1 DEF AfterParents
<1>7. Tally(Tallied(f), pages, 1, left_out) = Tallied(after)
  <2>. HIDE DEF f, pages
  <2>1. 1 \in Nat \ {0}
    OBVIOUS
  <2>. QED
    BY <1>2, <1>3, <2>1, TallyCounts
<1>. QED
  BY <1>6, <1>7

\* The parents of a page are tallied one after the other.
WithParents(scores, out, inc, left_out) ==
  LET FromParent(acc, p) == Tally(acc, out[p], 1, left_out)
  IN FoldLeft(FromParent, scores, inc)

\* What a fold over the parents counts.
LEMMA ParentsTallied ==
  ASSUME NEW m, NEW out, NEW inc, Linking(m, out, inc), NEW g \in Points, NEW left_out
  PROVE  WithParents(Tallied(g), out, inc, left_out)
           = Tallied(AfterParents(g, m, out, inc, left_out, Len(inc)))
<1>. DEFINE n == Len(inc)
            N == 1..n
            base == Tallied(g)
            V == {Tallied(f) : f \in Points}
            FromParent(scores, p) == Tally(scores, out[p], 1, left_out)
            op == [p \in N \X V |-> FromParent(p[2], inc[p[1]])]
            Body(F) == [s \in SUBSET N |-> IF s = {} THEN base
                                           ELSE FromParent(F[s \ {Max(s)}], inc[Max(s)])]
            it == CHOOSE F : F = Body(F)
            after(j) == AfterParents(g, m, out, inc, left_out, j)
<1>1. n \in Nat /\ DOMAIN inc = N /\ \A i \in N : inc[i] \in 1..m
  BY LenProperties DEF Linking
<1>2. WithParents(base, out, inc, left_out) = it[N]
  BY <1>1 DEF WithParents, FoldLeft, MapThenFoldSet
<1>3. ASSUME NEW f \in Points, NEW p \in 1..m
      PROVE  FromParent(Tallied(f), p) \in V
  <2>. DEFINE pages == out[p]
              f2 == [t \in Nat |-> f[t] + (IF t \in left_out THEN 0 ELSE 1 * Often(pages, t))]
  <2>1. pages \in Seq(Nat)
    BY DEF Linking
  <2>2. f2 \in Points
    <3>1. ASSUME NEW t \in Nat
          PROVE  f[t] + (IF t \in left_out THEN 0 ELSE 1 * Often(pages, t)) \in Nat
      <4>1. f[t] \in Nat /\ Often(pages, t) \in Nat
        <5>1. Often(pages, t) \in Nat
          BY <2>1, OftenNat
        <5>2. f[t] \in Nat
          BY DEF Points
        <5>. QED
          BY <5>1, <5>2
      <4>. HIDE DEF pages
      <4>. QED
        BY <4>1
    <3>. HIDE DEF pages
    <3>. QED
      BY <3>1 DEF Points
  <2>3. Tally(Tallied(f), pages, 1, left_out) = Tallied(f2)
    <3>. HIDE DEF pages
    <3>1. 1 \in Nat \ {0}
      OBVIOUS
    <3>. QED
      BY <2>1, <3>1, TallyCounts
  <2>. HIDE DEF f2
  <2>. QED
    BY <2>2, <2>3
<1>4. \A a \in V, p \in 1..m : FromParent(a, p) \in V
  <2>. SUFFICES ASSUME NEW a \in V, NEW p \in 1..m PROVE FromParent(a, p) \in V
    OBVIOUS
  <2>1. PICK f \in Points : a = Tallied(f)
    OBVIOUS
  <2>. HIDE DEF V, FromParent
  <2>. QED
    BY <1>3, <2>1
<1>. HIDE DEF N, V, FromParent
<1>5. base \in V
  BY DEF V
<1>6. /\ op \in [N \X V -> V]
      /\ \A i \in N, a \in V : op[<<i, a>>] = FromParent(a, inc[i])
  BY <1>1, <1>4
<1>. HIDE DEF op, base, n
<1>7. PICK h : Chained(n, V, base, op, h)
  BY <1>1, <1>5, <1>6, ChainExists DEF N
<1>8. h = Body(h)
  <2>0. h \in [SUBSET N -> V] /\ h[{}] = base
    BY <1>7 DEF Chained, N
  <2>1. ASSUME NEW s \in (SUBSET N) \ {{}}
        PROVE  h[s] = FromParent(h[s \ {Max(s)}], inc[Max(s)])
    <3>1. Max(s) \in N /\ s \ {Max(s)} \in SUBSET N
          /\ h[s] = op[<<Max(s), h[s \ {Max(s)}]>>]
      BY <1>7 DEF Chained, N
    <3>2. h[s \ {Max(s)}] \in V
      BY <2>0, <3>1
    <3>. QED
      BY <1>6, <3>1, <3>2
  <2>2. \A s \in SUBSET N : h[s] = IF s = {} THEN base ELSE FromParent(h[s \ {Max(s)}], inc[Max(s)])
    BY <2>0, <2>1
  <2>3. h = [s \in SUBSET N |-> h[s]]
    BY <2>0
  <2>. QED
    BY <2>2, <2>3
<1>9. it = Body(it)
  <2>. HIDE DEF Body
  <2>1. \E F : F = Body(F)
    BY <1>8, Zenon
  <2>. QED
    BY <2>1, Zenon
<1>. HIDE DEF it
<1>10. it[{}] = base
  BY <1>9
<1>11. ASSUME NEW j \in 1..n PROVE it[1..j] = FromParent(it[1..(j - 1)], inc[j])
  <2>. DEFINE s == 1..j
  <2>1. s \in (SUBSET N) \ {{}} /\ Max(s) = j /\ s \ {j} = 1..(j - 1)
    BY <1>1, LastOf DEF N
  <2>. HIDE DEF s
  <2>2. it[s] = FromParent(it[s \ {Max(s)}], inc[Max(s)])
    BY <1>9, <2>1
  <2>. QED
    BY <2>1, <2>2 DEF s
<1>. HIDE DEF after
<1>. DEFINE T == {j \in 0..n : it[1..j] = Tallied(after(j))}
<1>12. 0 \in T
  <2>1. \A t \in Nat : g[t] + (IF t \in left_out THEN 0 ELSE SharedBy(m, out, inc, 0, t)) = g[t]
    <3>1. \A t : SharedBy(m, out, inc, 0, t) = 0
      BY <1>1, SharedNext DEF n
    <3>2. \A t \in Nat : g[t] \in Nat
      BY DEF Points
    <3>. QED
      BY <3>1, <3>2
  <2>2. after(0) = g
    <3>1. g = [t \in Nat |-> g[t]]
      BY DEF Points
    <3>. QED
      BY <2>1, <3>1 DEF after, AfterParents
  <2>3. 1..0 = {}
    OBVIOUS
  <2>. QED
    BY <1>1, <1>10, <2>2, <2>3 DEF base
<1>. HIDE DEF T
<1>13. ASSUME NEW j \in 0..n, j \in T, j # n PROVE j + 1 \in T
  <2>. DEFINE k == j + 1
  <2>1. k \in 1..n /\ k - 1 = j /\ k \in 0..n
    BY <1>1, <1>13
  <2>2. it[1..j] = Tallied(after(j))
    BY <1>13 DEF T
  <2>. HIDE DEF k
  <2>3. it[1..k] = FromParent(Tallied(after(j)), inc[k])
    BY <1>11, <2>1, <2>2
  <2>4. FromParent(Tallied(after(k - 1)), inc[k]) = Tallied(after(k))
    BY <2>1, AfterNext DEF FromParent, after, n
  <2>5. k \in T
    BY <2>1, <2>3, <2>4 DEF T
  <2>. QED
    BY <2>5 DEF k
<1>14. n \in T
  <2>1. \A j \in 0..n : j \in T /\ j # n => j + 1 \in T
    BY <1>13
  <2>2. \A j \in 0..n : j \in T
    BY <1>1, <1>12, <2>1, UpTo
  <2>. QED
    BY <1>1, <2>2
<1>15. it[N] = Tallied(after(n))
  BY <1>14 DEF T, N
<1>. QED
  BY <1>2, <1>15 DEF base, after, n

\* Documents with their links, their keys, and where a key leads.
Keyed(n, edges, keys, by_url) ==
  /\ n \in Nat /\ edges \in [1..n -> Seq(Nat)]
  /\ DOMAIN by_url = {keys[d] : d \in 1..n}
  /\ \A d \in 1..n : by_url[keys[d]] = d

\* How many links of document d have the key of another document e.
LinksTo(edges, keys, d, e) == IF d = e THEN 0 ELSE Often(edges[d], keys[e])

\* The links of a document that lead to another one.
OutOf(edges, by_url, src) ==
  FlattenSeq([i \in DOMAIN edges[src] |->
    IF edges[src][i] \in DOMAIN by_url /\ by_url[edges[src][i]] \in DOMAIN edges
         /\ by_url[edges[src][i]] # src
      THEN <<by_url[edges[src][i]]>> ELSE <<>>])

\* Each of them is as often among the resolved links as its key among the keys.
LEMMA OutOften ==
  ASSUME NEW n, NEW edges, NEW keys, NEW by_url, Keyed(n, edges, keys, by_url),
         NEW src \in 1..n
  PROVE  /\ OutOf(edges, by_url, src) \in Seq(Nat)
         /\ \A t : Often(OutOf(edges, by_url, src), t)
                     = IF t \in 1..n THEN LinksTo(edges, keys, src, t) ELSE 0
<1>. DEFINE es == edges[src]
            m == Len(es)
            Lives(k) == k \in DOMAIN by_url /\ by_url[k] \in DOMAIN edges /\ by_url[k] # src
            part(i) == IF Lives(es[i]) THEN <<by_url[es[i]]>> ELSE <<>>
            parts == [i \in 1..m |-> part(i)]
            hit(i, t) == t \in 1..n /\ t # src /\ es[i] = keys[t]
            hits(j, t) == IF t \in 1..n /\ t # src THEN AmongFirst(es, j, keys[t]) ELSE 0
<1>1. /\ n \in Nat /\ DOMAIN edges = 1..n /\ es \in Seq(Nat)
      /\ DOMAIN by_url = {keys[d] : d \in 1..n}
      /\ \A d \in 1..n : by_url[keys[d]] = d
  BY DEF Keyed
<1>2. m \in Nat /\ DOMAIN es = 1..m
  BY <1>1, LenProperties
<1>3. OutOf(edges, by_url, src) = FlattenSeq(parts)
  BY <1>2 DEF OutOf
<1>. HIDE DEF es, m
<1>4. ASSUME NEW i \in 1..m
      PROVE  /\ part(i) \in Seq(Nat)
             /\ \A t : Often(part(i), t) = IF hit(i, t) THEN 1 ELSE 0
  <2>1. CASE Lives(es[i])
    <3>. DEFINE v == by_url[es[i]]
    <3>1. v \in 1..n /\ v \in Nat /\ v # src /\ es[i] = keys[v]
      BY <1>1, <2>1
    <3>2. part(i) = <<v>>
      BY <2>1
    <3>3. \A t : hit(i, t) <=> t = v
      <4>1. ASSUME NEW t, hit(i, t) PROVE t = v
        BY <1>1, <4>1
      <4>. QED
        BY <3>1, <4>1
    <3>. HIDE DEF v, part, hit
    <3>4. \A t : <<v>> \in Seq(Nat) /\ Often(<<v>>, t) = IF t = v THEN 1 ELSE 0
      BY <3>1, OftenOne
    <3>. QED
      BY <3>2, <3>3, <3>4
  <2>2. CASE ~Lives(es[i])
    <3>1. part(i) = <<>>
      BY <2>2
    <3>2. \A t : ~hit(i, t)
      BY <1>1, <2>2
    <3>. HIDE DEF part, hit
    <3>3. \A t : <<>> \in Seq(Nat) /\ Often(<<>>, t) = 0
      <4>1. 0 \in Nat
        OBVIOUS
      <4>. QED
        BY <4>1, OftenOne
    <3>. QED
      BY <3>1, <3>2, <3>3
  <2>. QED
    BY <2>1, <2>2
<1>. HIDE DEF part
<1>5. parts \in [1..m -> Seq(Nat)] /\ \A i \in 1..m : parts[i] = part(i)
  BY <1>4
<1>. HIDE DEF parts
<1>6. PICK P : Joined(m, Nat, parts, P) /\ FlattenSeq(parts) = P[m]
  BY <1>2, <1>5, Flattened
<1>7. /\ P[0] = <<>> /\ \A j \in 0..m : P[j] \in Seq(Nat)
      /\ \A j \in 1..m : P[j] = P[j - 1] \o parts[j]
  BY <1>6 DEF Joined
<1>. DEFINE Full(j) == \A t : Often(P[j], t) = hits(j, t)
            T == {j \in 0..m : Full(j)}
<1>8. 0 \in T
  <2>1. ASSUME NEW t PROVE Often(P[0], t) = hits(0, t)
    <3>1. Often(<<>>, t) = 0
      <4>1. 0 \in Nat
        OBVIOUS
      <4>. QED
        BY <4>1, OftenOne
    <3>2. AmongFirst(es, 0, keys[t]) = 0
      BY AmongNext
    <3>. QED
      BY <1>7, <3>1, <3>2
  <2>. HIDE DEF hits
  <2>. QED
    BY <1>2, <2>1
<1>. HIDE DEF hit, hits
<1>9. ASSUME NEW j \in 0..m, j \in T, j # m PROVE j + 1 \in T
  <2>. DEFINE k == j + 1
  <2>1. k \in 1..m /\ k - 1 = j /\ k \in 0..m /\ j \in Nat /\ k \in Nat /\ k # 0
    BY <1>2, <1>9
  <2>2. P[k] = P[j] \o parts[k] /\ P[j] \in Seq(Nat) /\ parts[k] \in Seq(Nat)
    BY <1>5, <1>7, <2>1
  <2>. HIDE DEF k
  <2>3. ASSUME NEW t PROVE Often(P[k], t) = hits(k, t)
    <3>1. Often(P[k], t) = Often(P[j], t) + Often(parts[k], t)
      BY <2>2, OftenJoined
    <3>2. Often(parts[k], t) = IF hit(k, t) THEN 1 ELSE 0
      BY <1>4, <1>5, <2>1
    <3>3. Often(P[j], t) = hits(j, t)
      BY <1>9
    <3>4. hits(k, t) = hits(j, t) + (IF hit(k, t) THEN 1 ELSE 0)
      <4>1. CASE t \in 1..n /\ t # src
        <5>. DEFINE a == AmongFirst(es, j, keys[t])
                    b == AmongFirst(es, k, keys[t])
        <5>1. a \in Nat /\ b \in Nat
          BY <2>1, AmongNext
        <5>2. hits(j, t) = a /\ hits(k, t) = b /\ (hit(k, t) <=> es[k] = keys[t])
          BY <4>1 DEF hit, hits
        <5>3. (es[k] = keys[t] => b = a + 1) /\ (es[k] # keys[t] => b = a)
          BY <2>1, AmongNext
        <5>. HIDE DEF a, b
        <5>4. CASE es[k] = keys[t]
          BY <5>1, <5>2, <5>3, <5>4
        <5>5. CASE es[k] # keys[t]
          BY <5>1, <5>2, <5>3, <5>5
        <5>. QED
          BY <5>4, <5>5
      <4>2. CASE ~(t \in 1..n /\ t # src)
        BY <4>2 DEF hit, hits
      <4>. QED
        BY <4>1, <4>2
    <3>. QED
      BY <3>1, <3>2, <3>3, <3>4
  <2>4. k \in T
    BY <2>1, <2>3
  <2>. QED
    BY <2>4 DEF k
<1>10. m \in T
  <2>. HIDE DEF T
  <2>1. \A j \in 0..m : j \in T /\ j # m => j + 1 \in T
    BY <1>9
  <2>2. \A j \in 0..m : j \in T
    BY <1>2, <1>8, <2>1, UpTo
  <2>. QED
    BY <1>2, <2>2
<1>11. P[m] \in Seq(Nat)
  BY <1>2, <1>7
<1>12. ASSUME NEW t
       PROVE  Often(P[m], t) = IF t \in 1..n THEN LinksTo(edges, keys, src, t) ELSE 0
  <2>1. Often(P[m], t) = hits(m, t)
    BY <1>10
  <2>2. AmongFirst(es, m, keys[t]) = Often(edges[src], keys[t])
    BY <1>2 DEF AmongFirst, Often, Places, es
  <2>. QED
    BY <2>1, <2>2 DEF hits, LinksTo
<1>. QED
  BY <1>3, <1>6, <1>11, <1>12

\* The documents that link to one, each as often as it does.
InTo(n, out, dst) == FlattenSeq([src \in 1..n |-> [i \in 1..Often(out[src], dst) |-> src]])

\* Each document is in it as often as it links there.
LEMMA InOften ==
  ASSUME NEW n \in Nat, NEW out, \A p \in 1..n : out[p] \in Seq(Nat), NEW dst
  PROVE  /\ InTo(n, out, dst) \in Seq(1..n)
         /\ \A p \in 1..n : Often(InTo(n, out, dst), p) = Often(out[p], dst)
<1>. DEFINE k == [j \in 1..n |-> Often(out[j], dst)]
            s == InTo(n, out, dst)
<1>1. \A j \in 1..n : Often(out[j], dst) \in Nat
  BY OftenNat
<1>2. k \in [1..n -> Nat] /\ \A p \in 1..n : k[p] = Often(out[p], dst)
  BY <1>1
<1>3. s = FlattenSeq([j \in 1..n |-> [i \in 1..k[j] |-> j]])
  BY DEF InTo
<1>. HIDE DEF k, s
<1>4. s \in Seq(1..n) /\ \A p \in 1..n : Often(s, p) = k[p]
  BY <1>2, <1>3, EachRepeated
<1>. QED
  BY <1>2, <1>4 DEF s

\* The resolved graph.
LEMMA Resolved ==
  ASSUME NEW n, NEW edges, NEW keys, NEW by_url, Keyed(n, edges, keys, by_url)
  PROVE  LET graph == Resolve(edges, by_url)
         IN \A d \in 1..n :
              /\ graph.out \in [1..n -> Seq(Nat)]
              /\ Linking(n, graph.out, graph.inc[d])
              /\ \A s \in 1..n : \A t : Often(graph.out[s], t)
                     = IF t \in 1..n THEN LinksTo(edges, keys, s, t) ELSE 0
              /\ \A p \in 1..n : Often(graph.inc[d], p) = LinksTo(edges, keys, p, d)
<1>. DEFINE out == [src \in 1..n |-> OutOf(edges, by_url, src)]
            graph == Resolve(edges, by_url)
<1>1. n \in Nat /\ DOMAIN edges = 1..n
  BY DEF Keyed
<1>2. \A s \in 1..n : /\ out[s] \in Seq(Nat)
                      /\ \A t : Often(out[s], t)
                                  = IF t \in 1..n THEN LinksTo(edges, keys, s, t) ELSE 0
  BY OutOften
<1>3. graph.out = out
  BY <1>1 DEF Resolve, OutOf
<1>4. graph.inc = [d \in 1..n |-> InTo(n, out, d)]
  BY <1>1 DEF Resolve, OutOf, InTo, Often, Places
<1>5. out \in [1..n -> Seq(Nat)]
  <2>1. out = [s \in 1..n |-> out[s]]
    OBVIOUS
  <2>. HIDE DEF out
  <2>. QED
    BY <1>2, <2>1
<1>. HIDE DEF out, graph
<1>6. ASSUME NEW d \in 1..n
      PROVE  /\ graph.inc[d] \in Seq(1..n)
             /\ \A p \in 1..n : Often(graph.inc[d], p) = Often(out[p], d)
  BY <1>1, <1>2, <1>4, InOften
<1>7. ASSUME NEW d \in 1..n
      PROVE  /\ graph.out \in [1..n -> Seq(Nat)]
             /\ Linking(n, graph.out, graph.inc[d])
             /\ \A s \in 1..n : \A t : Often(graph.out[s], t)
                    = IF t \in 1..n THEN LinksTo(edges, keys, s, t) ELSE 0
             /\ \A p \in 1..n : Often(graph.inc[d], p) = LinksTo(edges, keys, p, d)
  <2>1. Linking(n, graph.out, graph.inc[d])
    BY <1>1, <1>3, <1>5, <1>6 DEF Linking
  <2>2. \A p \in 1..n : Often(graph.inc[d], p) = LinksTo(edges, keys, p, d)
    BY <1>2, <1>6
  <2>. QED
    BY <1>2, <1>3, <1>5, <2>1, <2>2
<1>. QED
  BY <1>7 DEF graph

\* Two points for each link of d to e, one for each pair of links to both.
PointsOf(n, edges, keys, d, e) ==
  2 * LinksTo(edges, keys, d, e)
    + SumFunction([p \in 1..n |-> LinksTo(edges, keys, p, d) * LinksTo(edges, keys, p, e)])

\* What the graph counts for a document.
LEMMA ScoresCounted ==
  ASSUME NEW n, NEW edges, NEW keys, NEW by_url, Keyed(n, edges, keys, by_url),
         NEW d \in 1..n
  PROVE  /\ RelatedScores(Resolve(edges, by_url), d, {d})
              = [e \in {x \in (1..n) \ {d} : PointsOf(n, edges, keys, d, x) > 0} |->
                   PointsOf(n, edges, keys, d, e)]
         /\ \A e \in 1..n : PointsOf(n, edges, keys, d, e) \in Nat
<1>. DEFINE graph == Resolve(edges, by_url)
            out == graph.out
            inc == graph.inc[d]
            L(p, e) == LinksTo(edges, keys, p, e)
            zero == [t \in Nat |-> 0]
            g == [t \in Nat |-> zero[t] + (IF t \in {} THEN 0 ELSE 2 * Often(out[d], t))]
            F == AfterParents(g, n, out, inc, {d}, Len(inc))
            Pts(e) == PointsOf(n, edges, keys, d, e)
            S(t) == SharedBy(n, out, inc, Len(inc), t)
<1>1. /\ out \in [1..n -> Seq(Nat)] /\ Linking(n, out, inc)
      /\ \A s \in 1..n : \A t : Often(out[s], t) = IF t \in 1..n THEN L(s, t) ELSE 0
      /\ \A p \in 1..n : Often(inc, p) = L(p, d)
  BY Resolved
<1>2. RelatedScores(graph, d, {d}) = WithParents(Tally(NoScores, out[d], 2, {}), out, inc, {d})
  BY DEF RelatedScores, WithParents
<1>. HIDE DEF graph, out, inc
<1>3. /\ n \in Nat /\ IsFiniteSet(1..n) /\ Len(inc) \in Nat /\ Len(inc) \in 0..Len(inc)
      /\ DOMAIN inc = 1..Len(inc)
  <2>1. n \in Nat /\ inc \in Seq(1..n)
    BY <1>1 DEF Linking
  <2>2. IsFiniteSet(1..n)
    BY <2>1, FS_Interval
  <2>3. Len(inc) \in Nat /\ DOMAIN inc = 1..Len(inc)
    BY <2>1, LenProperties
  <2>. QED
    BY <2>1, <2>2, <2>3
<1>4. \A s \in 1..n : out[s] \in Seq(Nat)
  BY <1>1
<1>5. \A s \in 1..n : \A t : Often(out[s], t) \in Nat
  BY <1>4, OftenNat
<1>6. zero \in Points /\ NoScores = Tallied(zero)
  BY NothingTallied
<1>7. Tally(NoScores, out[d], 2, {}) = Tallied(g)
  <2>1. 2 \in Nat \ {0} /\ out[d] \in Seq(Nat)
    BY <1>4
  <2>. HIDE DEF zero
  <2>2. Tally(Tallied(zero), out[d], 2, {}) = Tallied(g)
    BY <1>6, <2>1, TallyCounts
  <2>. QED
    BY <1>6, <2>2
<1>8. \A t \in Nat : g[t] = 2 * Often(out[d], t)
  BY <1>5
<1>9. g \in Points
  <2>1. g = [t \in Nat |-> g[t]]
    OBVIOUS
  <2>2. \A t \in Nat : g[t] \in Nat
    BY <1>5, <1>8
  <2>. HIDE DEF g
  <2>. QED
    BY <2>1, <2>2 DEF Points
<1>. HIDE DEF g
<1>10. RelatedScores(graph, d, {d}) = Tallied(F)
  BY <1>1, <1>2, <1>7, <1>9, ParentsTallied
<1>11. \A t \in Nat : F[t] = g[t] + (IF t \in {d} THEN 0 ELSE S(t))
  BY DEF AfterParents
<1>. HIDE DEF F
<1>12. ASSUME NEW t \in 1..n
       PROVE  S(t) = SumFunction([p \in 1..n |-> L(p, d) * L(p, t)]) /\ S(t) \in Nat
  <2>1. S(t) \in Nat
    BY <1>1, <1>3, SharedNext
  <2>2. \A p \in 1..n : AmongFirst(inc, Len(inc), p) = L(p, d) /\ Often(out[p], t) = L(p, t)
    BY <1>1, <1>3 DEF AmongFirst, Often, Places
  <2>. HIDE DEF L
  <2>3. [p \in 1..n |-> AmongFirst(inc, Len(inc), p) * Often(out[p], t)]
          = [p \in 1..n |-> L(p, d) * L(p, t)]
    BY <2>2
  <2>. QED
    BY <2>1, <2>3 DEF SharedBy, LinksShared
<1>13. ASSUME NEW t \in Nat, t \notin 1..n PROVE S(t) = 0
  <2>. DEFINE f == [p \in 1..n |-> AmongFirst(inc, Len(inc), p) * Often(out[p], t)]
  <2>1. ASSUME NEW p \in 1..n PROVE AmongFirst(inc, Len(inc), p) * Often(out[p], t) = 0
    <3>1. Often(out[p], t) = 0
      BY <1>1, <1>13
    <3>2. AmongFirst(inc, Len(inc), p) \in Nat
      BY <1>3, AmongNext
    <3>. QED
      BY <3>1, <3>2
  <2>2. f \in [1..n -> Nat] /\ \A p \in 1..n : f[p] = 0
    BY <2>1
  <2>. HIDE DEF f
  <2>3. SumFunction(f) = 0
    BY <1>3, <2>2, SumNothing
  <2>. QED
    BY <2>3 DEF SharedBy, LinksShared, f
<1>14. \A e \in 1..n : L(d, e) \in Nat /\ L(d, e) = Often(out[d], e)
  BY <1>1, <1>5
<1>15. ASSUME NEW e \in 1..n PROVE Pts(e) = 2 * Often(out[d], e) + S(e) /\ Pts(e) \in Nat
  <2>1. Pts(e) = 2 * L(d, e) + SumFunction([p \in 1..n |-> L(p, d) * L(p, e)])
    BY DEF PointsOf
  <2>. HIDE DEF L, Pts, S
  <2>2. Pts(e) = 2 * Often(out[d], e) + S(e)
    BY <1>12, <1>14, <2>1
  <2>3. Often(out[d], e) \in Nat /\ S(e) \in Nat
    BY <1>5, <1>12
  <2>. QED
    BY <2>2, <2>3
<1>16. L(d, d) = 0
  BY DEF LinksTo
<1>. HIDE DEF L, Pts, S
<1>17. ASSUME NEW t \in Nat
       PROVE  /\ t \in (1..n) \ {d} => F[t] = Pts(t)
              /\ t \notin (1..n) \ {d} => F[t] = 0
  <2>1. CASE t = d
    <3>1. Often(out[d], t) = 0
      BY <1>14, <1>16, <2>1
    <3>. QED
      BY <1>8, <1>11, <2>1, <3>1
  <2>2. CASE t # d /\ t \in 1..n
    <3>1. F[t] = 2 * Often(out[d], t) + S(t)
      BY <1>8, <1>11, <2>2
    <3>. QED
      BY <1>15, <2>2, <3>1
  <2>3. CASE t # d /\ t \notin 1..n
    <3>1. Often(out[d], t) = 0
      BY <1>1, <2>3
    <3>. QED
      BY <1>8, <1>11, <1>13, <2>3, <3>1
  <2>. QED
    BY <2>1, <2>2, <2>3
<1>. DEFINE some == {x \in (1..n) \ {d} : Pts(x) > 0}
            D == {u \in Nat : F[u] # 0}
<1>18. D = some
  <2>1. \A u \in D : u \in some
    BY <1>15, <1>17
  <2>2. \A u \in some : u \in D
    BY <1>15, <1>17
  <2>. QED
    BY <2>1, <2>2
<1>19. \A u \in some : F[u] = Pts(u)
  BY <1>17
<1>20. Tallied(F) = [e \in some |-> Pts(e)]
  <2>1. Tallied(F) = [u \in D |-> F[u]]
    BY DEF Tallied
  <2>. HIDE DEF D, some
  <2>. QED
    BY <1>18, <1>19, <2>1
<1>21. RelatedScores(graph, d, {d}) = [e \in some |-> Pts(e)]
  BY <1>10, <1>20
<1>22. \A e \in 1..n : Pts(e) \in Nat
  BY <1>15
<1>. QED
  BY <1>21, <1>22 DEF graph, Pts

\* Of a ranking cut to nothing, nothing is left.
LEMMA NothingRanked ==
  ASSUME NEW n \in Nat, NEW D \in SUBSET (1..n), NEW f \in [D -> Nat]
  PROVE  Truncate(SortedScores(f), 0) = <<>>
<1>1. IsFiniteSet(D) /\ D \subseteq Nat /\ f \in [D -> Int]
  <2>1. IsFiniteSet(1..n)
    BY FS_Interval
  <2>2. IsFiniteSet(D)
    BY <2>1, FS_Subset
  <2>. QED
    BY <2>2
<1>. DEFINE S == Listed(D, f)
            s == SortedScores(f)
            m == Cardinality(S)
<1>2. Ranked(S)
  BY <1>1, ListedRanked
<1>3. m \in Nat
  BY <1>2, Positions
<1>4. s = Sorted(S)
  <2>1. DOMAIN f = D
    OBVIOUS
  <2>. QED
    BY <2>1 DEF SortedScores, Listed
<1>. HIDE DEF S, s
<1>5. s = [r \in 1..m |-> s[r]]
  BY <1>4 DEF Sorted
<1>. HIDE DEF m
<1>6. s \in Seq({s[r] : r \in 1..m}) /\ Len(s) = m
  <2>. DEFINE V == {s[r] : r \in 1..m}
  <2>1. \A r \in 1..m : s[r] \in V
    OBVIOUS
  <2>. HIDE DEF V
  <2>2. s \in [1..m -> V]
    BY <1>5, <2>1
  <2>3. s \in Seq(V) /\ Len(s) = m
    BY <1>3, <2>2, AsSequence
  <2>. QED
    BY <2>3 DEF V
<1>7. (IF 0 < Len(s) THEN 0 ELSE Len(s)) = 0
  BY <1>3, <1>6
<1>8. SubSeq(s, 1, 0) = <<>>
  BY <1>6
<1>. QED
  BY <1>7, <1>8 DEF Truncate, s

\* No key is there twice.
Distinct(docs) ==
  \A d, e \in DOMAIN docs : docs[d].url_key = docs[e].url_key => d = e

\* A new key is put behind the others; a known one is put in its own place.
LEMMA UpsertDistinct ==
  ASSUME Corpus(held), Distinct(held), NEW doc \in Docs, Upsert(doc)
  PROVE  Distinct(held')
<1>. DEFINE n == Len(held)
            id == IdOf(doc.url_key)
            kept == [doc EXCEPT !.pinned = @ \/ live.docs[id].meta.pinned]
<1>1. n \in Nat /\ DOMAIN held = 1..n /\ held \in Seq(Document)
  BY LenProperties DEF Corpus
<1>2. doc \in Document
  BY IndexAssumption
<1>3. CASE ~Has(doc.url_key)
  <2>. DEFINE whole == Append(held, doc)
  <2>1. held' = whole
    BY <1>3 DEF Upsert
  <2>2. /\ Len(whole) = n + 1 /\ DOMAIN whole = 1..(n + 1)
        /\ (\A i \in 1..n : whole[i] = held[i]) /\ whole[n + 1] = doc
    <3>1. whole \in Seq(Document) /\ Len(whole) = n + 1
          /\ (\A i \in 1..n : whole[i] = held[i]) /\ whole[n + 1] = doc
      BY <1>1, <1>2, AppendProperties
    <3>. HIDE DEF whole
    <3>. QED
      BY <3>1, LenProperties
  <2>. HIDE DEF whole, n
  <2>3. \A i \in 1..n : held[i].url_key # doc.url_key
    BY <1>1, <1>3 DEF Has
  <2>4. \A i \in 1..(n + 1) : i \in 1..n \/ i = n + 1
    BY <1>1
  <2>5. ASSUME NEW d \in 1..(n + 1), NEW e \in 1..(n + 1), whole[d].url_key = whole[e].url_key
        PROVE  d = e
    <3>1. CASE d \in 1..n /\ e \in 1..n
      BY <1>1, <2>2, <2>5, <3>1 DEF Distinct
    <3>2. CASE d \in 1..n /\ e = n + 1
      BY <2>2, <2>3, <2>5, <3>2
    <3>3. CASE d = n + 1 /\ e \in 1..n
      BY <2>2, <2>3, <2>5, <3>3
    <3>. QED
      BY <2>4, <3>1, <3>2, <3>3
  <2>. QED
    BY <2>1, <2>2, <2>5 DEF Distinct
<1>4. CASE Has(doc.url_key)
  <2>1. held' = [held EXCEPT ![id] = kept]
    BY <1>4 DEF Upsert
  <2>2. id \in 1..n /\ held[id].url_key = doc.url_key
    <3>. DEFINE P(i) == held[i].url_key = doc.url_key
    <3>1. \E i \in DOMAIN held : P(i)
      BY <1>4 DEF Has
    <3>2. id = CHOOSE i \in DOMAIN held : P(i)
      BY DEF IdOf
    <3>. HIDE DEF P, id
    <3>3. id \in DOMAIN held /\ P(id)
      BY <3>1, <3>2
    <3>. QED
      BY <1>1, <3>3 DEF P
  <2>. DEFINE p == doc.pinned \/ live.docs[id].meta.pinned
  <2>3. kept.url_key = doc.url_key
    <3>1. kept = [doc EXCEPT !.pinned = p]
      OBVIOUS
    <3>. HIDE DEF p, kept
    <3>. QED
      BY <1>2, <3>1 DEF Document
  <2>. HIDE DEF kept, id, n
  <2>4. DOMAIN held' = 1..n /\ \A i \in 1..n : held'[i].url_key = held[i].url_key
    BY <1>1, <2>1, <2>2, <2>3
  <2>. QED
    BY <1>1, <2>4 DEF Distinct
<1>. QED
  BY <1>3, <1>4

\* Where a document goes, the last one moves; no other key changes its place.
LEMMA EvictDistinct ==
  ASSUME Corpus(held), Distinct(held), NEW key, Evict(key)
  PROVE  Distinct(held')
<1>. DEFINE n == Len(held)
            id == IdOf(key)
            m == n - 1
            from(i) == IF i = id THEN n ELSE i
<1>1. n \in Nat /\ DOMAIN held = 1..n
  BY LenProperties DEF Corpus
<1>2. n # 0
  BY <1>1 DEF Evict, Has
<1>3. held' = [i \in 1..m |-> IF i = id THEN held[n] ELSE held[i]]
  BY DEF Evict, SwapRemove
<1>. HIDE DEF id, n
<1>4. DOMAIN held' = 1..m /\ \A i \in 1..m : held'[i] = held[from(i)]
  BY <1>3
<1>5. \A i \in 1..m : from(i) \in 1..n
  BY <1>1, <1>2
<1>6. \A d, e \in 1..m : from(d) = from(e) => d = e
  BY <1>1, <1>2
<1>. HIDE DEF from, m
<1>. QED
  BY <1>1, <1>4, <1>5, <1>6 DEF Distinct

\* Every document has a key of its own.
KeysInv == Inv /\ Distinct(held) /\ Distinct(filed)

\* No documents, no keys.
LEMMA KeysInit == Init => KeysInv
<1>. SUFFICES ASSUME Init PROVE KeysInv
  OBVIOUS
<1>1. Distinct(<<>>)
  BY DEF Distinct
<1>. QED
  BY <1>1, InitInv DEF Init, KeysInv

\* Every step keeps them apart.
LEMMA KeysNext == KeysInv /\ [Next]_vars => KeysInv'
<1>. SUFFICES ASSUME KeysInv, [Next]_vars PROVE KeysInv'
  OBVIOUS
<1>1. Inv /\ Distinct(held) /\ Distinct(filed) /\ Corpus(held)
  BY DEF KeysInv, Inv
<1>2. Inv'
  BY <1>1, NextInv
<1>. SUFFICES Distinct(held') /\ Distinct(filed')
  BY <1>2 DEF KeysInv, Distinct
<1>3. ASSUME NEW doc \in Docs, Upsert(doc) PROVE Distinct(held') /\ Distinct(filed')
  <2>1. filed' = filed
    BY <1>3 DEF Upsert
  <2>. QED
    BY <1>1, <1>3, <2>1, UpsertDistinct
<1>4. ASSUME NEW doc \in Docs, Evict(doc.url_key) PROVE Distinct(held') /\ Distinct(filed')
  <2>1. filed' = filed
    BY <1>4 DEF Evict
  <2>. QED
    BY <1>1, <1>4, <2>1, EvictDistinct
<1>5. CASE Freeze
  BY <1>1, <1>5 DEF Freeze
<1>6. CASE Thaw
  BY <1>1, <1>6 DEF Thaw
<1>7. CASE Save
  BY <1>1, <1>7 DEF Save
<1>8. CASE Open
  <2>1. held' = filed \/ held' = held
    BY <1>8 DEF Open
  <2>2. filed' = filed
    BY <1>8 DEF Open
  <2>. QED
    BY <1>1, <2>1, <2>2
<1>9. CASE UNCHANGED vars
  BY <1>1, <1>9 DEF vars
<1>. QED
  BY <1>3, <1>4, <1>5, <1>6, <1>7, <1>8, <1>9 DEF Next

\* The URL map leads from every key to its document.
LEMMA UrlsLead ==
  ASSUME NEW docs, Corpus(docs), Distinct(docs)
  PROVE  Keyed(Len(docs), Outlinks(docs), [d \in 1..Len(docs) |-> docs[d].url_key],
               UrlIndex(Metadata(docs)))
<1>. DEFINE n == Len(docs)
            keys == [d \in 1..n |-> docs[d].url_key]
            meta == Metadata(docs)
            by_url == UrlIndex(meta)
<1>1. n \in Nat /\ DOMAIN docs = 1..n /\ Outlinks(docs) \in [1..n -> Seq(Nat)]
  BY Columned DEF Strings
<1>2. DOMAIN meta = 1..n /\ \A d \in 1..n : meta[d].url_key = keys[d]
  BY DEF Metadata, MetaOf
<1>3. \A d, e \in 1..n : keys[d] = keys[e] => d = e
  BY <1>1 DEF Distinct
<1>. HIDE DEF n, keys, meta
<1>4. by_url = [key \in {meta[d].url_key : d \in 1..n} |->
                  CHOOSE d \in 1..n : meta[d].url_key = key
                    /\ \A e \in 1..n : meta[e].url_key = key => e <= d]
  BY <1>2 DEF UrlIndex
<1>5. {meta[d].url_key : d \in 1..n} = {keys[d] : d \in 1..n}
  BY <1>2
<1>6. ASSUME NEW d \in 1..n PROVE by_url[keys[d]] = d
  <2>. DEFINE key == keys[d]
              P(c) == meta[c].url_key = key /\ \A e \in 1..n : meta[e].url_key = key => e <= c
  <2>1. key \in {meta[c].url_key : c \in 1..n}
    BY <1>5
  <2>2. by_url[key] = CHOOSE c \in 1..n : P(c)
    BY <1>4, <2>1
  <2>3. P(d)
    BY <1>1, <1>2, <1>3
  <2>4. \A c \in 1..n : P(c) => c = d
    BY <1>2, <1>3
  <2>. HIDE DEF P, key, by_url
  <2>5. (CHOOSE c \in 1..n : P(c)) = d
    BY <2>3, <2>4
  <2>. QED
    BY <2>2, <2>5 DEF key
<1>7. DOMAIN by_url = {keys[d] : d \in 1..n}
  BY <1>4, <1>5
<1>. HIDE DEF by_url
<1>8. Keyed(n, Outlinks(docs), keys, by_url)
  BY <1>1, <1>6, <1>7 DEF Keyed
<1>. QED
  BY <1>8 DEF n, keys, by_url, meta

\* Where keys are distinct, links lead to the documents they name, and are counted
\* as they should be.
LEMMA InvRelated ==
  ASSUME KeysInv
  PROVE  RelatedExact
<1>. SUFFICES ASSUME live.kind = "index", NEW d \in DOMAIN held, NEW k \in 0..2
     PROVE  LET Pts(e) == 2 * Links(d, e)
                  + SumFunction([p \in DOMAIN held |-> Links(p, d) * Links(p, e)])
                related == {e \in DOMAIN held \ {d} : Pts(e) > 0}
            IN RelatedTo(live, held[d].url_key, k)
                 = Truncate(SortedScores([e \in related |-> Pts(e)]), k)
  BY DEF RelatedExact
<1>. DEFINE n == Len(held)
            edges == Outlinks(held)
            keys == [e \in 1..n |-> held[e].url_key]
            by_url == UrlIndex(Metadata(held))
            graph == Resolve(edges, by_url)
            Pts(e) == 2 * Links(d, e)
                  + SumFunction([p \in DOMAIN held |-> Links(p, d) * Links(p, e)])
            related == {e \in DOMAIN held \ {d} : Pts(e) > 0}
            Q(e) == PointsOf(n, edges, keys, d, e)
            some == {e \in (1..n) \ {d} : Q(e) > 0}
            f == [e \in some |-> Q(e)]
<1>1. Corpus(held) /\ Distinct(held) /\ live = Assemble(PartsOf(Entries(held)), live.image)
  BY DEF KeysInv, Inv
<1>2. n \in Nat /\ DOMAIN held = 1..n /\ \A e \in 1..n : edges[e] \in Seq(Nat)
  BY <1>1, Columned DEF Strings
<1>3. live.by_url = by_url /\ live.graph = graph
  <2>. DEFINE p == PartsOf(Entries(held))
  <2>1. p = [ dim |-> Dim, metric |-> Metric, embedder_id |-> EmbedderId,
              meta |-> Metadata(held), dense |-> Vectors(held), edges |-> Outlinks(held),
              bm25 |-> Build(Terms(held)) ]
    BY <1>1, SevenParts
  <2>. HIDE DEF p
  <2>2. p.meta = Metadata(held) /\ p.edges = Outlinks(held)
    BY <2>1
  <2>3. live.by_url = UrlIndex(p.meta) /\ live.graph = Resolve(p.edges, UrlIndex(p.meta))
    BY <1>1 DEF Assemble, p
  <2>. QED
    BY <2>2, <2>3
<1>4. Keyed(n, edges, keys, by_url)
  BY <1>1, UrlsLead
<1>5. ASSUME NEW p \in 1..n, NEW e \in 1..n PROVE Links(p, e) = LinksTo(edges, keys, p, e)
  <2>1. edges[p] = held[p].edges /\ keys[e] = held[e].url_key
    BY DEF Outlinks
  <2>. QED
    BY <2>1 DEF Links, LinksTo, Often, Places
<1>6. d \in 1..n
  BY <1>2
<1>. HIDE DEF n, edges, keys, by_url
<1>7. ASSUME NEW e \in 1..n PROVE Pts(e) = Q(e)
  <2>1. [p \in DOMAIN held |-> Links(p, d) * Links(p, e)]
          = [p \in 1..n |-> LinksTo(edges, keys, p, d) * LinksTo(edges, keys, p, e)]
    BY <1>2, <1>5, <1>6
  <2>2. Links(d, e) = LinksTo(edges, keys, d, e)
    BY <1>5, <1>6
  <2>. QED
    BY <2>1, <2>2 DEF PointsOf
<1>8. RelatedScores(graph, d, {d}) = f /\ \A e \in 1..n : Q(e) \in Nat
  BY <1>4, <1>6, ScoresCounted
<1>. HIDE DEF graph, Pts, Q
<1>9. related = some /\ [e \in related |-> Pts(e)] = f
  BY <1>2, <1>7
<1>10. RelatedTo(live, held[d].url_key, k) = Related(graph, d, k)
  <2>1. keys[d] = held[d].url_key
    BY <1>6 DEF keys
  <2>2. keys[d] \in DOMAIN by_url /\ by_url[keys[d]] = d
    BY <1>4, <1>6 DEF Keyed
  <2>. QED
    BY <1>3, <2>1, <2>2 DEF RelatedTo
<1>11. Related(graph, d, k) = Truncate(SortedScores(f), k)
  <2>1. CASE k = 0
    <3>1. some \in SUBSET (1..n) /\ f \in [some -> Nat]
      BY <1>8
    <3>. HIDE DEF some, f
    <3>2. Truncate(SortedScores(f), 0) = <<>>
      BY <1>2, <3>1, NothingRanked
    <3>. QED
      BY <2>1, <3>2 DEF Related
  <2>2. CASE k # 0
    <3>. HIDE DEF f
    <3>. QED
      BY <1>8, <2>2 DEF Related
  <2>. QED
    BY <2>1, <2>2
<1>. QED
  BY <1>9, <1>10, <1>11 DEF Pts

\* However an index came about, no two of its documents, and no two of the
\* file's, have one key (IndexBuilder::upsert replaces, remove swaps).
THEOREM KeysDistinct == Spec => []KeysInv
<1>. QED
  BY KeysInit, KeysNext, PTL DEF Spec

\* However an index came about: related pages are those that share links with a
\* page, with two points for each link to them and one for each pair of links
\* that a third page has to both (Index::related).
THEOREM RelatedAlwaysExact == Spec => []RelatedExact
<1>. QED
  BY InvRelated, KeysDistinct, PTL

(***************************************************************************)
(* Tables of scores.                                                       *)
(***************************************************************************)

\* The table r is f with val[d] more for every document d of K.
Gains(r, f, K, val) ==
  /\ r \in Scores /\ DOMAIN r = DOMAIN f \cup K
  /\ \A d \in Nat : Got(r, d) = Got(f, d) + (IF d \in K THEN val[d] ELSE 0)

\* Tables with the same values for the same documents are equal.
LEMMA SameScores ==
  ASSUME NEW f \in Scores, NEW g \in Scores, DOMAIN f = DOMAIN g,
         \A d \in Nat : Got(f, d) = Got(g, d)
  PROVE  f = g
<1>1. /\ DOMAIN f \in SUBSET Nat /\ f \in [DOMAIN f -> Int]
      /\ g \in [DOMAIN f -> Int]
  BY ScoresType
<1>2. \A d \in DOMAIN f : f[d] = g[d]
  BY <1>1 DEF Got
<1>. QED
  BY <1>1, <1>2

\* A score is added to a document that may or may not have one.
LEMMA ScoreAdded ==
  ASSUME NEW f \in Scores, NEW t \in Nat, NEW v \in Int
  PROVE  /\ AddTo(f, t, v) \in Scores
         /\ DOMAIN AddTo(f, t, v) = DOMAIN f \cup {t}
         /\ \A d \in Nat : Got(AddTo(f, t, v), d) = Got(f, d) + (IF d = t THEN v ELSE 0)
<1>. DEFINE S == DOMAIN f
            r == AddTo(f, t, v)
            R == S \cup {t}
<1>1. S \in SUBSET Nat /\ f \in [S -> Int]
  BY ScoresType
<1>2. r \in [R -> Int] /\ \A d \in R : r[d] = Got(f, d) + (IF d = t THEN v ELSE 0)
  <2>1. CASE t \in S
    <3>1. r = [f EXCEPT ![t] = @ + v] /\ R = S
      BY <2>1 DEF AddTo
    <3>. HIDE DEF r, R, S
    <3>2. \A d \in S : r[d] = IF d = t THEN f[d] + v ELSE f[d]
      BY <1>1, <2>1, <3>1
    <3>3. \A d \in S : f[d] \in Int /\ Got(f, d) = f[d]
      BY <1>1 DEF Got, S
    <3>4. r \in [S -> Int]
      BY <1>1, <2>1, <3>1
    <3>. QED
      BY <3>1, <3>2, <3>3, <3>4
  <2>2. CASE t \notin S
    <3>1. r = [j \in R |-> IF j = t THEN v ELSE f[j]]
      BY <2>2 DEF AddTo
    <3>2. \A j \in S : f[j] \in Int /\ Got(f, j) = f[j] /\ j # t
      BY <1>1, <2>2 DEF Got
    <3>3. Got(f, t) = 0
      BY <2>2 DEF Got
    <3>. HIDE DEF r, S
    <3>4. \A d \in R : r[d] = Got(f, d) + (IF d = t THEN v ELSE 0) /\ r[d] \in Int
      BY <3>1, <3>2, <3>3
    <3>. HIDE DEF R
    <3>. QED
      BY <3>1, <3>4
  <2>. QED
    BY <2>1, <2>2
<1>3. R \in SUBSET Nat
  BY <1>1
<1>. HIDE DEF r, R
<1>4. DOMAIN r = R /\ r \in Scores
  BY <1>2, <1>3 DEF Scores
<1>5. ASSUME NEW d \in Nat PROVE Got(r, d) = Got(f, d) + (IF d = t THEN v ELSE 0)
  <2>1. CASE d \in R
    BY <1>2, <1>4, <2>1 DEF Got
  <2>2. CASE d \notin R
    <3>1. Got(r, d) = 0 /\ Got(f, d) = 0 /\ d # t
      BY <1>4, <2>2 DEF Got, R
    <3>. QED
      BY <3>1
  <2>. QED
    BY <2>1, <2>2
<1>. QED
  BY <1>4, <1>5 DEF R, r

\* Before anything is added, no document has a score.
LEMMA NoScore ==
  /\ NoScores \in Scores /\ DOMAIN NoScores = {}
  /\ \A d : Got(NoScores, d) = 0
<1>1. NoScores \in [{} -> Int]
  BY DEF NoScores
<1>. QED
  BY <1>1 DEF Scores, Got

\* Tables that follow one another: one for the first j ids, for every j, each
\* with the value of one more id added if the id is in A.
Following(k, ids, A, val, f, it) ==
  /\ k \in Nat /\ ids \in [1..k -> Nat]
  /\ \A i, j \in 1..k : ids[i] = ids[j] => i = j
  /\ \A d \in A : val[d] \in Int
  /\ f \in Scores /\ it[1..0] = f
  /\ \A j \in 1..k : it[1..j] = IF ids[j] \in A THEN AddTo(it[1..(j - 1)], ids[j], val[ids[j]])
                                ELSE it[1..(j - 1)]

\* At the end the value of every id in A has been added, once.
LEMMA OnceAdded ==
  ASSUME NEW k, NEW ids, NEW A, NEW val, NEW f, NEW it, Following(k, ids, A, val, f, it)
  PROVE  Gains(it[1..k], f, A \cap {ids[i] : i \in 1..k}, val)
<1>. DEFINE K(j) == A \cap {ids[i] : i \in 1..j}
            T == {j \in 0..k : Gains(it[1..j], f, K(j), val)}
<1>1. /\ k \in Nat /\ f \in Scores /\ it[1..0] = f
      /\ \A j \in 1..k : ids[j] \in Nat
      /\ \A i, j \in 1..k : ids[i] = ids[j] => i = j
      /\ \A d \in A : val[d] \in Int
  BY DEF Following
<1>2. ASSUME NEW j \in 1..k
      PROVE it[1..j] = IF ids[j] \in A THEN AddTo(it[1..(j - 1)], ids[j], val[ids[j]])
                       ELSE it[1..(j - 1)]
  BY DEF Following
<1>3. 0 \in T
  <2>1. K(0) = {} /\ \A d \in Nat : Got(f, d) \in Int
    BY <1>1, ScoresType
  <2>. HIDE DEF K
  <2>2. Gains(f, f, K(0), val)
    BY <1>1, <2>1 DEF Gains
  <2>. QED
    BY <1>1, <2>2
<1>4. ASSUME NEW j \in 0..k, j \in T, j # k PROVE j + 1 \in T
  <2>. DEFINE l == j + 1
              t == ids[l]
              a == it[1..j]
              b == it[1..l]
  <2>1. l \in 1..k /\ l - 1 = j /\ t \in Nat /\ l \in 0..k
    BY <1>1, <1>4
  <2>2. Gains(a, f, K(j), val)
    BY <1>4
  <2>3. b = IF t \in A THEN AddTo(a, t, val[t]) ELSE a
    BY <1>2, <2>1
  <2>4. K(l) = IF t \in A THEN K(j) \cup {t} ELSE K(j)
    <3>1. 1..l = (1..j) \cup {l}
      BY <1>1, <2>1
    <3>. HIDE DEF l
    <3>2. {ids[i] : i \in 1..l} = {ids[i] : i \in 1..j} \cup {t}
      BY <3>1
    <3>. QED
      BY <3>2
  <2>5. t \notin K(j)
    <3>1. \A i \in 1..j : i \in 1..k /\ i # l
      BY <1>1, <2>1
    <3>. HIDE DEF l
    <3>. QED
      BY <1>1, <2>1, <3>1
  <2>. HIDE DEF K, a, b, t, l
  <2>6. CASE t \in A
    <3>1. a \in Scores /\ val[t] \in Int
      BY <1>1, <2>2, <2>6 DEF Gains
    <3>. DEFINE v == val[t]
    <3>2. /\ b \in Scores /\ DOMAIN b = DOMAIN a \cup {t}
          /\ \A d \in Nat : Got(b, d) = Got(a, d) + (IF d = t THEN v ELSE 0)
      BY <2>1, <2>3, <2>6, <3>1, ScoreAdded
    <3>3. DOMAIN b = DOMAIN f \cup K(l)
      BY <2>2, <2>4, <2>6, <3>2 DEF Gains
    <3>4. ASSUME NEW d \in Nat
          PROVE  Got(b, d) = Got(f, d) + (IF d \in K(l) THEN val[d] ELSE 0)
      <4>1. Got(b, d) = Got(a, d) + (IF d = t THEN v ELSE 0)
        BY <3>2
      <4>2. Got(a, d) = Got(f, d) + (IF d \in K(j) THEN val[d] ELSE 0)
        BY <2>2 DEF Gains
      <4>3. Got(f, d) \in Int /\ v \in Int
        BY <1>1, <3>1, ScoresType
      <4>4. CASE d = t
        <5>1. d \in K(l) /\ d \notin K(j)
          BY <2>4, <2>5, <2>6, <4>4
        <5>. HIDE DEF v
        <5>2. Got(b, d) = Got(f, d) + v
          BY <4>1, <4>2, <4>3, <4>4, <5>1
        <5>. QED
          BY <4>4, <5>1, <5>2 DEF v
      <4>5. CASE d # t
        <5>1. d \in K(l) <=> d \in K(j)
          BY <2>4, <2>6, <4>5
        <5>2. Got(b, d) = Got(a, d)
          <6>1. Got(a, d) \in Int
            BY <3>1, ScoresType
          <6>. QED
            BY <4>1, <4>5, <6>1
        <5>. QED
          BY <4>2, <5>1, <5>2
      <4>. QED
        BY <4>4, <4>5
    <3>5. Gains(b, f, K(l), val)
      BY <3>2, <3>3, <3>4 DEF Gains
    <3>. QED
      BY <2>1, <3>5 DEF T, b, l
  <2>7. CASE t \notin A
    <3>1. Gains(b, f, K(l), val)
      BY <2>2, <2>3, <2>4, <2>7
    <3>. QED
      BY <2>1, <3>1 DEF T, b, l
  <2>. QED
    BY <2>6, <2>7
<1>5. k \in T
  <2>1. \A j \in 0..k : j \in T
    <3>. HIDE DEF T
    <3>. QED
      BY <1>1, <1>3, <1>4, UpTo
  <2>. HIDE DEF T
  <2>. QED
    BY <1>1, <2>1
<1>. QED
  BY <1>5

(***************************************************************************)
(* BM25 scores.                                                            *)
(***************************************************************************)

\* The weight of a term in a document is a number, for every number of
\* documents, document frequency, term frequency, length and average length.
WeightType ==
  \A n \in Nat \ {0} : \A df \in 1..n, tf \in 1..MaxTf, dl \in Nat, total \in Nat :
    Weight(n, df, tf, dl, <<total, n>>) \in Int

\* The terms of n documents, capped as extraction caps them.
Capped(n, terms) == Texts(n, terms) /\ \A d \in 1..n : Len(terms[d]) <= MaxTf

\* The documents that have a term, and what the term weighs in each.
Having(n, terms, t) == {d \in 1..n : Often(terms[d], t) > 0}
Weighs(n, terms, t) ==
  [d \in 1..n |-> Weight(n, Cardinality(Having(n, terms, t)), Often(terms[d], t),
                         Len(terms[d]), <<SumFunction(Lengths(terms)), n>>)]

\* These are numbers.
LEMMA WeighsInt ==
  ASSUME WeightType, NEW n, NEW terms, Capped(n, terms), NEW t
  PROVE  /\ n \in Nat /\ IsFiniteSet(Having(n, terms, t)) /\ Having(n, terms, t) \in SUBSET (1..n)
         /\ \A d \in Having(n, terms, t) : Weighs(n, terms, t)[d] \in Int
<1>. DEFINE H == Having(n, terms, t)
            df == Cardinality(H)
            total == SumFunction(Lengths(terms))
<1>1. n \in Nat /\ DOMAIN terms = 1..n /\ \A d \in 1..n : terms[d] \in Seq(Nat)
  BY DEF Capped, Texts
<1>2. IsFiniteSet(1..n) /\ Cardinality(1..n) = n
  <2>1. 1 \in Int /\ n \in Int /\ (IF 1 > n THEN 0 ELSE n - 1 + 1) = n
    BY <1>1
  <2>. QED
    BY <2>1, FS_Interval
<1>3. H \in SUBSET (1..n)
  BY DEF Having
<1>4. IsFiniteSet(H) /\ df \in Nat /\ df <= n
  <2>. HIDE DEF H
  <2>. QED
    BY <1>2, <1>3, FS_Subset, FS_CardinalityType
<1>5. total \in Nat
  <2>1. \A d \in 1..n : Len(terms[d]) \in Nat
    BY <1>1, LenProperties
  <2>2. Lengths(terms) = [d \in 1..n |-> Len(terms[d])]
    BY <1>1 DEF Lengths
  <2>3. Lengths(terms) \in [1..n -> Nat]
    BY <2>1, <2>2
  <2>. QED
    BY <1>2, <2>3, SumNat
<1>6. ASSUME NEW d \in H PROVE Weighs(n, terms, t)[d] \in Int
  <2>. DEFINE tf == Often(terms[d], t)
              dl == Len(terms[d])
  <2>1. d \in 1..n /\ tf > 0
    BY DEF Having
  <2>2. terms[d] \in Seq(Nat)
    BY <1>1, <2>1
  <2>3. dl \in Nat /\ tf \in 0..dl /\ dl <= MaxTf
    BY <2>1, <2>2, OftenType, LenProperties DEF Capped
  <2>4. MaxTf \in Nat
    BY RankingAssumption
  <2>5. Weighs(n, terms, t)[d] = Weight(n, df, tf, dl, <<total, n>>)
    BY <2>1 DEF Weighs
  <2>6. df # 0
    BY <1>4, FS_EmptySet
  <2>. HIDE DEF df, tf, dl, total, H
  <2>7. n \in Nat \ {0} /\ df \in 1..n /\ tf \in 1..MaxTf
    BY <1>1, <1>4, <2>1, <2>3, <2>4, <2>6
  <2>8. Weight(n, df, tf, dl, <<total, n>>) \in Int
    BY <1>5, <2>3, <2>7 DEF WeightType
  <2>. QED
    BY <2>5, <2>8
<1>. QED
  BY <1>1, <1>3, <1>4, <1>6

\* What a posting says: the documents that have its term, and how often.
LEMMA PostingSays ==
  ASSUME NEW n, NEW terms, Capped(n, terms), NEW m, NEW dict, NEW ps,
         Posted(n, terms, m, dict, ps), NEW j \in 1..m
  PROVE  LET t == dict[j]
             docs == ps[j].docs
             k == Cardinality(Having(n, terms, t))
         IN /\ ps[j].term = t /\ t \in Nat
            /\ Enumerates(docs, Having(n, terms, t))
            /\ k \in Nat /\ Len(docs) = k /\ docs \in [1..k -> Having(n, terms, t)]
            /\ \A i \in 1..k : ps[j].tf[i] = Often(terms[docs[i]], t)
<1>. DEFINE t == dict[j]
            D == 1..n
            c == Counts(terms)
            H == Holding(D, c, t)
            k == Cardinality(H)
            docs == Ascending(H)
<1>1. n \in Nat /\ DOMAIN terms = D /\ \A d \in D : terms[d] \in Seq(Nat)
  BY DEF Capped, Texts
<1>2. /\ ps[j] = PostingOf(D, c, t)
      /\ t \in Nat
      /\ H = {d \in D : t \in ToSet(terms[d])}
      /\ Enumerates(docs, H)
  BY DEF Posted
<1>3. H = Having(n, terms, t)
  <2>1. ASSUME NEW d \in D PROVE t \in ToSet(terms[d]) <=> Often(terms[d], t) > 0
    <3>1. terms[d] \in Seq(Nat)
      BY <1>1
    <3>2. /\ Len(terms[d]) \in Nat /\ Often(terms[d], t) \in 0..Len(terms[d])
          /\ (Often(terms[d], t) = 0 <=> t \notin ToSet(terms[d]))
      BY <3>1, OftenType, LenProperties
    <3>. QED
      BY <3>2
  <2>. QED
    BY <1>2, <2>1 DEF Having
<1>4. docs \in [1..k -> H] /\ k \in Nat
  BY <1>2 DEF Enumerates
<1>5. Len(docs) = k
  <2>. HIDE DEF H, k, docs
  <2>. QED
    BY <1>4, AsSequence
<1>6. ps[j].term = t /\ ps[j].docs = docs /\ ps[j].tf = [i \in 1..k |-> c[docs[i]][t]]
  BY <1>2 DEF PostingOf
<1>7. ASSUME NEW i \in 1..k PROVE ps[j].tf[i] = Often(terms[docs[i]], t)
  <2>. DEFINE d == docs[i]
              s == terms[d]
  <2>1. d \in H
    BY <1>4
  <2>2. d \in D /\ t \in ToSet(s)
    BY <1>2, <2>1
  <2>3. s \in Seq(Nat) /\ Len(s) <= MaxTf
    BY <1>1, <2>2 DEF Capped
  <2>4. c[d] = LocalCounts(s)
    BY <1>1, <2>2 DEF Counts
  <2>5. ps[j].tf[i] = c[d][t]
    BY <1>6
  <2>. HIDE DEF s, d, c
  <2>6. LocalCounts(s)[t] = Often(s, t)
    BY <2>2, <2>3, CountsOf
  <2>. QED
    BY <2>4, <2>5, <2>6 DEF s, d
<1>. QED
  BY <1>2, <1>3, <1>4, <1>5, <1>6, <1>7

\* The documents of a term that a prefilter admits.
Found(n, terms, allowed, t) == {d \in Having(n, terms, t) : Admits(allowed, d)}

\* A posting adds the weight of its term to each document it lists.
LEMMA Accumulated ==
  ASSUME WeightType, NEW n, NEW terms, Capped(n, terms), NEW m, NEW dict, NEW ps,
         Posted(n, terms, m, dict, ps), NEW j \in 1..m, NEW allowed, NEW f \in Scores
  PROVE  Gains(Accumulate(f, Build(terms), ps[j], allowed), f,
               Found(n, terms, allowed, dict[j]), Weighs(n, terms, dict[j]))
<1>. DEFINE t == dict[j]
            b == Build(terms)
            docs == ps[j].docs
            H == Having(n, terms, t)
            A == Found(n, terms, allowed, t)
            k == Cardinality(H)
            N == 1..k
            val == Weighs(n, terms, t)
            order == [i \in DOMAIN docs |-> i]
            Onto(acc, i) ==
              IF Admits(allowed, docs[i])
                THEN AddTo(acc, docs[i],
                           Weight(b.doc_count, Len(docs), ps[j].tf[i], b.doc_len[docs[i]], b.avgdl))
                ELSE acc
            op == [p \in N \X Scores |-> Onto(p[2], p[1])]
            Body(F) == [s \in SUBSET N |-> IF s = {} THEN f
                                           ELSE Onto(F[s \ {Max(s)}], order[Max(s)])]
            it == CHOOSE F : F = Body(F)
<1>1. /\ n \in Nat /\ DOMAIN terms = 1..n /\ Len(terms) = n
      /\ \A d \in 1..n : terms[d] \in Seq(Nat)
  BY AsSequence DEF Capped, Texts
<1>2. /\ Enumerates(docs, H) /\ k \in Nat /\ Len(docs) = k /\ docs \in [1..k -> H]
      /\ \A i \in 1..k : ps[j].tf[i] = Often(terms[docs[i]], t)
  BY PostingSays
<1>3. DOMAIN docs = N /\ DOMAIN order = N /\ \A i \in N : order[i] = i
  BY <1>2
<1>4. H \in SUBSET (1..n) /\ A \in SUBSET H /\ \A d \in H : val[d] \in Int
  BY WeighsInt DEF Found
<1>40. ASSUME NEW i \in N PROVE docs[i] \in H /\ docs[i] \in Nat
  <2>1. docs[i] \in H
    BY <1>2
  <2>. HIDE DEF H, docs
  <2>2. docs[i] \in 1..n
    BY <1>4, <2>1
  <2>. QED
    BY <2>1, <2>2
<1>5. /\ b.doc_count = n /\ b.doc_len = Lengths(terms)
      /\ b.avgdl = <<SumFunction(Lengths(terms)), n>>
  BY <1>1, Built
<1>6. ASSUME NEW i \in N, NEW acc
      PROVE  Onto(acc, i) = IF docs[i] \in A THEN AddTo(acc, docs[i], val[docs[i]]) ELSE acc
  <2>. DEFINE d == docs[i]
  <2>1. d \in H /\ d \in 1..n
    BY <1>2, <1>4
  <2>2. b.doc_len[d] = Len(terms[d])
    BY <1>1, <1>5, <2>1 DEF Lengths
  <2>3. Admits(allowed, d) <=> d \in A
    BY <2>1 DEF Found
  <2>4. val[d] = Weight(n, k, Often(terms[d], t), Len(terms[d]), <<SumFunction(Lengths(terms)), n>>)
    BY <2>1 DEF Weighs
  <2>5. ps[j].tf[i] = Often(terms[d], t) /\ Len(docs) = k
    BY <1>2
  <2>6. Weight(b.doc_count, Len(docs), ps[j].tf[i], b.doc_len[d], b.avgdl) = val[d]
    <3>. HIDE DEF b, docs, val, d, k, t
    <3>. QED
      BY <1>5, <2>2, <2>4, <2>5
  <2>. QED
    BY <2>3, <2>6
<1>7. ASSUME NEW i \in N, NEW acc \in Scores PROVE Onto(acc, i) \in Scores
  <2>1. docs[i] \in Nat /\ docs[i] \in H
    BY <1>40
  <2>2. docs[i] \in A => AddTo(acc, docs[i], val[docs[i]]) \in Scores
    BY <1>4, <2>1, ScoreAdded
  <2>. HIDE DEF Onto
  <2>. QED
    BY <1>6, <2>2
<1>8. Accumulate(f, b, ps[j], allowed) = it[N]
  BY <1>3 DEF Accumulate, FoldLeft, MapThenFoldSet
<1>. HIDE DEF Onto, N, docs, b, A, val, H, k, t
<1>9. /\ op \in [N \X Scores -> Scores]
      /\ \A i \in N, a \in Scores : op[<<i, a>>] = Onto(a, i)
  BY <1>7
<1>. HIDE DEF op
<1>10. PICK h : Chained(k, Scores, f, op, h)
  BY <1>2, <1>9, ChainExists DEF N
<1>11. h = Body(h)
  <2>0. h \in [SUBSET N -> Scores] /\ h[{}] = f
    BY <1>10 DEF Chained, N
  <2>1. ASSUME NEW s \in (SUBSET N) \ {{}}
        PROVE  h[s] = Onto(h[s \ {Max(s)}], order[Max(s)])
    <3>1. Max(s) \in N /\ s \ {Max(s)} \in SUBSET N
          /\ h[s] = op[<<Max(s), h[s \ {Max(s)}]>>]
      BY <1>10 DEF Chained, N
    <3>2. h[s \ {Max(s)}] \in Scores
      BY <2>0, <3>1
    <3>. HIDE DEF order
    <3>. QED
      BY <1>3, <1>9, <3>1, <3>2
  <2>. HIDE DEF order
  <2>2. \A s \in SUBSET N : h[s] = IF s = {} THEN f ELSE Onto(h[s \ {Max(s)}], order[Max(s)])
    BY <2>0, <2>1
  <2>3. h = [s \in SUBSET N |-> h[s]]
    BY <2>0
  <2>. QED
    BY <2>2, <2>3
<1>12. it = Body(it)
  <2>. HIDE DEF Body
  <2>1. \E F : F = Body(F)
    BY <1>11, Zenon
  <2>. QED
    BY <2>1, Zenon
<1>. HIDE DEF it, order
<1>13. it[{}] = f
  BY <1>12
<1>14. ASSUME NEW i \in 1..k PROVE it[1..i] = Onto(it[1..(i - 1)], i)
  <2>. DEFINE s == 1..i
  <2>1. s \in (SUBSET N) \ {{}} /\ Max(s) = i /\ s \ {i} = 1..(i - 1) /\ i \in N
    BY <1>2, LastOf DEF N
  <2>. HIDE DEF s
  <2>2. it[s] = Onto(it[s \ {Max(s)}], order[Max(s)])
    BY <1>12, <2>1
  <2>. QED
    BY <1>3, <2>1, <2>2 DEF s
<1>15. Following(k, docs, A, val, f, it)
  <2>1. docs \in [1..k -> Nat]
    BY <1>2, <1>40 DEF N
  <2>2. \A i, l \in 1..k : docs[i] = docs[l] => i = l
    BY <1>2, <1>3 DEF Enumerates, N
  <2>3. 1..0 = {}
    OBVIOUS
  <2>4. \A d \in A : val[d] \in Int
    BY <1>4
  <2>5. \A i \in 1..k : it[1..i] = IF docs[i] \in A THEN AddTo(it[1..(i - 1)], docs[i], val[docs[i]])
                                  ELSE it[1..(i - 1)]
    BY <1>6, <1>14 DEF N
  <2>. QED
    BY <1>2, <1>13, <2>1, <2>2, <2>3, <2>4, <2>5 DEF Following
<1>16. Gains(it[1..k], f, A \cap {docs[i] : i \in 1..k}, val)
  BY <1>15, OnceAdded
<1>17. A \cap {docs[i] : i \in 1..k} = A
  <2>1. \A x \in H : \E i \in 1..k : docs[i] = x
    BY <1>2, <1>3 DEF Enumerates, N
  <2>. QED
    BY <1>4, <2>1
<1>. QED
  BY <1>8, <1>16, <1>17 DEF N, A, val, t, b

\* What one query term does to the scores.
WithTerm(scores, bm25, allowed, t) ==
  FoldLeft(LAMBDA acc, p : IF p.term = t THEN Accumulate(acc, bm25, p, allowed) ELSE acc,
           scores, bm25.terms)

\* A table that gains nothing is the same.
LEMMA NothingGained ==
  ASSUME NEW f \in Scores, NEW val
  PROVE  Gains(f, f, {}, val)
<1>1. \A d \in Nat : Got(f, d) \in Int
  BY ScoresType
<1>. QED
  BY <1>1 DEF Gains

\* It adds the weight of the term to every document that has it.
LEMMA TermAdded ==
  ASSUME WeightType, NEW n, NEW terms, Capped(n, terms), NEW t \in Nat, NEW allowed,
         NEW f \in Scores
  PROVE  Gains(WithTerm(f, Build(terms), allowed, t), f,
               Found(n, terms, allowed, t), Weighs(n, terms, t))
<1>1. PICK m, dict, ps : Posted(n, terms, m, dict, ps)
  BY PostedSo DEF Capped
<1>. DEFINE b == Build(terms)
            N == 1..m
            A == Found(n, terms, allowed, t)
            val == Weighs(n, terms, t)
            Onto(acc, p) == IF p.term = t THEN Accumulate(acc, b, p, allowed) ELSE acc
            op == [p \in N \X Scores |-> Onto(p[2], ps[p[1]])]
            Body(F) == [s \in SUBSET N |-> IF s = {} THEN f
                                           ELSE Onto(F[s \ {Max(s)}], ps[Max(s)])]
            it == CHOOSE F : F = Body(F)
<1>2. /\ m \in Nat /\ DOMAIN ps = N /\ Enumerates(dict, Dictionary(1..n, Counts(terms)))
      /\ DOMAIN dict = 1..m
  <2>1. /\ m \in Nat /\ ps = First(ps, m) /\ DOMAIN dict = 1..m
        /\ Enumerates(dict, Dictionary(1..n, Counts(terms)))
    BY <1>1 DEF Posted
  <2>2. DOMAIN First(ps, m) = 1..m
    BY DEF First
  <2>. QED
    BY <2>1, <2>2
<1>3. b.terms = ps
  <2>1. DOMAIN terms = 1..n /\ ps = Postings(1..n, Counts(terms))
    BY <1>1 DEF Capped, Texts, Posted
  <2>. QED
    BY <2>1, Built
<1>4. ASSUME NEW j \in N PROVE ps[j].term = dict[j]
  BY <1>1, PostingSays
<1>5. \A i, j \in N : dict[i] = dict[j] => i = j
  BY <1>2 DEF Enumerates
<1>6. ASSUME NEW j \in N, NEW acc \in Scores
      PROVE  /\ dict[j] # t => Onto(acc, ps[j]) = acc
             /\ dict[j] = t => Gains(Onto(acc, ps[j]), acc, A, val)
             /\ Onto(acc, ps[j]) \in Scores
  <2>1. dict[j] = t => Gains(Accumulate(acc, b, ps[j], allowed), acc, A, val)
    BY <1>1, Accumulated
  <2>. HIDE DEF A, val, b
  <2>2. dict[j] = t => Accumulate(acc, b, ps[j], allowed) \in Scores
    BY <2>1 DEF Gains
  <2>. QED
    BY <1>4, <2>1, <2>2
<1>7. WithTerm(f, b, allowed, t) = it[N]
  BY <1>2, <1>3 DEF WithTerm, FoldLeft, MapThenFoldSet
<1>. HIDE DEF Onto, N, b, A, val
<1>9. /\ op \in [N \X Scores -> Scores]
      /\ \A i \in N, a \in Scores : op[<<i, a>>] = Onto(a, ps[i])
  BY <1>6
<1>. HIDE DEF op
<1>10. PICK h : Chained(m, Scores, f, op, h)
  BY <1>2, <1>9, ChainExists DEF N
<1>11. h = Body(h)
  <2>0. h \in [SUBSET N -> Scores] /\ h[{}] = f
    BY <1>10 DEF Chained, N
  <2>1. ASSUME NEW s \in (SUBSET N) \ {{}}
        PROVE  h[s] = Onto(h[s \ {Max(s)}], ps[Max(s)])
    <3>1. Max(s) \in N /\ s \ {Max(s)} \in SUBSET N
          /\ h[s] = op[<<Max(s), h[s \ {Max(s)}]>>]
      BY <1>10 DEF Chained, N
    <3>2. h[s \ {Max(s)}] \in Scores
      BY <2>0, <3>1
    <3>. QED
      BY <1>9, <3>1, <3>2
  <2>2. \A s \in SUBSET N : h[s] = IF s = {} THEN f ELSE Onto(h[s \ {Max(s)}], ps[Max(s)])
    BY <2>0, <2>1
  <2>3. h = [s \in SUBSET N |-> h[s]]
    BY <2>0
  <2>. QED
    BY <2>2, <2>3
<1>12. it = Body(it)
  <2>. HIDE DEF Body
  <2>1. \E F : F = Body(F)
    BY <1>11, Zenon
  <2>. QED
    BY <2>1, Zenon
<1>. HIDE DEF it
<1>13. it[{}] = f
  BY <1>12
<1>14. ASSUME NEW i \in 1..m PROVE it[1..i] = Onto(it[1..(i - 1)], ps[i])
  <2>. DEFINE s == 1..i
  <2>1. s \in (SUBSET N) \ {{}} /\ Max(s) = i /\ s \ {i} = 1..(i - 1) /\ i \in N
    BY <1>2, LastOf DEF N
  <2>. HIDE DEF s
  <2>2. it[s] = Onto(it[s \ {Max(s)}], ps[Max(s)])
    BY <1>12, <2>1
  <2>. QED
    BY <2>1, <2>2 DEF s
<1>. DEFINE Met(j) == \E i \in 1..j : dict[i] = t
            T == {j \in 0..m : IF Met(j) THEN Gains(it[1..j], f, A, val) ELSE it[1..j] = f}
<1>15. 0 \in T
  <2>1. 1..0 = {}
    OBVIOUS
  <2>2. ~Met(0) /\ it[1..0] = f
    BY <1>13, <2>1
  <2>. QED
    BY <1>2, <2>2
<1>16. ASSUME NEW j \in 0..m, j \in T, j # m PROVE j + 1 \in T
  <2>. DEFINE l == j + 1
  <2>1. l \in 1..m /\ l \in N /\ l - 1 = j /\ l \in 0..m
    BY <1>2, <1>16 DEF N
  <2>2. Met(l) <=> Met(j) \/ dict[l] = t
    <3>1. 1..l = (1..j) \cup {l}
      BY <2>1
    <3>. QED
      BY <3>1
  <2>3. it[1..l] = Onto(it[1..j], ps[l])
    BY <1>14, <2>1
  <2>. HIDE DEF l
  <2>4. CASE dict[l] = t
    <3>1. ~Met(j)
      <4>1. \A i \in 1..j : i \in N /\ i # l
        BY <1>2, <2>1 DEF N
      <4>. QED
        BY <1>5, <2>1, <2>4, <4>1
    <3>2. it[1..j] = f
      BY <1>16, <3>1
    <3>. HIDE DEF Met
    <3>3. Gains(it[1..l], f, A, val)
      BY <1>6, <2>1, <2>3, <2>4, <3>2
    <3>. QED
      BY <2>1, <2>2, <2>4, <3>3 DEF l
  <2>5. CASE dict[l] # t
    <3>. HIDE DEF Met
    <3>1. it[1..j] \in Scores
      <4>1. CASE Met(j)
        BY <1>16, <4>1 DEF Gains
      <4>2. CASE ~Met(j)
        BY <1>16, <4>2
      <4>. QED
        BY <4>1, <4>2
    <3>2. it[1..l] = it[1..j] /\ (Met(l) <=> Met(j))
      BY <1>6, <2>1, <2>2, <2>3, <2>5, <3>1
    <3>. QED
      BY <1>16, <2>1, <3>2 DEF l
  <2>. QED
    BY <2>4, <2>5
<1>17. m \in T
  <2>. HIDE DEF T
  <2>1. \A j \in 0..m : j \in T
    BY <1>2, <1>15, <1>16, UpTo
  <2>. QED
    BY <1>2, <2>1
<1>18. Gains(it[1..m], f, A, val)
  <2>1. CASE Met(m)
    BY <1>17, <2>1
  <2>2. CASE ~Met(m)
    <3>1. A = {}
      <4>1. ASSUME NEW d \in A PROVE FALSE
        <5>1. d \in 1..n /\ Often(terms[d], t) > 0
          BY DEF A, Found, Having
        <5>2. DOMAIN terms = 1..n /\ terms[d] \in Seq(Nat)
          BY <5>1 DEF Capped, Texts
        <5>3. t \in ToSet(terms[d])
          <6>1. /\ Len(terms[d]) \in Nat /\ Often(terms[d], t) \in 0..Len(terms[d])
                /\ (Often(terms[d], t) = 0 <=> t \notin ToSet(terms[d]))
            BY <5>2, OftenType, LenProperties
          <6>. QED
            BY <5>1, <6>1
        <5>4. t \in Dictionary(1..n, Counts(terms))
          <6>1. Counts(terms)[d] = LocalCounts(terms[d])
            BY <5>1, <5>2 DEF Counts
          <6>2. DOMAIN LocalCounts(terms[d]) = ToSet(terms[d])
            BY <5>2, CountsOf
          <6>. QED
            BY <5>1, <5>3, <6>1, <6>2 DEF Dictionary
        <5>. QED
          BY <1>2, <2>2, <5>4 DEF Enumerates
      <4>. QED
        BY <4>1
    <3>2. it[1..m] = f
      BY <1>17, <2>2
    <3>. QED
      BY <3>1, <3>2, NothingGained
  <2>. QED
    BY <2>1, <2>2
<1>. QED
  BY <1>7, <1>18 DEF N, A, val, b

\* The terms of a query are taken once each.
LEMMA TermsOnce ==
  ASSUME NEW q \in Seq(Nat)
  PROVE  /\ QueryTerms(q) \in Seq(Nat) /\ Single(QueryTerms(q))
         /\ ToSet(QueryTerms(q)) = ToSet(q)
<1>. DEFINE n == Len(q)
            N == 1..n
            V == Seq(Nat)
            Seen(seen, t) == IF Contains(seen, t) THEN seen ELSE Append(seen, t)
            op == [p \in N \X V |-> Seen(p[2], q[p[1]])]
            Body(F) == [s \in SUBSET N |-> IF s = {} THEN <<>>
                                           ELSE Seen(F[s \ {Max(s)}], q[Max(s)])]
            it == CHOOSE F : F = Body(F)
<1>1. n \in Nat /\ DOMAIN q = N /\ \A i \in N : q[i] \in Nat
  BY LenProperties
<1>2. QueryTerms(q) = it[N]
  BY <1>1 DEF QueryTerms, FoldLeft, MapThenFoldSet
<1>3. \A a \in V, t \in Nat : Seen(a, t) \in V
  OBVIOUS
<1>4. <<>> \in V
  OBVIOUS
<1>5. ASSUME NEW s \in V, NEW t \in Nat, Single(s)
      PROVE  Single(Seen(s, t)) /\ ToSet(Seen(s, t)) = ToSet(s) \cup {t}
  <2>1. Contains(s, t) <=> t \in ToSet(s)
    <3>1. DOMAIN s = 1..Len(s)
      BY LenProperties
    <3>. QED
      BY <3>1 DEF Contains, ToSet
  <2>2. CASE Contains(s, t)
    BY <1>5, <2>1, <2>2
  <2>3. CASE ~Contains(s, t)
    <3>. DEFINE k == Len(s)
                u == Append(s, t)
    <3>1. /\ k \in Nat /\ DOMAIN s = 1..k /\ DOMAIN u = 1..(k + 1)
          /\ u[k + 1] = t /\ \A i \in 1..k : u[i] = s[i]
      BY AppendProperties, LenProperties
    <3>2. \A i \in 1..k : s[i] # t
      BY <2>3, <3>1 DEF Contains
    <3>. HIDE DEF u, k
    <3>3. \A i \in 1..(k + 1) : i = k + 1 \/ i \in 1..k
      BY <3>1
    <3>4. Single(u)
      BY <1>5, <3>1, <3>2, <3>3 DEF Single
    <3>5. ToSet(u) = ToSet(s) \cup {t}
      <4>1. k + 1 \in 1..(k + 1) /\ \A i \in 1..k : i \in 1..(k + 1)
        BY <3>1
      <4>. QED
        BY <3>1, <3>3, <4>1 DEF ToSet
    <3>. QED
      BY <2>3, <3>4, <3>5 DEF u
  <2>. QED
    BY <2>2, <2>3
<1>. HIDE DEF N, V, Seen
<1>6. /\ op \in [N \X V -> V]
      /\ \A i \in N, a \in V : op[<<i, a>>] = Seen(a, q[i])
  BY <1>1, <1>3
<1>. HIDE DEF op, n
<1>7. PICK h : Chained(n, V, <<>>, op, h)
  BY <1>1, <1>4, <1>6, ChainExists DEF N
<1>8. h = Body(h)
  <2>0. h \in [SUBSET N -> V] /\ h[{}] = <<>>
    BY <1>7 DEF Chained, N
  <2>1. ASSUME NEW s \in (SUBSET N) \ {{}}
        PROVE  h[s] = Seen(h[s \ {Max(s)}], q[Max(s)])
    <3>1. Max(s) \in N /\ s \ {Max(s)} \in SUBSET N
          /\ h[s] = op[<<Max(s), h[s \ {Max(s)}]>>]
      BY <1>7 DEF Chained, N
    <3>2. h[s \ {Max(s)}] \in V
      BY <2>0, <3>1
    <3>. QED
      BY <1>6, <3>1, <3>2
  <2>2. \A s \in SUBSET N : h[s] = IF s = {} THEN <<>> ELSE Seen(h[s \ {Max(s)}], q[Max(s)])
    BY <2>0, <2>1
  <2>3. h = [s \in SUBSET N |-> h[s]]
    BY <2>0
  <2>. QED
    BY <2>2, <2>3
<1>9. it = Body(it)
  <2>. HIDE DEF Body
  <2>1. \E F : F = Body(F)
    BY <1>8, Zenon
  <2>. QED
    BY <2>1, Zenon
<1>. HIDE DEF it
<1>10. it[{}] = <<>>
  BY <1>9
<1>11. ASSUME NEW j \in 1..n PROVE it[1..j] = Seen(it[1..(j - 1)], q[j])
  <2>. DEFINE s == 1..j
  <2>1. s \in (SUBSET N) \ {{}} /\ Max(s) = j /\ s \ {j} = 1..(j - 1)
    BY <1>1, LastOf DEF N
  <2>. HIDE DEF s
  <2>2. it[s] = Seen(it[s \ {Max(s)}], q[Max(s)])
    BY <1>9, <2>1
  <2>. QED
    BY <2>1, <2>2 DEF s
<1>. DEFINE Good(j, s) == s \in V /\ Single(s) /\ ToSet(s) = {q[i] : i \in 1..j}
            T == {j \in 0..n : Good(j, it[1..j])}
<1>12. 0 \in T
  <2>1. 1..0 = {} /\ DOMAIN <<>> = {}
    OBVIOUS
  <2>2. Single(<<>>) /\ ToSet(<<>>) = {}
    BY DEF Single, ToSet
  <2>3. Good(0, <<>>)
    BY <1>4, <2>1, <2>2
  <2>. HIDE DEF Good
  <2>. QED
    BY <1>1, <1>10, <2>1, <2>3
<1>13. ASSUME NEW j \in 0..n, j \in T, j # n PROVE j + 1 \in T
  <2>. DEFINE l == j + 1
              s == it[1..j]
              t == q[l]
  <2>1. l \in 1..n /\ l - 1 = j /\ t \in Nat /\ l \in 0..n
    BY <1>1, <1>13 DEF N
  <2>2. it[1..l] = Seen(s, t)
    BY <1>11, <2>1
  <2>3. {q[i] : i \in 1..l} = {q[i] : i \in 1..j} \cup {t}
    <3>1. 1..l = (1..j) \cup {l}
      BY <1>1, <2>1
    <3>. HIDE DEF l
    <3>. QED
      BY <3>1
  <2>4. s \in V /\ Single(s) /\ ToSet(s) = {q[i] : i \in 1..j}
    BY <1>13
  <2>. HIDE DEF l, s, t
  <2>5. Good(l, it[1..l])
    <3>1. Seen(s, t) \in V
      BY <1>3, <2>1, <2>4
    <3>2. Single(Seen(s, t)) /\ ToSet(Seen(s, t)) = ToSet(s) \cup {t}
      BY <1>5, <2>1, <2>4
    <3>3. ToSet(Seen(s, t)) = {q[i] : i \in 1..l}
      BY <2>3, <2>4, <3>2
    <3>. QED
      BY <2>2, <3>1, <3>2, <3>3
  <2>. HIDE DEF Good
  <2>. QED
    BY <2>1, <2>5 DEF l
<1>14. n \in T
  <2>. HIDE DEF T
  <2>1. \A j \in 0..n : j \in T
    BY <1>1, <1>12, <1>13, UpTo
  <2>. QED
    BY <1>1, <2>1
<1>15. Good(n, it[N])
  BY <1>14 DEF N
<1>16. ToSet(q) = {q[i] : i \in N}
  BY <1>1 DEF ToSet
<1>. QED
  BY <1>2, <1>15, <1>16 DEF N, V

\* The terms of ts that a document has, and what they weigh in it together.
Shares(terms, ts, d) == {t \in ts : Often(terms[d], t) > 0}
TotalOf(n, terms, ts, d) == SumFunction([t \in Shares(terms, ts, d) |-> Weighs(n, terms, t)[d]])

\* The documents a prefilter admits that have one of these terms.
Touched(n, terms, allowed, ts) ==
  {d \in 1..n : Admits(allowed, d) /\ Shares(terms, ts, d) # {}}

\* One more term weighs what it weighs in each document that has it.
LEMMA TotalNext ==
  ASSUME WeightType, NEW n, NEW terms, Capped(n, terms), NEW ts, IsFiniteSet(ts),
         NEW d \in 1..n
  PROVE  /\ TotalOf(n, terms, ts, d) \in Int
         /\ \A x \in ts : TotalOf(n, terms, ts, d)
              = TotalOf(n, terms, ts \ {x}, d)
                  + (IF Often(terms[d], x) > 0 THEN Weighs(n, terms, x)[d] ELSE 0)
<1>. DEFINE S == Shares(terms, ts, d)
            w == [t \in S |-> Weighs(n, terms, t)[d]]
<1>1. S \in SUBSET ts /\ IsFiniteSet(S)
  BY FS_Subset DEF Shares
<1>2. \A t \in S : Weighs(n, terms, t)[d] \in Int
  BY WeighsInt DEF Shares, Having
<1>3. w \in [S -> Int]
  BY <1>2
<1>4. TotalOf(n, terms, ts, d) = SumFunction(w)
  BY DEF TotalOf
<1>5. SumFunction(w) \in Int
  <2>. HIDE DEF w, S
  <2>. QED
    BY <1>1, <1>3, SumInt
<1>6. ASSUME NEW x \in ts
      PROVE  SumFunction(w) = TotalOf(n, terms, ts \ {x}, d)
                        + (IF Often(terms[d], x) > 0 THEN Weighs(n, terms, x)[d] ELSE 0)
  <2>. DEFINE R == Shares(terms, ts \ {x}, d)
  <2>1. R = S \ {x}
    BY DEF Shares
  <2>2. TotalOf(n, terms, ts \ {x}, d) = SumFunction([t \in S \ {x} |-> w[t]])
    <3>1. TotalOf(n, terms, ts \ {x}, d) = SumFunction([t \in R |-> Weighs(n, terms, t)[d]])
      BY DEF TotalOf
    <3>2. [t \in R |-> Weighs(n, terms, t)[d]] = [t \in S \ {x} |-> w[t]]
      BY <2>1
    <3>. QED
      BY <3>1, <3>2
  <2>3. CASE Often(terms[d], x) > 0
    <3>1. x \in S /\ w[x] = Weighs(n, terms, x)[d]
      BY <2>3 DEF Shares
    <3>. DEFINE rest == [t \in S \ {x} |-> w[t]]
    <3>2. rest \in [S \ {x} -> Int] /\ IsFiniteSet(S \ {x})
      BY <1>1, <1>3, FS_Subset
    <3>. HIDE DEF w, S
    <3>3. SumFunction(w) = w[x] + SumFunction(rest)
      BY <1>1, <1>3, <3>1, SumOneMore
    <3>. HIDE DEF rest
    <3>4. SumFunction(rest) \in Int /\ w[x] \in Int
      BY <1>3, <3>1, <3>2, SumInt
    <3>. QED
      BY <2>2, <2>3, <3>1, <3>3, <3>4 DEF rest
  <2>4. CASE ~(Often(terms[d], x) > 0)
    <3>1. S \ {x} = S
      BY <2>4 DEF Shares
    <3>2. [t \in S \ {x} |-> w[t]] = w
      BY <3>1
    <3>. HIDE DEF w, S
    <3>. QED
      BY <1>5, <2>2, <2>4, <3>2
  <2>. QED
    BY <2>3, <2>4
<1>. QED
  BY <1>4, <1>5, <1>6

\* What the scores are after some of the query's terms.
Totalled(n, terms, allowed, ts, r) ==
  /\ r \in Scores /\ DOMAIN r = Touched(n, terms, allowed, ts)
  /\ \A d \in DOMAIN r : r[d] = TotalOf(n, terms, ts, d)

\* One more term is added.
LEMMA TotalledNext ==
  ASSUME WeightType, NEW n, NEW terms, Capped(n, terms), NEW allowed,
         NEW ts, IsFiniteSet(ts), NEW x \in Nat \ ts,
         NEW f, Totalled(n, terms, allowed, ts, f),
         NEW r, Gains(r, f, Found(n, terms, allowed, x), Weighs(n, terms, x))
  PROVE  Totalled(n, terms, allowed, ts \cup {x}, r)
<1>. DEFINE us == ts \cup {x}
            A == Found(n, terms, allowed, x)
<1>1. f \in Scores /\ DOMAIN f = Touched(n, terms, allowed, ts)
      /\ \A d \in DOMAIN f : f[d] = TotalOf(n, terms, ts, d)
  BY DEF Totalled
<1>2. r \in Scores /\ DOMAIN r = DOMAIN f \cup A
  BY DEF Gains
<1>3. DOMAIN r = Touched(n, terms, allowed, us)
  BY <1>1, <1>2 DEF Touched, Found, Having, Shares
<1>4. IsFiniteSet(us) /\ us \ {x} = ts
  BY FS_AddElement
<1>5. ASSUME NEW d \in DOMAIN r PROVE r[d] = TotalOf(n, terms, us, d)
  <2>1. d \in 1..n /\ d \in Nat /\ Admits(allowed, d)
    <3>1. n \in Nat
      BY DEF Capped, Texts
    <3>. QED
      BY <1>3, <3>1 DEF Touched
  <2>2. r[d] = Got(f, d) + (IF d \in A THEN Weighs(n, terms, x)[d] ELSE 0)
    BY <1>2, <2>1 DEF Gains, Got
  <2>3. TotalOf(n, terms, us, d) = TotalOf(n, terms, ts, d)
           + (IF Often(terms[d], x) > 0 THEN Weighs(n, terms, x)[d] ELSE 0)
    <3>1. x \in us
      OBVIOUS
    <3>. HIDE DEF us
    <3>. QED
      BY <1>4, <2>1, <3>1, TotalNext
  <2>4. d \in A <=> Often(terms[d], x) > 0
    BY <2>1 DEF Found, Having
  <2>5. Got(f, d) = TotalOf(n, terms, ts, d)
    <3>1. CASE d \in DOMAIN f
      BY <1>1, <3>1 DEF Got
    <3>2. CASE d \notin DOMAIN f
      <4>1. Shares(terms, ts, d) = {}
        BY <1>1, <2>1, <3>2 DEF Touched
      <4>2. TotalOf(n, terms, ts, d) = SumFunction([t \in {} |-> Weighs(n, terms, t)[d]])
        BY <4>1 DEF TotalOf
      <4>3. SumFunction([t \in {} |-> Weighs(n, terms, t)[d]]) = 0
        <5>. DEFINE e == [t \in {} |-> Weighs(n, terms, t)[d]]
        <5>1. DOMAIN e = {} /\ e = [t \in {} |-> e[t]]
          OBVIOUS
        <5>. HIDE DEF e
        <5>2. SumFunction([t \in {} |-> e[t]]) = 0
          BY <5>1, SumEmpty
        <5>. QED
          BY <5>1, <5>2 DEF e
      <4>. QED
        BY <3>2, <4>2, <4>3 DEF Got
    <3>. QED
      BY <3>1, <3>2
  <2>. QED
    BY <2>2, <2>3, <2>4, <2>5
<1>. QED
  BY <1>2, <1>3, <1>5 DEF Totalled

\* The terms of a query, one after the other.
WithTerms(bm25, allowed, qs) ==
  FoldLeft(LAMBDA scores, t : WithTerm(scores, bm25, allowed, t), NoScores, qs)

\* The scores after all the terms, each of which occurs once.
LEMMA TermsAdded ==
  ASSUME WeightType, NEW n, NEW terms, Capped(n, terms), NEW allowed,
         NEW qs \in Seq(Nat), Single(qs)
  PROVE  Totalled(n, terms, allowed, ToSet(qs), WithTerms(Build(terms), allowed, qs))
<1>. DEFINE b == Build(terms)
            m == Len(qs)
            N == 1..m
            Onto(acc, t) == WithTerm(acc, b, allowed, t)
            op == [p \in N \X Scores |-> Onto(p[2], qs[p[1]])]
            Body(F) == [s \in SUBSET N |-> IF s = {} THEN NoScores
                                           ELSE Onto(F[s \ {Max(s)}], qs[Max(s)])]
            it == CHOOSE F : F = Body(F)
<1>1. m \in Nat /\ DOMAIN qs = N /\ \A i \in N : qs[i] \in Nat
  BY LenProperties
<1>2. WithTerms(b, allowed, qs) = it[N]
  BY <1>1 DEF WithTerms, FoldLeft, MapThenFoldSet
<1>3. ASSUME NEW acc \in Scores, NEW t \in Nat
      PROVE  /\ Gains(Onto(acc, t), acc, Found(n, terms, allowed, t), Weighs(n, terms, t))
             /\ Onto(acc, t) \in Scores
  <2>1. Gains(Onto(acc, t), acc, Found(n, terms, allowed, t), Weighs(n, terms, t))
    BY TermAdded
  <2>. HIDE DEF Onto
  <2>. QED
    BY <2>1 DEF Gains
<1>4. NoScores \in Scores
  BY NoScore
<1>. HIDE DEF Onto, N, b
<1>6. /\ op \in [N \X Scores -> Scores]
      /\ \A i \in N, a \in Scores : op[<<i, a>>] = Onto(a, qs[i])
  BY <1>1, <1>3
<1>. HIDE DEF op, m
<1>7. PICK h : Chained(m, Scores, NoScores, op, h)
  BY <1>1, <1>4, <1>6, ChainExists DEF N
<1>8. h = Body(h)
  <2>0. h \in [SUBSET N -> Scores] /\ h[{}] = NoScores
    BY <1>7 DEF Chained, N
  <2>1. ASSUME NEW s \in (SUBSET N) \ {{}}
        PROVE  h[s] = Onto(h[s \ {Max(s)}], qs[Max(s)])
    <3>1. Max(s) \in N /\ s \ {Max(s)} \in SUBSET N
          /\ h[s] = op[<<Max(s), h[s \ {Max(s)}]>>]
      BY <1>7 DEF Chained, N
    <3>2. h[s \ {Max(s)}] \in Scores
      BY <2>0, <3>1
    <3>. QED
      BY <1>6, <3>1, <3>2
  <2>2. \A s \in SUBSET N : h[s] = IF s = {} THEN NoScores ELSE Onto(h[s \ {Max(s)}], qs[Max(s)])
    BY <2>0, <2>1
  <2>3. h = [s \in SUBSET N |-> h[s]]
    BY <2>0
  <2>. QED
    BY <2>2, <2>3
<1>9. it = Body(it)
  <2>. HIDE DEF Body
  <2>1. \E F : F = Body(F)
    BY <1>8, Zenon
  <2>. QED
    BY <2>1, Zenon
<1>. HIDE DEF it
<1>10. it[{}] = NoScores
  BY <1>9
<1>11. ASSUME NEW j \in 1..m PROVE it[1..j] = Onto(it[1..(j - 1)], qs[j])
  <2>. DEFINE s == 1..j
  <2>1. s \in (SUBSET N) \ {{}} /\ Max(s) = j /\ s \ {j} = 1..(j - 1)
    BY <1>1, LastOf DEF N
  <2>. HIDE DEF s
  <2>2. it[s] = Onto(it[s \ {Max(s)}], qs[Max(s)])
    BY <1>9, <2>1
  <2>. QED
    BY <2>1, <2>2 DEF s
<1>. DEFINE ts(j) == {qs[i] : i \in 1..j}
            T == {j \in 0..m : IsFiniteSet(ts(j)) /\ Totalled(n, terms, allowed, ts(j), it[1..j])}
<1>12. 0 \in T
  <2>1. 1..0 = {} /\ ts(0) = {} /\ IsFiniteSet({})
    BY FS_EmptySet
  <2>2. Touched(n, terms, allowed, {}) = {}
    BY DEF Touched, Shares
  <2>3. Totalled(n, terms, allowed, {}, NoScores)
    BY <2>2, NoScore DEF Totalled
  <2>4. IsFiniteSet(ts(0)) /\ Totalled(n, terms, allowed, ts(0), it[1..0])
    <3>. HIDE DEF ts
    <3>. QED
      BY <1>10, <2>1, <2>3
  <2>. HIDE DEF ts
  <2>. QED
    BY <1>1, <2>4
<1>13. ASSUME NEW j \in 0..m, j \in T, j # m PROVE j + 1 \in T
  <2>. DEFINE l == j + 1
              f == it[1..j]
              t == qs[l]
  <2>1. l \in 1..m /\ l - 1 = j /\ t \in Nat /\ l \in 0..m
    BY <1>1, <1>13 DEF N
  <2>2. it[1..l] = Onto(f, t)
    BY <1>11, <2>1
  <2>3. ts(l) = ts(j) \cup {t}
    <3>1. 1..l = (1..j) \cup {l}
      BY <1>1, <2>1
    <3>. HIDE DEF l
    <3>. QED
      BY <3>1
  <2>4. t \notin ts(j)
    <3>1. \A i \in 1..j : i \in DOMAIN qs /\ l \in DOMAIN qs /\ i # l
      BY <1>1, <2>1 DEF N
    <3>. HIDE DEF l
    <3>. QED
      BY <3>1 DEF Single
  <2>5. IsFiniteSet(ts(j)) /\ Totalled(n, terms, allowed, ts(j), f)
    BY <1>13
  <2>. HIDE DEF l, t, f, ts
  <2>6. f \in Scores
    BY <2>5 DEF Totalled
  <2>7. Gains(it[1..l], f, Found(n, terms, allowed, t), Weighs(n, terms, t))
    BY <1>3, <2>1, <2>2, <2>6
  <2>8. t \in Nat \ ts(j)
    BY <2>1, <2>4
  <2>9. Totalled(n, terms, allowed, ts(l), it[1..l])
    BY <2>3, <2>5, <2>7, <2>8, TotalledNext
  <2>10. IsFiniteSet(ts(l))
    BY <2>3, <2>5, FS_AddElement
  <2>. QED
    BY <2>1, <2>9, <2>10 DEF l
<1>14. m \in T
  <2>. HIDE DEF T
  <2>1. \A j \in 0..m : j \in T
    BY <1>1, <1>12, <1>13, UpTo
  <2>. QED
    BY <1>1, <2>1
<1>15. Totalled(n, terms, allowed, ts(m), it[N])
  BY <1>14 DEF N
<1>16. ToSet(qs) = ts(m)
  BY <1>1 DEF ToSet, N
<1>. QED
  BY <1>2, <1>15, <1>16 DEF N, b

\* The first k of the whole ranking by BM25 scores.
SparseIsExact(n, terms, query_terms, allowed, k) ==
  LET ts == ToSet(query_terms)
  IN Score(Build(terms), query_terms, allowed, k)
       = Truncate(SortedScores([d \in Touched(n, terms, allowed, ts) |-> TotalOf(n, terms, ts, d)]), k)

\* A list cut to nothing, or with nothing in it.
LEMMA NothingLeftOf ==
  ASSUME NEW D, IsFiniteSet(D), D \subseteq Nat, NEW c \in [D -> Int], NEW k \in Nat,
         k = 0 \/ D = {}
  PROVE  Truncate(SortedScores(c), k) = <<>>
<1>. DEFINE S == Listed(D, c)
<1>1. Ranked(S)
  BY ListedRanked
<1>2. SortedScores(c) = Sorted(S)
  <2>1. DOMAIN c = D
    OBVIOUS
  <2>. QED
    BY <2>1 DEF SortedScores, Listed
<1>3. Best(S, k, {})
  <2>1. Cardinality({}) = 0
    BY FS_EmptySet
  <2>2. D = {} => S = {}
    BY DEF Listed
  <2>. HIDE DEF S
  <2>. QED
    BY <2>1, <2>2 DEF Best
<1>. HIDE DEF S
<1>4. Sorted({}) = Truncate(Sorted(S), k)
  BY <1>1, <1>3, FirstOfAll
<1>5. Sorted({}) = <<>>
  <2>1. Cardinality({}) = 0
    BY FS_EmptySet
  <2>. QED
    BY <2>1 DEF Sorted
<1>. QED
  BY <1>2, <1>4, <1>5

\* The inverted index gives each document the sum of the weights of the query's
\* terms in it, whatever the filter, and finds every document that has one.
THEOREM SparseScan ==
  ASSUME WeightType, NEW n, NEW terms, Capped(n, terms), NEW query_terms \in Seq(Nat),
         NEW allowed, NEW k \in Nat
  PROVE  SparseIsExact(n, terms, query_terms, allowed, k)
<1>. DEFINE ts == ToSet(query_terms)
            D == Touched(n, terms, allowed, ts)
            c == [d \in D |-> TotalOf(n, terms, ts, d)]
            b == Build(terms)
            qs == QueryTerms(query_terms)
            r == WithTerms(b, allowed, qs)
<1>1. qs \in Seq(Nat) /\ Single(qs) /\ ToSet(qs) = ts
  BY TermsOnce
<1>2. Totalled(n, terms, allowed, ts, r)
  BY <1>1, TermsAdded
<1>3. r = c /\ r \in [D -> Int]
  <2>1. r \in Scores /\ DOMAIN r = D /\ \A d \in D : r[d] = TotalOf(n, terms, ts, d)
    BY <1>2 DEF Totalled
  <2>. HIDE DEF r, D
  <2>2. r \in [DOMAIN r -> Int]
    BY <2>1, ScoresType
  <2>. QED
    BY <2>1, <2>2
<1>4. n \in Nat /\ Len(terms) = n /\ b.doc_count = n
  BY Built, AsSequence DEF Capped, Texts
<1>5. D \subseteq Nat /\ IsFiniteSet(D) /\ (n = 0 => D = {})
  <2>1. D \in SUBSET (1..n) /\ IsFiniteSet(1..n)
    BY <1>4, FS_Interval DEF Touched
  <2>. HIDE DEF D
  <2>2. IsFiniteSet(D)
    BY <2>1, FS_Subset
  <2>3. 1..n \subseteq Nat /\ (n = 0 => 1..n = {})
    BY <1>4
  <2>4. D \subseteq Nat /\ (n = 0 => D = {})
    BY <2>1, <2>3
  <2>. QED
    BY <2>2, <2>4
<1>6. Score(b, query_terms, allowed, k)
        = IF b.doc_count = 0 \/ k = 0 THEN <<>> ELSE Truncate(SortedScores(r), k)
  BY DEF Score, WithTerms, WithTerm
<1>7. CASE n = 0 \/ k = 0
  <2>. HIDE DEF D, c, r, b
  <2>1. Truncate(SortedScores(c), k) = <<>>
    BY <1>3, <1>5, <1>7, NothingLeftOf
  <2>. QED
    BY <1>4, <1>6, <1>7, <2>1 DEF SparseIsExact, D, c, b
<1>8. CASE n # 0 /\ k # 0
  BY <1>3, <1>4, <1>6, <1>8 DEF SparseIsExact
<1>. QED
  BY <1>7, <1>8

\* The documents of D in the order of their ranks, as far as the k-th.
Leading(L, D, rank, k) ==
  \E m \in Nat :
    /\ L \in [1..m -> D] /\ m <= k
    /\ \A r \in 1..m : rank[L[r]] = r
    /\ \A d \in D : /\ rank[d] \in Nat \ {0}
                    /\ rank[d] <= k => rank[d] \in 1..m /\ L[rank[d]] = d

(***************************************************************************)
(* The pool of a search and the fused scores.                              *)
(***************************************************************************)

\* The rank of a document is one more than the number of those ahead of it.
LEMMA AmongRank ==
  ASSUME NEW D, IsFiniteSet(D), D \subseteq Nat, NEW c \in [D -> Int]
  PROVE  /\ DOMAIN Among(D, c) = D
         /\ \A d \in D : /\ Among(D, c)[d] = 1 + Cardinality(AheadOf(D, c, d))
                         /\ Among(D, c)[d] \in Nat \ {0}
<1>1. DOMAIN Among(D, c) = D
  BY DEF Among
<1>2. ASSUME NEW d \in D
      PROVE  /\ Among(D, c)[d] = 1 + Cardinality(AheadOf(D, c, d))
             /\ Among(D, c)[d] \in Nat \ {0}
  <2>1. {e \in D : Before(Scored(e, c[e]), Scored(d, c[d]))} = AheadOf(D, c, d)
    BY DEF Before, Scored, AheadOf
  <2>2. Among(D, c)[d] = 1 + Cardinality(AheadOf(D, c, d))
    BY <2>1 DEF Among
  <2>3. Cardinality(AheadOf(D, c, d)) \in Nat
    <3>1. IsFiniteSet(AheadOf(D, c, d))
      <4>1. AheadOf(D, c, d) \subseteq D
        BY DEF AheadOf
      <4>. QED
        BY <4>1, FS_Subset
    <3>. QED
      BY <3>1, FS_CardinalityType
  <2>. QED
    BY <2>2, <2>3
<1>. QED
  BY <1>1, <1>2

\* What a sorted list holds: at each place the document of that rank.
LEMMA SortedLeads ==
  ASSUME NEW D, IsFiniteSet(D), D \subseteq Nat, NEW c \in [D -> Int], NEW k \in Nat,
         NEW T, T = Truncate(SortedScores(c), k)
  PROVE  /\ Leading(Ids(T), D, Among(D, c), k)
         /\ \A r \in DOMAIN T : T[r] = Scored(Ids(T)[r], c[Ids(T)[r]])
         /\ DOMAIN Ids(T) = DOMAIN T
<1>. DEFINE S == Listed(D, c)
            N == Cardinality(S)
            m == IF k < N THEN k ELSE N
            at(r) == CHOOSE x \in S : Cardinality(Ahead(S, x)) = r - 1
            rank == Among(D, c)
            L == Ids(T)
<1>1. Ranked(S) /\ N \in Nat /\ \A x \in S : x.id \in D /\ x.score = c[x.id]
  <2>1. Ranked(S) /\ \A x \in S : x.id \in D /\ x.score = c[x.id]
    BY ListedRanked
  <2>. HIDE DEF S
  <2>. QED
    BY <2>1, FS_CardinalityType DEF Ranked
<1>2. SortedScores(c) = [r \in 1..N |-> at(r)]
  <2>1. DOMAIN c = D
    OBVIOUS
  <2>2. SortedScores(c) = Sorted(S)
    BY <2>1 DEF SortedScores, Listed
  <2>. QED
    BY <2>2 DEF Sorted
<1>3. ASSUME NEW r \in 1..N
      PROVE  at(r) \in S /\ Cardinality(Ahead(S, at(r))) = r - 1
  BY <1>1, Positions
<1>4. ASSUME NEW x \in S
      PROVE  /\ rank[x.id] = Cardinality(Ahead(S, x)) + 1
             /\ rank[x.id] \in 1..N /\ at(rank[x.id]) = x
  <2>1. rank[x.id] = Cardinality(AheadOf(D, c, x.id)) + 1
    <3>1. x.id \in D
      BY <1>1
    <3>2. rank[x.id] = 1 + Cardinality(AheadOf(D, c, x.id)) /\ rank[x.id] \in Nat
      BY <3>1, AmongRank
    <3>3. IsFiniteSet(AheadOf(D, c, x.id))
      <4>1. AheadOf(D, c, x.id) \subseteq D
        BY DEF AheadOf
      <4>. QED
        BY <4>1, FS_Subset
    <3>4. Cardinality(AheadOf(D, c, x.id)) \in Nat
      BY <3>3, FS_CardinalityType
    <3>. HIDE DEF rank
    <3>. QED
      BY <3>2, <3>4
  <2>2. Cardinality(AheadOf(D, c, x.id)) = Cardinality(Ahead(S, x))
    BY AheadSame
  <2>. HIDE DEF S, rank
  <2>3. Cardinality(Ahead(S, x)) \in 0..(N - 1)
    BY <1>1, Positions DEF N
  <2>. DEFINE q == rank[x.id]
  <2>4. q \in 1..N /\ Cardinality(Ahead(S, x)) = q - 1
    BY <1>1, <2>1, <2>2, <2>3
  <2>. HIDE DEF q
  <2>5. \A y \in S : Cardinality(Ahead(S, y)) = q - 1 => y = x
    BY <1>1, <2>4, Positions
  <2>6. at(q) = x
    BY <2>4, <2>5
  <2>. QED
    BY <2>1, <2>2, <2>4, <2>6 DEF q
<1>5. m \in Nat /\ m <= k /\ m <= N
  BY <1>1
<1>. HIDE DEF N, at
<1>6. DOMAIN T = 1..m /\ \A r \in 1..m : T[r] = at(r)
  <2>. DEFINE s == [r \in 1..N |-> at(r)]
  <2>1. T = SubSeq(s, 1, IF k < Len(s) THEN k ELSE Len(s))
    BY <1>2 DEF Truncate
  <2>2. s \in Seq({at(r) : r \in 1..N}) /\ Len(s) = N
    <3>1. s \in [1..N -> {at(r) : r \in 1..N}]
      OBVIOUS
    <3>. HIDE DEF s
    <3>. QED
      BY <1>1, <3>1, AsSequence
  <2>. HIDE DEF s
  <2>3. T = SubSeq(s, 1, m)
    BY <2>1, <2>2
  <2>. HIDE DEF m
  <2>4. Len(T) = m /\ DOMAIN T = 1..m /\ \A r \in 1..m : T[r] = s[r]
    BY <1>1, <1>5, <2>2, <2>3
  <2>5. \A r \in 1..m : s[r] = at(r)
    BY <1>1, <1>5 DEF s
  <2>. QED
    BY <2>4, <2>5
<1>. HIDE DEF m
<1>7. DOMAIN L = 1..m /\ \A r \in 1..m : L[r] = at(r).id
  BY <1>6 DEF Ids
<1>8. ASSUME NEW r \in 1..m
      PROVE  /\ r \in 1..N /\ at(r) \in S /\ L[r] \in D /\ rank[L[r]] = r
             /\ T[r] = Scored(L[r], c[L[r]])
  <2>1. r \in 1..N
    BY <1>1, <1>5
  <2>2. at(r) \in S /\ Cardinality(Ahead(S, at(r))) = r - 1
    BY <1>3, <2>1
  <2>. HIDE DEF S, rank
  <2>3. rank[at(r).id] = (r - 1) + 1 /\ at(r).id \in D /\ at(r).score = c[at(r).id]
    BY <1>1, <1>4, <2>2
  <2>4. at(r) = Scored(at(r).id, c[at(r).id])
    BY <1>1, <2>2, <2>3 DEF Ranked, Scored
  <2>. QED
    BY <1>6, <1>7, <2>1, <2>2, <2>3, <2>4
<1>9. ASSUME NEW d \in D
      PROVE  rank[d] \in Nat \ {0} /\ (rank[d] <= k => rank[d] \in 1..m /\ L[rank[d]] = d)
  <2>. DEFINE x == Scored(d, c[d])
  <2>1. x \in S /\ x.id = d
    BY DEF Scored, Listed
  <2>. HIDE DEF x, S, rank
  <2>2. rank[d] \in 1..N /\ at(rank[d]) = x
    BY <1>4, <2>1
  <2>3. rank[d] <= k => rank[d] \in 1..m
    BY <1>1, <2>2 DEF m
  <2>. QED
    BY <1>1, <1>7, <2>1, <2>2, <2>3
<1>10. L \in [1..m -> D]
  <2>1. L = [r \in 1..m |-> L[r]]
    BY <1>7 DEF Ids
  <2>. QED
    BY <1>8, <2>1
<1>. HIDE DEF L, rank
<1>11. Leading(L, D, rank, k)
  BY <1>5, <1>8, <1>9, <1>10 DEF Leading
<1>. QED
  BY <1>6, <1>7, <1>8, <1>11 DEF L, rank

\* One list is added to the scores.
WithList(scores, list, k) ==
  FoldLeft(LAMBDA acc, r : AddTo(acc, list.ids[r], RrfTerm(list.weight, k, r)),
           scores, [r \in DOMAIN list.ids |-> r])

\* The documents whose rank is not beyond k.
Top(D, rank, k) == {d \in D : rank[d] <= k}

\* What a list of ranks gives each of its documents.
RankTerms(D, rank, w, k) == [d \in D |-> RrfTerm(w, k, rank[d])]

\* What a rank earns is a number.
LEMMA RrfInt ==
  ASSUME NEW w \in Int, NEW k \in Nat, NEW r \in Nat \ {0}
  PROVE  RrfTerm(w, k, r) \in Int
<1>. DEFINE a == Scale * w
            b == k + r
<1>1. a \in Int /\ b \in Nat \ {0}
  BY RankingAssumption
<1>. HIDE DEF a, b
<1>2. a \div b \in Int
  BY <1>1, Division
<1>. QED
  BY <1>2 DEF RrfTerm, a, b

\* A list gives each of its documents what its rank earns.
LEMMA ListAdded ==
  ASSUME NEW D, D \subseteq Nat, NEW rank, NEW n \in Nat, NEW L, Leading(L, D, rank, n),
         NEW w \in Int, NEW k \in Nat, NEW f \in Scores
  PROVE  Gains(WithList(f, [ids |-> L, weight |-> w], k), f, Top(D, rank, n),
               RankTerms(D, rank, w, k))
<1>1. PICK m \in Nat :
        /\ L \in [1..m -> D] /\ m <= n
        /\ \A r \in 1..m : rank[L[r]] = r
        /\ \A d \in D : /\ rank[d] \in Nat \ {0}
                        /\ rank[d] <= n => rank[d] \in 1..m /\ L[rank[d]] = d
  BY DEF Leading
<1>. DEFINE list == [ids |-> L, weight |-> w]
            N == 1..m
            val == RankTerms(D, rank, w, k)
            order == [i \in DOMAIN list.ids |-> i]
            Onto(acc, r) == AddTo(acc, list.ids[r], RrfTerm(list.weight, k, r))
            op == [p \in N \X Scores |-> Onto(p[2], p[1])]
            Body(F) == [s \in SUBSET N |-> IF s = {} THEN f
                                           ELSE Onto(F[s \ {Max(s)}], order[Max(s)])]
            it == CHOOSE F : F = Body(F)
<1>2. ASSUME NEW r \in N PROVE L[r] \in D /\ L[r] \in Nat /\ rank[L[r]] = r
  <2>1. L[r] \in D
    BY <1>1
  <2>. QED
    BY <1>1, <2>1
<1>3. DOMAIN L = N /\ DOMAIN order = N /\ \A i \in N : order[i] = i
  BY <1>1
<1>4. ASSUME NEW d \in D PROVE val[d] \in Int
  <2>1. val[d] = RrfTerm(w, k, rank[d])
    BY DEF RankTerms
  <2>2. rank[d] \in Nat \ {0}
    BY <1>1
  <2>. QED
    BY <2>1, <2>2, RrfInt
<1>5. ASSUME NEW r \in N, NEW acc PROVE Onto(acc, r) = AddTo(acc, L[r], val[L[r]])
  BY <1>2 DEF RankTerms
<1>6. ASSUME NEW r \in N, NEW acc \in Scores PROVE Onto(acc, r) \in Scores
  <2>. DEFINE t == L[r]
              v == val[t]
  <2>1. t \in Nat /\ v \in Int
    BY <1>2, <1>4
  <2>2. Onto(acc, r) = AddTo(acc, t, v)
    BY <1>5
  <2>. HIDE DEF t, v, Onto
  <2>3. AddTo(acc, t, v) \in Scores
    BY <2>1, ScoreAdded
  <2>. QED
    BY <2>2, <2>3
<1>7. WithList(f, list, k) = it[N]
  BY <1>3 DEF WithList, FoldLeft, MapThenFoldSet
<1>. HIDE DEF Onto, N, val
<1>9. /\ op \in [N \X Scores -> Scores]
      /\ \A i \in N, a \in Scores : op[<<i, a>>] = Onto(a, i)
  BY <1>6
<1>. HIDE DEF op
<1>10. PICK h : Chained(m, Scores, f, op, h)
  BY <1>9, ChainExists DEF N
<1>11. h = Body(h)
  <2>0. h \in [SUBSET N -> Scores] /\ h[{}] = f
    BY <1>10 DEF Chained, N
  <2>1. ASSUME NEW s \in (SUBSET N) \ {{}}
        PROVE  h[s] = Onto(h[s \ {Max(s)}], order[Max(s)])
    <3>1. Max(s) \in N /\ s \ {Max(s)} \in SUBSET N
          /\ h[s] = op[<<Max(s), h[s \ {Max(s)}]>>]
      BY <1>10 DEF Chained, N
    <3>2. h[s \ {Max(s)}] \in Scores
      BY <2>0, <3>1
    <3>. HIDE DEF order
    <3>. QED
      BY <1>3, <1>9, <3>1, <3>2
  <2>. HIDE DEF order
  <2>2. \A s \in SUBSET N : h[s] = IF s = {} THEN f ELSE Onto(h[s \ {Max(s)}], order[Max(s)])
    BY <2>0, <2>1
  <2>3. h = [s \in SUBSET N |-> h[s]]
    BY <2>0
  <2>. QED
    BY <2>2, <2>3
<1>12. it = Body(it)
  <2>. HIDE DEF Body
  <2>1. \E F : F = Body(F)
    BY <1>11, Zenon
  <2>. QED
    BY <2>1, Zenon
<1>. HIDE DEF it, order
<1>13. it[{}] = f
  BY <1>12
<1>14. ASSUME NEW i \in 1..m PROVE it[1..i] = Onto(it[1..(i - 1)], i)
  <2>. DEFINE s == 1..i
  <2>1. s \in (SUBSET N) \ {{}} /\ Max(s) = i /\ s \ {i} = 1..(i - 1) /\ i \in N
    BY LastOf DEF N
  <2>. HIDE DEF s
  <2>2. it[s] = Onto(it[s \ {Max(s)}], order[Max(s)])
    BY <1>12, <2>1
  <2>. QED
    BY <1>3, <2>1, <2>2 DEF s
<1>15. Following(m, L, D, val, f, it)
  <2>1. L \in [1..m -> Nat]
    BY <1>1, <1>2 DEF N
  <2>2. \A i, l \in 1..m : L[i] = L[l] => i = l
    BY <1>2 DEF N
  <2>3. 1..0 = {}
    OBVIOUS
  <2>5. \A i \in 1..m : it[1..i] = IF L[i] \in D THEN AddTo(it[1..(i - 1)], L[i], val[L[i]])
                                  ELSE it[1..(i - 1)]
    BY <1>2, <1>5, <1>14 DEF N
  <2>. QED
    BY <1>4, <1>13, <2>1, <2>2, <2>3, <2>5 DEF Following
<1>16. Gains(it[1..m], f, D \cap {L[i] : i \in 1..m}, val)
  BY <1>15, OnceAdded
<1>17. D \cap {L[i] : i \in 1..m} = Top(D, rank, n)
  <2>1. ASSUME NEW d \in Top(D, rank, n) PROVE d \in D /\ \E i \in 1..m : L[i] = d
    <3>1. d \in D /\ rank[d] <= n
      BY DEF Top
    <3>2. rank[d] \in 1..m /\ L[rank[d]] = d
      BY <1>1, <3>1
    <3>. QED
      BY <3>1, <3>2
  <2>2. ASSUME NEW i \in 1..m PROVE L[i] \in Top(D, rank, n)
    <3>1. L[i] \in D /\ rank[L[i]] = i
      BY <1>2 DEF N
    <3>2. n \in Int => i <= n
      BY <1>1
    <3>. QED
      BY <1>1, <3>1, <3>2 DEF Top
  <2>. QED
    BY <2>1, <2>2
<1>. QED
  BY <1>7, <1>16, <1>17 DEF N, val

\* The scores of lists together.
WithLists(lists, k) == FoldLeft(LAMBDA scores, list : WithList(scores, list, k), NoScores, lists)

\* What one arm gives a document: nothing beyond its candidates.
FromArm(D, rank, n, w, k, d) ==
  IF d \in D /\ rank[d] <= n THEN RrfTerm(w, k, rank[d]) ELSE 0

\* What two arms give their candidates.
FromBoth(D, rank, E, other, n, v, w, k) ==
  [d \in Top(D, rank, n) \cup Top(E, other, n) |->
     FromArm(D, rank, n, v, k, d) + FromArm(E, other, n, w, k, d)]

\* What an arm gives is a number.
LEMMA FromArmInt ==
  ASSUME NEW D, NEW rank, \A d \in D : rank[d] \in Nat \ {0}, NEW n \in Nat,
         NEW w \in Int, NEW k \in Nat, NEW d
  PROVE  /\ FromArm(D, rank, n, w, k, d) \in Int
         /\ FromArm(D, rank, n, w, k, d)
              = IF d \in Top(D, rank, n) THEN RankTerms(D, rank, w, k)[d] ELSE 0
<1>1. CASE d \in D /\ rank[d] <= n
  <2>1. RrfTerm(w, k, rank[d]) \in Int
    BY <1>1, RrfInt
  <2>. QED
    BY <1>1, <2>1 DEF FromArm, Top, RankTerms
<1>2. CASE ~(d \in D /\ rank[d] <= n)
  BY <1>2 DEF FromArm, Top
<1>. QED
  BY <1>1, <1>2

\* A list and the ranks it comes from.
ArmOf(L, D, rank, n) == D \subseteq Nat /\ Leading(L, D, rank, n)
ListOf(ids, weight) == [ids |-> ids, weight |-> weight]

\* Two lists, one after the other, give each document what both arms give it.
LEMMA TwoLists ==
  ASSUME NEW D, NEW rank, NEW E, NEW other, NEW n \in Nat,
         NEW L, ArmOf(L, D, rank, n), NEW M, ArmOf(M, E, other, n),
         NEW v \in Int, NEW w \in Int, NEW k \in Nat
  PROVE  WithLists(<<ListOf(L, v), ListOf(M, w)>>, k)
           = FromBoth(D, rank, E, other, n, v, w, k)
<1>. DEFINE a == [ids |-> L, weight |-> v]
            b == [ids |-> M, weight |-> w]
            lists == <<a, b>>
            Onto(acc, list) == WithList(acc, list, k)
            N == 1..2
            op == [p \in N \X Scores |-> Onto(p[2], lists[p[1]])]
            Body(F) == [s \in SUBSET N |-> IF s = {} THEN NoScores
                                           ELSE Onto(F[s \ {Max(s)}], lists[Max(s)])]
            it == CHOOSE F : F = Body(F)
            one == Onto(NoScores, a)
            both == Onto(one, b)
<1>0. /\ D \subseteq Nat /\ Leading(L, D, rank, n)
      /\ E \subseteq Nat /\ Leading(M, E, other, n)
  BY DEF ArmOf
<1>1. ASSUME NEW acc \in Scores
      PROVE  /\ Gains(Onto(acc, a), acc, Top(D, rank, n), RankTerms(D, rank, v, k))
             /\ Gains(Onto(acc, b), acc, Top(E, other, n), RankTerms(E, other, w, k))
  <2>1. Gains(Onto(acc, a), acc, Top(D, rank, n), RankTerms(D, rank, v, k))
    BY <1>0, ListAdded
  <2>2. Gains(Onto(acc, b), acc, Top(E, other, n), RankTerms(E, other, w, k))
    BY <1>0, ListAdded
  <2>. QED
    BY <2>1, <2>2
<1>2. WithLists(lists, k) = it[N]
  <2>1. DOMAIN lists = N
    OBVIOUS
  <2>. QED
    BY <2>1 DEF WithLists, FoldLeft, MapThenFoldSet
<1>3. lists[1] = a /\ lists[2] = b
  OBVIOUS
<1>. HIDE DEF Onto, N, a, b, lists
<1>4. ASSUME NEW i \in N, NEW acc \in Scores PROVE Onto(acc, lists[i]) \in Scores
  <2>1. i = 1 \/ i = 2
    BY DEF N
  <2>2. Onto(acc, a) \in Scores /\ Onto(acc, b) \in Scores
    BY <1>1 DEF Gains
  <2>. QED
    BY <1>3, <2>1, <2>2
<1>9. /\ op \in [N \X Scores -> Scores]
      /\ \A i \in N, acc \in Scores : op[<<i, acc>>] = Onto(acc, lists[i])
  BY <1>4
<1>. HIDE DEF op
<1>10. PICK h : Chained(2, Scores, NoScores, op, h)
  BY <1>9, ChainExists, NoScore DEF N
<1>11. h = Body(h)
  <2>0. h \in [SUBSET N -> Scores] /\ h[{}] = NoScores
    BY <1>10 DEF Chained, N
  <2>1. ASSUME NEW s \in (SUBSET N) \ {{}}
        PROVE  h[s] = Onto(h[s \ {Max(s)}], lists[Max(s)])
    <3>1. Max(s) \in N /\ s \ {Max(s)} \in SUBSET N
          /\ h[s] = op[<<Max(s), h[s \ {Max(s)}]>>]
      BY <1>10 DEF Chained, N
    <3>2. h[s \ {Max(s)}] \in Scores
      BY <2>0, <3>1
    <3>. QED
      BY <1>9, <3>1, <3>2
  <2>2. \A s \in SUBSET N : h[s] = IF s = {} THEN NoScores ELSE Onto(h[s \ {Max(s)}], lists[Max(s)])
    BY <2>0, <2>1
  <2>3. h = [s \in SUBSET N |-> h[s]]
    BY <2>0
  <2>. QED
    BY <2>2, <2>3
<1>12. it = Body(it)
  <2>. HIDE DEF Body
  <2>1. \E F : F = Body(F)
    BY <1>11, Zenon
  <2>. QED
    BY <2>1, Zenon
<1>. HIDE DEF it
<1>13. it[1..0] = NoScores
  <2>1. 1..0 = {}
    OBVIOUS
  <2>2. it[{}] = NoScores
    BY <1>12
  <2>. QED
    BY <2>1, <2>2
<1>14. ASSUME NEW i \in 1..2 PROVE it[1..i] = Onto(it[1..(i - 1)], lists[i])
  <2>. DEFINE s == 1..i
  <2>1. s \in (SUBSET N) \ {{}} /\ Max(s) = i /\ s \ {i} = 1..(i - 1)
    BY LastOf DEF N
  <2>. HIDE DEF s
  <2>2. it[s] = Onto(it[s \ {Max(s)}], lists[Max(s)])
    BY <1>12, <2>1
  <2>. QED
    BY <2>1, <2>2 DEF s
<1>15. it[N] = both
  <2>1. 1 \in 1..2 /\ 2 \in 1..2 /\ 1 - 1 = 0 /\ 2 - 1 = 1
    OBVIOUS
  <2>2. it[1..1] = one
    BY <1>3, <1>13, <1>14, <2>1
  <2>3. it[1..2] = both
    BY <1>3, <1>14, <2>1, <2>2
  <2>. QED
    BY <2>3 DEF N
<1>. HIDE DEF one, both
<1>16. Gains(one, NoScores, Top(D, rank, n), RankTerms(D, rank, v, k))
  BY <1>1, NoScore DEF one
<1>17. Gains(both, one, Top(E, other, n), RankTerms(E, other, w, k))
  BY <1>1, <1>16 DEF both, Gains
<1>18. both \in Scores /\ DOMAIN both = Top(D, rank, n) \cup Top(E, other, n)
  BY <1>16, <1>17, NoScore DEF Gains
<1>19. /\ \A d \in D : rank[d] \in Nat \ {0}
       /\ \A d \in E : other[d] \in Nat \ {0}
  BY <1>0 DEF Leading
<1>20. ASSUME NEW d \in DOMAIN both
       PROVE  both[d] = FromArm(D, rank, n, v, k, d) + FromArm(E, other, n, w, k, d)
  <2>1. d \in Nat /\ Got(both, d) = both[d]
    BY <1>18, ScoresType DEF Got
  <2>2. Got(one, d) = FromArm(D, rank, n, v, k, d) /\ FromArm(D, rank, n, v, k, d) \in Int
    <3>1. Got(NoScores, d) = 0
      BY NoScore
    <3>2. FromArm(D, rank, n, v, k, d) \in Int
            /\ FromArm(D, rank, n, v, k, d)
                 = IF d \in Top(D, rank, n) THEN RankTerms(D, rank, v, k)[d] ELSE 0
      BY <1>19, FromArmInt
    <3>3. Got(one, d) = 0 + (IF d \in Top(D, rank, n) THEN RankTerms(D, rank, v, k)[d] ELSE 0)
      BY <1>16, <2>1, <3>1 DEF Gains
    <3>. QED
      BY <3>2, <3>3
  <2>3. FromArm(E, other, n, w, k, d)
          = IF d \in Top(E, other, n) THEN RankTerms(E, other, w, k)[d] ELSE 0
    BY <1>19, FromArmInt
  <2>4. Got(both, d) = Got(one, d)
          + (IF d \in Top(E, other, n) THEN RankTerms(E, other, w, k)[d] ELSE 0)
    BY <1>17, <2>1 DEF Gains
  <2>. QED
    BY <2>1, <2>2, <2>3, <2>4
<1>21. both = [d \in DOMAIN both |-> both[d]]
  BY <1>18, ScoresType
<1>. QED
  BY <1>2, <1>15, <1>18, <1>20, <1>21 DEF FromBoth, ListOf, lists, a, b

\* A table of scores over a finite set of documents.
Tabled(D, c) == IsFiniteSet(D) /\ D \subseteq Nat /\ c \in [D -> Int]

\* P with scores f is what is left of c when n are kept.
Pooled(c, n, D, P, f) ==
  /\ P \subseteq D /\ IsFiniteSet(P) /\ f \in [P -> Int]
  /\ Truncate(SortedScores(c), n) = SortedScores(f)
  /\ Truncate(SortedScores(f), n) = SortedScores(f)
  /\ ToSet(SortedScores(f)) = Listed(P, f)

\* The first n of a ranking are the ranking of the n first: nothing beyond them
\* counts.
LEMMA PoolLeads ==
  ASSUME NEW D, NEW c, Tabled(D, c), NEW n \in Nat,
         NEW P, P = Top(D, Among(D, c), n), NEW f, f = [d \in P |-> c[d]]
  PROVE  Pooled(c, n, D, P, f)
<1>. SUFFICES /\ P \subseteq D /\ IsFiniteSet(P) /\ f \in [P -> Int]
              /\ Truncate(SortedScores(c), n) = SortedScores(f)
              /\ Truncate(SortedScores(f), n) = SortedScores(f)
              /\ ToSet(SortedScores(f)) = Listed(P, f)
  BY DEF Pooled
<1>. IsFiniteSet(D) /\ D \subseteq Nat /\ c \in [D -> Int]
  BY DEF Tabled
<1>. DEFINE S == Listed(D, c)
            H == {x \in S : Cardinality(Ahead(S, x)) < n}
<1>1. Ranked(S) /\ \A x \in S : x.id \in D /\ x.score = c[x.id]
  BY ListedRanked
<1>2. P \subseteq D /\ IsFiniteSet(P) /\ f \in [P -> Int]
  <2>1. P \subseteq D
    BY DEF Top
  <2>. QED
    BY <2>1, FS_Subset
<1>3. H = Listed(P, f)
  <2>1. ASSUME NEW d \in D
        PROVE  d \in P <=> Cardinality(Ahead(S, Scored(d, c[d]))) < n
    <3>. DEFINE x == Scored(d, c[d])
                k == Cardinality(AheadOf(D, c, d))
    <3>1. x \in S /\ x.id = d
      BY DEF Listed, Scored
    <3>2. Cardinality(Ahead(S, x)) = k
      BY <3>1, AheadSame
    <3>3. Among(D, c)[d] = 1 + k
      BY AmongRank
    <3>4. k \in Nat
      <4>1. AheadOf(D, c, d) \subseteq D
        BY DEF AheadOf
      <4>2. IsFiniteSet(AheadOf(D, c, d))
        BY <4>1, FS_Subset
      <4>. QED
        BY <4>2, FS_CardinalityType
    <3>. HIDE DEF x, S, k
    <3>5. d \in P <=> 1 + k <= n
      BY <3>3 DEF Top
    <3>. QED
      BY <3>2, <3>4, <3>5 DEF x
  <2>2. S = {Scored(d, c[d]) : d \in D} /\ Listed(P, f) = {Scored(d, c[d]) : d \in P}
    BY DEF Listed
  <2>. HIDE DEF S
  <2>. QED
    BY <1>2, <2>1, <2>2
<1>4. Best(S, n, H)
  <2>. HIDE DEF S
  <2>. QED
    BY <1>1, FirstBest
<1>5. Ranked(H) /\ Best(H, n, H)
  <2>. HIDE DEF S
  <2>1. H \in SUBSET S
    OBVIOUS
  <2>. HIDE DEF H
  <2>2. Ranked(H)
    BY <1>1, <2>1, RankedPart
  <2>. QED
    BY <1>4, <2>2 DEF Best
<1>6. SortedScores(c) = Sorted(S) /\ SortedScores(f) = Sorted(Listed(P, f))
  <2>1. DOMAIN c = D /\ DOMAIN f = P
    OBVIOUS
  <2>. QED
    BY <2>1 DEF SortedScores, Listed
<1>. HIDE DEF S, H
<1>7. Sorted(H) = Truncate(Sorted(S), n) /\ Sorted(H) = Truncate(Sorted(H), n)
  BY <1>1, <1>4, <1>5, FirstOfAll
<1>8. ToSet(Sorted(H)) = H
  <2>. DEFINE N == Cardinality(H)
              at(r) == CHOOSE x \in H : Cardinality(Ahead(H, x)) = r - 1
  <2>1. \A r \in 1..N : at(r) \in H
    BY <1>5, Positions
  <2>2. ASSUME NEW x \in H PROVE \E r \in 1..N : at(r) = x
    <3>. DEFINE r == Cardinality(Ahead(H, x)) + 1
    <3>1. r \in 1..N /\ Cardinality(Ahead(H, x)) = r - 1
      BY <1>5, Positions
    <3>. HIDE DEF r, N
    <3>2. \A y \in H : Cardinality(Ahead(H, y)) = r - 1 => y = x
      BY <1>5, <3>1, Positions
    <3>3. at(r) = x
      BY <3>1, <3>2
    <3>. QED
      BY <3>1, <3>3
  <2>3. Sorted(H) = [r \in 1..N |-> at(r)]
    BY DEF Sorted
  <2>. HIDE DEF at, N
  <2>. QED
    BY <2>1, <2>2, <2>3 DEF ToSet
<1>. QED
  BY <1>2, <1>3, <1>6, <1>7, <1>8

\* The places of a document's neighbours that are in P.
NearIn(neighbors, P) == {i \in DOMAIN neighbors : neighbors[i] \in P}

\* What is known of the neighbours in P: how many there are, and their scores
\* together.
NearSays(q, P, b, ties) ==
  LET I == NearIn(q, P)
      degree == SumFunction([x \in P |-> ties[x]])
  IN /\ Cardinality(I) = degree /\ degree \in Nat
     /\ I = {} <=> degree = 0
     /\ SumFunction([i \in I |-> b[q[i]]]) = SumFunction([x \in P |-> ties[x] * b[x]])
     /\ SumFunction([i \in I |-> b[q[i]]]) \in Int

\* A document's neighbours, those it links to and those that link to it.
LEMMA NearCounted ==
  ASSUME NEW s \in Seq(Nat), NEW u \in Seq(Nat), NEW P, IsFiniteSet(P), NEW b \in [P -> Int],
         NEW ties, \A x \in P : ties[x] = Often(s, x) + Often(u, x)
  PROVE  NearSays(s \o u, P, b, ties)
<1>. DEFINE q == s \o u
            m == Len(q)
            I == NearIn(q, P)
            A == [i \in I |-> b[q[i]]]
<1>1. q \in Seq(Nat) /\ m \in Nat /\ DOMAIN q = 1..m
  <2>1. q \in Seq(Nat)
    OBVIOUS
  <2>. HIDE DEF q
  <2>. QED
    BY <2>1, LenProperties
<1>2. \A x : Often(q, x) = Often(s, x) + Often(u, x)
  BY OftenJoined
<1>. HIDE DEF q, m
<1>3. I = Spots(q, P, m)
  BY <1>1 DEF NearIn, Spots
<1>4. /\ IsFiniteSet(I)
      /\ Cardinality(I) = SumFunction(Occurring(q, P, m))
      /\ SumFunction(A) = SumFunction(Worth(q, P, b, m))
  BY <1>1, <1>3, ByElement
<1>5. ASSUME NEW x \in P PROVE AmongFirst(q, m, x) = ties[x]
  <2>1. {i \in 1..m : q[i] = x} = Places(q, x)
    BY <1>1 DEF Places
  <2>. QED
    BY <1>2, <2>1 DEF AmongFirst, Often
<1>6. /\ Occurring(q, P, m) = [x \in P |-> ties[x]]
      /\ Worth(q, P, b, m) = [x \in P |-> ties[x] * b[x]]
  BY <1>5 DEF Occurring, Worth
<1>7. A \in [I -> Int]
  BY DEF NearIn
<1>. HIDE DEF A, I
<1>8. SumFunction(A) \in Int /\ Cardinality(I) \in Nat /\ (Cardinality(I) = 0 <=> I = {})
  <2>1. SumFunction(A) \in Int
    BY <1>4, <1>7, SumInt
  <2>2. Cardinality(I) \in Nat
    BY <1>4, FS_CardinalityType
  <2>3. Cardinality(I) = 0 <=> I = {}
    BY <1>4, FS_EmptySet
  <2>. QED
    BY <2>1, <2>2, <2>3
<1>. QED
  BY <1>4, <1>6, <1>8 DEF NearSays, q, A, I

\* What a document gains from the other documents of a pool P with scores f.
TiesOf(edges, keys, d, e) == LinksTo(edges, keys, d, e) + LinksTo(edges, keys, e, d)
MeanOf(edges, keys, P, f, w, d) ==
  LET degree == SumFunction([e \in P |-> TiesOf(edges, keys, d, e)])
  IN IF degree = 0 THEN 0
     ELSE (w * SumFunction([e \in P |-> TiesOf(edges, keys, d, e) * f[e]])) \div degree

\* The base scores of a boost are those of the list.
LEMMA BaseScores ==
  ASSUME NEW P, NEW f, f = [d \in P |-> f[d]], NEW ranked, ToSet(ranked) = Listed(P, f)
  PROVE  [d \in ToSet(Ids(ranked)) |-> (CHOOSE x \in ToSet(ranked) : x.id = d).score] = f
<1>1. ToSet(Ids(ranked)) = P
  <2>1. ToSet(Ids(ranked)) = {x.id : x \in ToSet(ranked)}
    BY DEF ToSet, Ids
  <2>2. \A x \in Listed(P, f) : x.id \in P
    BY DEF Listed, Scored
  <2>3. \A d \in P : Scored(d, f[d]) \in Listed(P, f) /\ Scored(d, f[d]).id = d
    BY DEF Listed, Scored
  <2>. QED
    BY <2>1, <2>2, <2>3
<1>2. ASSUME NEW d \in P
      PROVE  (CHOOSE x \in ToSet(ranked) : x.id = d).score = f[d]
  <2>. DEFINE y == CHOOSE x \in ToSet(ranked) : x.id = d
  <2>1. Scored(d, f[d]) \in ToSet(ranked) /\ Scored(d, f[d]).id = d
    BY DEF Listed, Scored
  <2>2. y \in ToSet(ranked) /\ y.id = d
    BY <2>1
  <2>3. \A x \in Listed(P, f) : x.score = f[x.id]
    BY DEF Listed, Scored
  <2>. HIDE DEF y
  <2>4. y.score = f[d]
    BY <2>2, <2>3
  <2>. QED
    BY <2>4 DEF y
<1>. QED
  BY <1>1, <1>2

\* A boost, when the base scores are known.
BoostedFrom(graph, ranked, weight, base) ==
  LET Near(d) == {i \in DOMAIN Neighbors(graph, d) : Neighbors(graph, d)[i] \in DOMAIN base}
      Boost(d) == IF Near(d) = {} THEN 0
                  ELSE (weight * SumFunction([i \in Near(d) |-> base[Neighbors(graph, d)[i]]]))
                         \div Cardinality(Near(d))
  IN IF weight <= 0 \/ ~HasEdges(graph) THEN ranked
     ELSE SortedScores([d \in DOMAIN base |-> base[d] + Boost(d)])

\* The boost of a pool P with scores f.
Lifted(edges, keys, P, f, w) == [d \in P |-> f[d] + MeanOf(edges, keys, P, f, w, d)]

\* A pool of scores, and the list it is sorted into.
PoolList(n, P, f, ranked) ==
  /\ P \subseteq 1..n /\ f \in [P -> Int]
  /\ ranked = SortedScores(f) /\ ToSet(ranked) = Listed(P, f)

\* A boost gives every document of a pool the mean of the scores of the documents
\* of the pool it is linked with.
LEMMA BoostCounted ==
  ASSUME NEW n, NEW edges, NEW keys, NEW by_url, Keyed(n, edges, keys, by_url),
         NEW P, NEW f, NEW ranked, PoolList(n, P, f, ranked), NEW w \in Int, w > 0,
         NEW graph, graph = Resolve(edges, by_url)
  PROVE  Boosted(graph, ranked, w) = SortedScores(Lifted(edges, keys, P, f, w))
<1>. SUFFICES Boosted(Resolve(edges, by_url), ranked, w)
                = SortedScores([d \in P |-> f[d] + MeanOf(edges, keys, P, f, w, d)])
  BY DEF Lifted
<1>. /\ P \subseteq 1..n /\ f \in [P -> Int]
     /\ ranked = SortedScores(f) /\ ToSet(ranked) = Listed(P, f)
  BY DEF PoolList
<1>. DEFINE g == Resolve(edges, by_url)
            ties(d) == [e \in P |-> TiesOf(edges, keys, d, e)]
            Near(d) == {i \in DOMAIN Neighbors(g, d) : Neighbors(g, d)[i] \in DOMAIN f}
            Boost(d) == IF Near(d) = {} THEN 0
                        ELSE (w * SumFunction([i \in Near(d) |-> f[Neighbors(g, d)[i]]]))
                               \div Cardinality(Near(d))
<1>1. /\ n \in Nat /\ \A d \in 1..n :
           /\ g.out \in [1..n -> Seq(Nat)] /\ g.out[d] \in Seq(Nat) /\ g.inc[d] \in Seq(Nat)
           /\ \A t \in 1..n : /\ Often(g.out[d], t) = LinksTo(edges, keys, d, t)
                              /\ Often(g.inc[d], t) = LinksTo(edges, keys, t, d)
  <2>1. n \in Nat
    BY DEF Keyed
  <2>2. ASSUME NEW d \in 1..n
        PROVE  /\ g.out \in [1..n -> Seq(Nat)]
               /\ Linking(n, g.out, g.inc[d])
               /\ \A s \in 1..n : \A t : Often(g.out[s], t)
                      = IF t \in 1..n THEN LinksTo(edges, keys, s, t) ELSE 0
               /\ \A p \in 1..n : Often(g.inc[d], p) = LinksTo(edges, keys, p, d)
    BY Resolved
  <2>. HIDE DEF g
  <2>3. ASSUME NEW d \in 1..n PROVE g.out[d] \in Seq(Nat) /\ g.inc[d] \in Seq(Nat)
    <3>1. g.out \in [1..n -> Seq(Nat)]
      BY <2>2
    <3>2. g.inc[d] \in Seq(1..n)
      BY <2>2 DEF Linking
    <3>3. g.inc[d] \in Seq(Nat)
      BY <2>1, <3>2
    <3>. QED
      BY <3>1, <3>3
  <2>. QED
    BY <2>1, <2>2, <2>3
<1>2. IsFiniteSet(P)
  <2>1. IsFiniteSet(1..n)
    BY <1>1, FS_Interval
  <2>. QED
    BY <2>1, FS_Subset
<1>3. ASSUME NEW d \in P
      PROVE  /\ Boost(d) = MeanOf(edges, keys, P, f, w, d)
  <2>. DEFINE s == g.out[d]
              u == g.inc[d]
              I == NearIn(s \o u, P)
              degree == SumFunction([x \in P |-> ties(d)[x]])
  <2>1. s \in Seq(Nat) /\ u \in Seq(Nat) /\ \A x \in P : ties(d)[x] = Often(s, x) + Often(u, x)
    <3>1. d \in 1..n /\ \A x \in P : x \in 1..n
      OBVIOUS
    <3>. HIDE DEF g
    <3>. QED
      BY <1>1, <3>1 DEF TiesOf
  <2>2. Neighbors(g, d) = s \o u /\ Near(d) = I
    BY DEF Neighbors, NearIn
  <2>. DEFINE z == ties(d)
  <2>3. \A x \in P : z[x] = Often(s, x) + Often(u, x)
    BY <2>1
  <2>4. [x \in P |-> z[x]] = [x \in P |-> TiesOf(edges, keys, d, x)]
        /\ [x \in P |-> z[x] * f[x]] = [x \in P |-> TiesOf(edges, keys, d, x) * f[x]]
    OBVIOUS
  <2>. HIDE DEF s, u, g, z
  <2>6. NearSays(s \o u, P, f, z)
    BY <1>2, <2>1, <2>3, NearCounted
  <2>5. /\ Cardinality(I) = SumFunction([x \in P |-> z[x]])
        /\ I = {} <=> SumFunction([x \in P |-> z[x]]) = 0
        /\ SumFunction([i \in I |-> f[(s \o u)[i]]]) = SumFunction([x \in P |-> z[x] * f[x]])
    BY <2>6 DEF NearSays
  <2>. HIDE DEF I
  <2>. QED
    BY <2>2, <2>4, <2>5 DEF MeanOf
<1>4. [d \in ToSet(Ids(ranked)) |-> (CHOOSE x \in ToSet(ranked) : x.id = d).score] = f
  <2>1. f = [d \in P |-> f[d]]
    OBVIOUS
  <2>. QED
    BY <2>1, BaseScores
<1>5. CASE HasEdges(g)
  <2>1. Boosted(g, ranked, w) = SortedScores([d \in DOMAIN f |-> f[d] + Boost(d)])
    <3>. DEFINE base == [d \in ToSet(Ids(ranked)) |->
                           (CHOOSE x \in ToSet(ranked) : x.id = d).score]
    <3>1. Boosted(g, ranked, w) = BoostedFrom(g, ranked, w, base)
      BY DEF Boosted, BoostedFrom
    <3>2. base = f
      BY <1>4
    <3>3. ~(w <= 0)
      OBVIOUS
    <3>. HIDE DEF base, g
    <3>4. Boosted(g, ranked, w) = BoostedFrom(g, ranked, w, f)
      BY <3>1, <3>2
    <3>5. BoostedFrom(g, ranked, w, f) = SortedScores([d \in DOMAIN f |-> f[d] + Boost(d)])
      BY <1>5, <3>3 DEF BoostedFrom
    <3>. QED
      BY <3>4, <3>5
  <2>2. DOMAIN f = P
    OBVIOUS
  <2>. HIDE DEF Boost, g
  <2>3. [d \in DOMAIN f |-> f[d] + Boost(d)]
          = [d \in P |-> f[d] + MeanOf(edges, keys, P, f, w, d)]
    BY <1>3, <2>2
  <2>. QED
    BY <2>1, <2>3 DEF g
<1>6. CASE ~HasEdges(g)
  <2>1. Boosted(g, ranked, w) = ranked
    BY <1>6 DEF Boosted
  <2>2. ASSUME NEW s \in 1..n, NEW t \in 1..n PROVE LinksTo(edges, keys, s, t) = 0
    <3>1. s \in DOMAIN g.out
      <4>. HIDE DEF g
      <4>. QED
        BY <1>1
    <3>2. g.out[s] = <<>>
      BY <1>6, <3>1 DEF HasEdges
    <3>3. Often(g.out[s], t) = 0
      BY <3>2, OftenOne
    <3>. HIDE DEF g
    <3>. QED
      BY <1>1, <3>3
  <2>3. ASSUME NEW d \in P PROVE f[d] + MeanOf(edges, keys, P, f, w, d) = f[d]
    <3>. DEFINE z == [e \in P |-> TiesOf(edges, keys, d, e)]
    <3>1. \A e \in P : TiesOf(edges, keys, d, e) = 0
      BY <2>2 DEF TiesOf
    <3>2. z \in [P -> Nat] /\ \A e \in P : z[e] = 0
      BY <3>1
    <3>. HIDE DEF z
    <3>3. SumFunction(z) = 0
      BY <1>2, <3>2, SumNothing
    <3>4. MeanOf(edges, keys, P, f, w, d) = 0
      BY <3>3 DEF MeanOf, z
    <3>. QED
      BY <3>4
  <2>4. [d \in P |-> f[d] + MeanOf(edges, keys, P, f, w, d)] = f
    BY <2>3
  <2>. QED
    BY <2>1, <2>4
<1>. QED
  BY <1>5, <1>6

\* The filter without conditions matches every document.
LEMMA AllMatches ==
  ASSUME NEW doc
  PROVE  Matches(All, doc) = TRUE
<1>. DEFINE N == 1..1
            Says(values, node) ==
              LET last == Last(values)
                  before == Last(Front(values))
              IN CASE node.op = "not" -> Append(Front(values), ~last)
                   [] node.op = "and" -> Append(Front(Front(values)), before /\ last)
                   [] node.op = "or"  -> Append(Front(Front(values)), before \/ last)
                   [] OTHER           -> Append(values, Test(node, doc))
            Body(F) == [s \in SUBSET N |-> IF s = {} THEN <<>>
                                           ELSE Says(F[s \ {Max(s)}], All[Max(s)])]
            it == CHOOSE F : F = Body(F)
            h == [s \in SUBSET N |-> IF s = {} THEN <<>> ELSE <<TRUE>>]
<1>1. All[1].op = "all" /\ DOMAIN All = N
  BY DEF All
<1>2. Says(<<>>, All[1]) = <<TRUE>>
  <2>1. Test(All[1], doc) = TRUE
    BY <1>1 DEF Test
  <2>2. Says(<<>>, All[1]) = Append(<<>>, Test(All[1], doc))
    BY <1>1
  <2>3. Append(<<>>, TRUE) = <<TRUE>>
    OBVIOUS
  <2>4. Append(<<>>, Test(All[1], doc)) = Append(<<>>, TRUE)
    BY <2>1, Zenon
  <2>. HIDE DEF Says
  <2>. QED
    BY <2>2, <2>3, <2>4, Zenon
<1>3. Matches(All, doc) = Last(it[N])
  BY <1>1 DEF Matches, FoldLeft, MapThenFoldSet
<1>4. /\ N \in (SUBSET N) \ {{}} /\ Max(N) = 1 /\ N \ {1} = {}
      /\ \A s \in SUBSET N : s # {} => s = N
  <2>1. 1 \in 1..1 /\ 1..1 = {1} /\ 1..(1 - 1) = {} /\ 1 \in Nat
    OBVIOUS
  <2>2. Max(1..1) = 1 /\ (1..1) \ {1} = 1..(1 - 1)
    BY <2>1, LastOf
  <2>. QED
    BY <2>1, <2>2
<1>. HIDE DEF Says, N
<1>5. h = Body(h)
  <2>1. h[{}] = <<>>
    OBVIOUS
  <2>2. \A s \in SUBSET N : h[s] = IF s = {} THEN <<>> ELSE Says(h[s \ {Max(s)}], All[Max(s)])
    BY <1>2, <1>4, <2>1
  <2>3. h = [s \in SUBSET N |-> h[s]]
    OBVIOUS
  <2>. HIDE DEF h
  <2>. QED
    BY <2>2, <2>3
<1>6. it = Body(it)
  <2>. HIDE DEF Body, h
  <2>1. \E F : F = Body(F)
    BY <1>5, Zenon
  <2>. QED
    BY <2>1, Zenon
<1>. HIDE DEF it
<1>7. it[{}] = <<>>
  BY <1>6
<1>8. it[N] = Says(it[N \ {Max(N)}], All[Max(N)])
  <2>1. \A s \in SUBSET N : it[s] = IF s = {} THEN <<>> ELSE Says(it[s \ {Max(s)}], All[Max(s)])
    BY <1>6, Zenon
  <2>2. N \in SUBSET N /\ N # {}
    BY <1>4
  <2>. QED
    BY <2>1, <2>2, Zenon
<1>9. it[N] = <<TRUE>>
  <2>1. Max(N) = 1 /\ N \ {Max(N)} = {}
    BY <1>4, Zenon
  <2>. QED
    BY <1>2, <1>7, <1>8, <2>1, Zenon
<1>10. Last(<<TRUE>>) = TRUE
  BY DEF Last
<1>. QED
  BY <1>3, <1>9, <1>10

\* A filter's set, or no set at all, admits the documents that it matches.
LEMMA Prefiltered ==
  ASSUME NEW docs, NEW filter, NEW d \in 1..Len(docs)
  PROVE  Admits(Evaluate(filter, Metadata(docs)), d) <=> Matches(filter, MetaOf(docs[d]))
<1>. DEFINE meta == Metadata(docs)
            S == {e \in DOMAIN meta : Matches(filter, meta[e])}
<1>1. d \in DOMAIN meta /\ meta[d] = MetaOf(docs[d])
  BY DEF Metadata
<1>2. CASE filter = All
  <2>1. Evaluate(filter, meta) = <<>>
    BY <1>2 DEF Evaluate
  <2>2. Matches(filter, MetaOf(docs[d])) = TRUE
    BY <1>2, AllMatches
  <2>. HIDE DEF meta
  <2>. QED
    BY <2>1, <2>2 DEF Admits, meta
<1>3. CASE filter # All
  <2>1. Evaluate(filter, meta) = <<S>>
    BY <1>3 DEF Evaluate
  <2>2. <<S>> # <<>> /\ <<S>>[1] = S
    OBVIOUS
  <2>3. d \in S <=> Matches(filter, MetaOf(docs[d]))
    BY <1>1
  <2>. HIDE DEF meta, S
  <2>. QED
    BY <2>1, <2>2, <2>3 DEF Admits, meta
<1>. QED
  BY <1>2, <1>3

\* The prefilter admits these documents.
Admitting(n, allowed, A) == A \subseteq 1..n /\ \A d \in 1..n : Admits(allowed, d) <=> d \in A

\* Vectors of one length, and one to compare with them.
Comparable(dim, n, rows, query) ==
  /\ dim \in Nat \ {0} /\ n \in Nat
  /\ rows \in [1..n -> [1..dim -> Int]] /\ query \in [1..dim -> Int]

\* The similarities of some of them.
Likeness(A, rows, query, metric) == [d \in A |-> Similarity(query, rows[d], metric)]

\* The dense arm ranks the admitted documents by their similarity.
LEMMA DenseArm ==
  ASSUME NEW dim, NEW n, NEW rows, NEW query, Comparable(dim, n, rows, query),
         NEW k \in Nat, NEW metric, NEW allowed, NEW A, Admitting(n, allowed, A),
         NEW c, c = Likeness(A, rows, query, metric)
  PROVE  /\ TopK(query, rows, dim, k, metric, allowed) = Truncate(SortedScores(c), k)
         /\ c \in [A -> Int]
<1>0. /\ dim \in Nat \ {0} /\ n \in Nat /\ rows \in [1..n -> [1..dim -> Int]]
      /\ query \in [1..dim -> Int]
      /\ c = [d \in A |-> Similarity(query, rows[d], metric)]
  BY DEF Comparable, Likeness
<1>1. c \in [A -> Int]
  <2>1. \A d \in A : d \in 1..n
    BY DEF Admitting
  <2>2. \A d \in A : rows[d] \in [1..dim -> Int]
    BY <1>0, <2>1
  <2>3. \A d \in A : Similarity(query, rows[d], metric) \in Int
    BY <1>0, <2>2, SimilarityInt
  <2>. QED
    BY <1>0, <2>3
<1>2. AllScored(query, rows, metric, allowed) = {Scored(d, c[d]) : d \in DOMAIN c}
  <2>1. {e \in DOMAIN rows : Admits(allowed, e)} = A
    BY <1>0 DEF Admitting
  <2>2. \A d \in A : c[d] = Similarity(query, rows[d], metric)
    BY <1>0
  <2>3. DOMAIN c = A
    BY <1>0
  <2>4. {Scored(d, Similarity(query, rows[d], metric)) : d \in A} = {Scored(d, c[d]) : d \in A}
    BY <2>2
  <2>. QED
    BY <2>1, <2>3, <2>4 DEF AllScored
<1>3. ScanIsExact(query, rows, dim, k, metric, allowed)
  BY <1>0, DenseScan
<1>. QED
  BY <1>1, <1>2, <1>3 DEF ScanIsExact, SortedScores

\* The documents of an index that have a term of the query, with their scores.
SparseScores(n, terms, allowed, ts) ==
  [d \in Touched(n, terms, allowed, ts) |-> TotalOf(n, terms, ts, d)]

\* Such a table of scores.
LEMMA SparseScoresType ==
  ASSUME WeightType, NEW n, NEW terms, Capped(n, terms), NEW allowed,
         NEW q \in Seq(Nat)
  PROVE  /\ n \in Nat /\ Touched(n, terms, allowed, ToSet(q)) \subseteq 1..n
         /\ SparseScores(n, terms, allowed, ToSet(q)) \in [Touched(n, terms, allowed, ToSet(q)) -> Int]
<1>. DEFINE ts == ToSet(q)
            D == Touched(n, terms, allowed, ts)
<1>1. IsFiniteSet(ts)
  <2>1. IsFiniteSet(DOMAIN q)
    BY OftenType
  <2>. DEFINE f == [i \in DOMAIN q |-> q[i]]
  <2>2. f \in Surjection(DOMAIN q, ts)
    BY DEF ToSet, Surjection
  <2>. HIDE DEF ts, f
  <2>. QED
    BY <2>1, <2>2, FS_Surjection
<1>2. D \subseteq 1..n
  BY DEF Touched
<1>3. n \in Nat
  BY DEF Capped, Texts
<1>. HIDE DEF ts
<1>4. \A d \in D : TotalOf(n, terms, ts, d) \in Int
  BY <1>1, <1>2, TotalNext
<1>. QED
  BY <1>2, <1>3, <1>4 DEF SparseScores, ts

\* The sparse arm ranks what the definition of the ranking says.
LEMMA SparseArm ==
  ASSUME WeightType, Corpus(held), NEW query, query.terms \in Seq(Nat), NEW k \in Nat,
         NEW allowed, Admitting(Len(held), allowed, Allowed(query)),
         NEW s, s = SparseScores(Len(held), Terms(held), allowed, ToSet(query.terms)),
         NEW E, E = Touched(Len(held), Terms(held), allowed, ToSet(query.terms))
  PROVE  /\ E \subseteq Allowed(query) /\ s \in [E -> Int]
         /\ SparseRank(query) = Among(E, s)
         /\ Score(Build(Terms(held)), query.terms, allowed, k) = Truncate(SortedScores(s), k)
<1>. DEFINE n == Len(held)
            terms == Terms(held)
            ts == ToSet(query.terms)
            Df(t) == Cardinality({d \in DOMAIN held : Count(t, held[d]) > 0})
            Shared(d) == {t \in ToSet(query.terms) : Count(t, held[d]) > 0}
            avgdl == <<SumFunction([d \in DOMAIN held |-> Len(held[d].terms)]), Len(held)>>
            Bm25Score(d) == SumFunction([t \in Shared(d) |->
                              Weight(Len(held), Df(t), Count(t, held[d]),
                                     Len(held[d].terms), avgdl)])
            found == {d \in Allowed(query) : Shared(d) # {}}
<1>1. /\ n \in Nat /\ DOMAIN held = 1..n /\ Capped(n, terms)
      /\ DOMAIN terms = 1..n /\ \A d \in 1..n : terms[d] = held[d].terms
  <2>1. n \in Nat /\ DOMAIN held = 1..n /\ Texts(n, terms) /\ \A d \in 1..n : Len(terms[d]) <= MaxTf
    BY Columned
  <2>2. DOMAIN terms = 1..n /\ \A d \in 1..n : terms[d] = held[d].terms
    BY DEF Terms
  <2>. QED
    BY <2>1, <2>2 DEF Capped
<1>2. SparseRank(query) = Among(found, [d \in found |-> Bm25Score(d)])
  BY DEF SparseRank
<1>3. ASSUME NEW d \in 1..n, NEW t PROVE Count(t, held[d]) = Often(terms[d], t)
  <2>1. terms[d] = held[d].terms
    BY <1>1
  <2>. QED
    BY <2>1 DEF Count, Often, Places
<1>4. avgdl = <<SumFunction(Lengths(terms)), n>>
  <2>1. [d \in DOMAIN held |-> Len(held[d].terms)] = Lengths(terms)
    BY <1>1 DEF Lengths
  <2>. QED
    BY <2>1
<1>5. ASSUME NEW t PROVE Df(t) = Cardinality(Having(n, terms, t))
  <2>1. {d \in DOMAIN held : Count(t, held[d]) > 0} = Having(n, terms, t)
    BY <1>1, <1>3 DEF Having
  <2>. QED
    BY <2>1
<1>6. ASSUME NEW d \in 1..n PROVE Shared(d) = Shares(terms, ts, d)
  BY <1>3 DEF Shares
<1>. HIDE DEF Df, avgdl, n, terms
<1>7. ASSUME NEW d \in 1..n PROVE Bm25Score(d) = TotalOf(n, terms, ts, d)
  <2>1. ASSUME NEW t PROVE Weight(Len(held), Df(t), Count(t, held[d]), Len(held[d].terms), avgdl)
                             = Weighs(n, terms, t)[d]
    <3>1. Weighs(n, terms, t)[d]
            = Weight(n, Cardinality(Having(n, terms, t)), Often(terms[d], t),
                     Len(terms[d]), <<SumFunction(Lengths(terms)), n>>)
      BY DEF Weighs
    <3>2. Len(held[d].terms) = Len(terms[d]) /\ Len(held) = n
      BY <1>1 DEF n
    <3>3. Df(t) = Cardinality(Having(n, terms, t)) /\ Count(t, held[d]) = Often(terms[d], t)
      BY <1>3, <1>5
    <3>. QED
      BY <1>4, <3>1, <3>2, <3>3
  <2>2. Shared(d) = Shares(terms, ts, d)
    BY <1>6
  <2>. HIDE DEF Shared
  <2>3. [t \in Shared(d) |-> Weight(Len(held), Df(t), Count(t, held[d]), Len(held[d].terms), avgdl)]
          = [t \in Shares(terms, ts, d) |-> Weighs(n, terms, t)[d]]
    BY <2>1, <2>2
  <2>. QED
    BY <2>3 DEF TotalOf
<1>8. found = E
  <2>1. ASSUME NEW d PROVE d \in found <=> d \in E
    <3>1. Allowed(query) \subseteq 1..n
      BY DEF Admitting, n
    <3>2. d \in found <=> d \in 1..n /\ d \in Allowed(query) /\ Shared(d) # {}
      BY <3>1
    <3>3. d \in 1..n => (d \in Allowed(query) <=> Admits(allowed, d))
      BY DEF Admitting, n
    <3>4. d \in E <=> d \in 1..n /\ Admits(allowed, d) /\ Shares(terms, ts, d) # {}
      BY DEF Touched, n, terms
    <3>. HIDE DEF found, Shared
    <3>. QED
      BY <1>6, <3>2, <3>3, <3>4
  <2>. HIDE DEF found
  <2>. QED
    BY <2>1
<1>9. E \subseteq 1..n /\ E \subseteq Allowed(query)
  <2>1. E \subseteq Allowed(query)
    BY <1>8
  <2>. QED
    BY <2>1 DEF Admitting, n
<1>10. [d \in found |-> Bm25Score(d)] = s
  <2>1. s = [d \in E |-> TotalOf(n, terms, ts, d)]
    BY DEF SparseScores, n, terms
  <2>. HIDE DEF Bm25Score, found
  <2>. QED
    BY <1>7, <1>8, <1>9, <2>1
<1>11. SparseIsExact(n, terms, query.terms, allowed, k)
  BY <1>1, SparseScan
<1>12. Score(Build(terms), query.terms, allowed, k) = Truncate(SortedScores(s), k)
  <2>1. s = [d \in Touched(n, terms, allowed, ts) |-> TotalOf(n, terms, ts, d)]
    BY DEF SparseScores, n, terms
  <2>. QED
    BY <1>11, <2>1 DEF SparseIsExact
<1>13. s \in [E -> Int]
  BY <1>1, SparseScoresType DEF n, terms
<1>. HIDE DEF found, Bm25Score
<1>. QED
  BY <1>2, <1>8, <1>9, <1>10, <1>12, <1>13 DEF terms

\* What the state has of an index: its parts, as they follow from the documents.
IndexOf(docs) ==
  /\ Corpus(docs) /\ Distinct(docs)
  /\ live.meta = Metadata(docs) /\ live.dense = Vectors(docs)
  /\ live.bm25 = Build(Terms(docs)) /\ live.dim = Dim /\ live.metric = Metric
  /\ live.graph = Resolve(Outlinks(docs), UrlIndex(Metadata(docs)))

\* An index in memory is that of its documents.
LEMMA LiveIndex ==
  ASSUME KeysInv, live.kind = "index"
  PROVE  IndexOf(held)
<1>1. Corpus(held) /\ Distinct(held) /\ live = Assemble(PartsOf(Entries(held)), live.image)
  BY DEF KeysInv, Inv
<1>. DEFINE p == PartsOf(Entries(held))
<1>2. p = [ dim |-> Dim, metric |-> Metric, embedder_id |-> EmbedderId,
            meta |-> Metadata(held), dense |-> Vectors(held), edges |-> Outlinks(held),
            bm25 |-> Build(Terms(held)) ]
  BY <1>1, SevenParts
<1>. HIDE DEF p
<1>3. /\ p.dim = Dim /\ p.metric = Metric /\ p.meta = Metadata(held)
      /\ p.dense = Vectors(held) /\ p.edges = Outlinks(held) /\ p.bm25 = Build(Terms(held))
  BY <1>2
<1>4. SameParts(live, p)
  BY <1>1, AssembledParts DEF p
<1>5. live.graph = Resolve(p.edges, UrlIndex(p.meta))
  BY <1>1 DEF Assemble, p
<1>. QED
  BY <1>1, <1>3, <1>4, <1>5 DEF SameParts, IndexOf

\* A query and its parts.
Asked(query) ==
  /\ query.vector \in [1..Dim -> Int] /\ query.terms \in Seq(Nat) /\ query.limit \in Nat
  /\ query.rank.dense_weight \in Int /\ query.rank.sparse_weight \in Int
  /\ query.rank.k \in Nat /\ query.rank.graph_boost \in Int
  /\ Candidates(query) \in Nat

\* The queries are such.
LEMMA QueryAsked ==
  ASSUME NEW q \in DOMAIN Queries
  PROVE  Asked(Queries[q])
<1>. DEFINE query == Queries[q]
<1>1. query.vector \in [1..Dim -> Int]
  BY IndexAssumption DEF Vector
<1>2. query.terms \in Seq(Nat) /\ query.limit \in Nat /\ query.rank \in RankParams
      /\ CandidateFloor \in Nat
  BY SearchAssumption
<1>. HIDE DEF query
<1>3. /\ query.rank.dense_weight \in Int /\ query.rank.sparse_weight \in Int
      /\ query.rank.k \in Nat /\ query.rank.graph_boost \in Int
      /\ query.rank.candidate_multiplier \in Nat
  BY <1>2 DEF RankParams
<1>4. Candidates(query) \in Nat
  <2>1. Larger(query.rank.candidate_multiplier, 1) \in Nat
    BY <1>3 DEF Larger
  <2>. DEFINE a == Larger(query.rank.candidate_multiplier, 1)
              b == query.limit * a
  <2>2. b \in Nat
    <3>1. a \in Nat
      BY <2>1
    <3>. HIDE DEF a
    <3>. QED
      BY <1>2, <3>1
  <2>. HIDE DEF b
  <2>3. Larger(b, CandidateFloor) \in Nat
    BY <1>2, <2>2 DEF Larger
  <2>. QED
    BY <2>3 DEF Candidates, b
<1>. QED
  BY <1>1, <1>2, <1>3, <1>4 DEF Asked, query

\* The candidates of both arms, and how they are ranked.
DenseIds(query) ==
  Ids(TopK(query.vector, live.dense, live.dim, Candidates(query), live.metric,
           Evaluate(query.filter, live.meta)))
SparseIds(query) ==
  Ids(Score(live.bm25, query.terms, Evaluate(query.filter, live.meta), Candidates(query)))

\* The lists of both arms are the first of their rankings.
Led(query) ==
  /\ Allowed(query) \subseteq 1..Len(held)
  /\ DOMAIN DenseRank(query) = Allowed(query)
  /\ DOMAIN SparseRank(query) \subseteq Allowed(query)
  /\ Leading(DenseIds(query), DOMAIN DenseRank(query), DenseRank(query), Candidates(query))
  /\ Leading(SparseIds(query), DOMAIN SparseRank(query), SparseRank(query), Candidates(query))

\* So they are for every query of an index in memory.
LEMMA ArmsLead ==
  ASSUME WeightType, IndexOf(held), NEW query, Asked(query)
  PROVE  Led(query)
<1>. DEFINE n == Len(held)
            A == Allowed(query)
            k == Candidates(query)
            allowed == Evaluate(query.filter, live.meta)
            c == [d \in A |-> Similarity(query.vector, held[d].vector, Metric)]
            E == Touched(n, Terms(held), allowed, ToSet(query.terms))
            s == SparseScores(n, Terms(held), allowed, ToSet(query.terms))
<1>1. /\ n \in Nat /\ DOMAIN held = 1..n /\ Corpus(held)
      /\ Vectors(held) \in [1..n -> [1..Dim -> Int]]
  BY Columned DEF IndexOf
<1>2. A \subseteq 1..n
  BY <1>1 DEF Allowed
<1>3. Admitting(n, allowed, A)
  <2>1. ASSUME NEW d \in 1..n PROVE Admits(allowed, d) <=> d \in A
    <3>1. Admits(Evaluate(query.filter, Metadata(held)), d) <=> Matches(query.filter, MetaOf(held[d]))
      BY Prefiltered
    <3>2. d \in A <=> Matches(query.filter, MetaOf(held[d]))
      BY <1>1 DEF Allowed
    <3>3. allowed = Evaluate(query.filter, Metadata(held))
      BY DEF IndexOf
    <3>. QED
      BY <3>1, <3>2, <3>3
  <2>. QED
    BY <1>2, <2>1 DEF Admitting
<1>4. k \in Nat /\ query.vector \in [1..Dim -> Int] /\ query.terms \in Seq(Nat)
  BY DEF Asked
<1>5. Dim \in Nat \ {0}
  BY IndexAssumption
<1>6. \A d \in 1..n : Vectors(held)[d] = held[d].vector
  BY DEF Vectors
<1>7. /\ live.dense = Vectors(held) /\ live.bm25 = Build(Terms(held)) /\ live.dim = Dim
      /\ live.metric = Metric
  BY DEF IndexOf
<1>. HIDE DEF n, A, k, allowed
<1>8. c = [d \in A |-> Similarity(query.vector, Vectors(held)[d], Metric)]
  BY <1>2, <1>6
<1>. HIDE DEF c
<1>9. /\ TopK(query.vector, Vectors(held), Dim, k, Metric, allowed) = Truncate(SortedScores(c), k)
      /\ c \in [A -> Int]
  <2>. DEFINE v == query.vector
              rows == Vectors(held)
  <2>1. Comparable(Dim, n, rows, v) /\ c = Likeness(A, rows, v, Metric)
    BY <1>1, <1>4, <1>5, <1>8 DEF Comparable, Likeness
  <2>. HIDE DEF v, rows
  <2>2. TopK(v, rows, Dim, k, Metric, allowed) = Truncate(SortedScores(c), k) /\ c \in [A -> Int]
    BY <1>3, <1>4, <2>1, DenseArm
  <2>. QED
    BY <2>2 DEF v, rows
<1>10. A \subseteq Nat /\ IsFiniteSet(A)
  <2>1. IsFiniteSet(1..n)
    BY <1>1, FS_Interval
  <2>2. IsFiniteSet(A)
    BY <1>2, <2>1, FS_Subset
  <2>3. A \subseteq Nat
    BY <1>1, <1>2
  <2>. QED
    BY <2>2, <2>3
<1>11. DenseRank(query) = Among(A, c) /\ DOMAIN DenseRank(query) = A
  <2>1. DenseRank(query) = Among(A, c)
    BY DEF DenseRank, A, c
  <2>. QED
    BY <1>9, <1>10, <2>1, AmongRank
<1>12. Leading(DenseIds(query), A, Among(A, c), k)
  <2>. DEFINE T == Truncate(SortedScores(c), k)
  <2>1. Leading(Ids(T), A, Among(A, c), k)
    BY <1>4, <1>9, <1>10, SortedLeads
  <2>2. DenseIds(query) = Ids(T)
    BY <1>7, <1>9 DEF DenseIds, k, allowed
  <2>. QED
    BY <2>1, <2>2
<1>. HIDE DEF E, s
<1>13. /\ E \subseteq A /\ s \in [E -> Int]
       /\ SparseRank(query) = Among(E, s)
       /\ Score(Build(Terms(held)), query.terms, allowed, k) = Truncate(SortedScores(s), k)
  BY <1>1, <1>3, <1>4, SparseArm DEF n, A, E, s
<1>14. E \subseteq Nat /\ IsFiniteSet(E)
  <2>1. IsFiniteSet(E)
    BY <1>10, <1>13, FS_Subset
  <2>. QED
    BY <1>10, <1>13, <2>1
<1>15. DOMAIN SparseRank(query) = E
  BY <1>13, <1>14, AmongRank
<1>16. Leading(SparseIds(query), E, Among(E, s), k)
  <2>. DEFINE T == Truncate(SortedScores(s), k)
  <2>1. Leading(Ids(T), E, Among(E, s), k)
    BY <1>4, <1>13, <1>14, SortedLeads
  <2>2. SparseIds(query) = Ids(T)
    BY <1>7, <1>13 DEF SparseIds, k, allowed
  <2>. QED
    BY <2>1, <2>2
<1>. QED
  BY <1>2, <1>11, <1>12, <1>13, <1>15, <1>16 DEF Led, n, A, k

\* What a query's documents earn is what both arms give their candidates.
LEMMA EarnedBoth ==
  ASSUME NEW query, Asked(query), Led(query), IndexOf(held)
  PROVE  /\ Earned(query) = FromBoth(DOMAIN DenseRank(query), DenseRank(query),
                                     DOMAIN SparseRank(query), SparseRank(query),
                                     Candidates(query), query.rank.dense_weight,
                                     query.rank.sparse_weight, query.rank.k)
         /\ Len(held) \in Nat /\ DOMAIN Earned(query) \subseteq 1..Len(held)
         /\ IsFiniteSet(DOMAIN Earned(query)) /\ DOMAIN Earned(query) \subseteq Nat
         /\ Earned(query) \in [DOMAIN Earned(query) -> Int]
<1>. DEFINE D == DOMAIN DenseRank(query)
            E == DOMAIN SparseRank(query)
            a == DenseRank(query)
            b == SparseRank(query)
            n == Candidates(query)
            v == query.rank.dense_weight
            w == query.rank.sparse_weight
            k == query.rank.k
            A == Allowed(query)
            m == Len(held)
            P == Top(D, a, n) \cup Top(E, b, n)
<1>1. /\ A \subseteq 1..m /\ D = A /\ E \subseteq A
      /\ \A d \in D : a[d] \in Nat \ {0}
      /\ \A d \in E : b[d] \in Nat \ {0}
  <2>1. A \subseteq 1..m /\ D = A /\ E \subseteq A /\ Leading(DenseIds(query), D, a, n)
        /\ Leading(SparseIds(query), E, b, n)
    BY DEF Led
  <2>2. \A d \in D : a[d] \in Nat \ {0}
    BY <2>1 DEF Leading
  <2>3. \A d \in E : b[d] \in Nat \ {0}
    BY <2>1 DEF Leading
  <2>. QED
    BY <2>1, <2>2, <2>3
<1>2. n \in Nat /\ v \in Int /\ w \in Int /\ k \in Nat
  BY DEF Asked
<1>3. m \in Nat
  BY Columned DEF IndexOf
<1>4. Earned(query) = [d \in {e \in A : (e \in D /\ a[e] <= n) \/ (e \in E /\ b[e] <= n)} |->
                         (IF d \in D /\ a[d] <= n THEN RrfTerm(v, k, a[d]) ELSE 0)
                           + (IF d \in E /\ b[d] <= n THEN RrfTerm(w, k, b[d]) ELSE 0)]
  BY DEF Earned
<1>. HIDE DEF D, E, a, b, n, v, w, k, A, m
<1>5. {e \in A : (e \in D /\ a[e] <= n) \/ (e \in E /\ b[e] <= n)} = P
  BY <1>1 DEF Top
<1>6. Earned(query) = FromBoth(D, a, E, b, n, v, w, k)
  <2>1. Earned(query) = [d \in P |-> (IF d \in D /\ a[d] <= n THEN RrfTerm(v, k, a[d]) ELSE 0)
                           + (IF d \in E /\ b[d] <= n THEN RrfTerm(w, k, b[d]) ELSE 0)]
    BY <1>4, <1>5
  <2>. QED
    BY <2>1 DEF FromBoth, FromArm
<1>7. DOMAIN Earned(query) = P
  BY <1>6 DEF FromBoth
<1>8. P \subseteq 1..m
  BY <1>1 DEF Top
<1>9. IsFiniteSet(P)
  <2>1. IsFiniteSet(1..m)
    BY <1>3, FS_Interval
  <2>. HIDE DEF P
  <2>. QED
    BY <1>8, <2>1, FS_Subset
<1>10. P \subseteq Nat
  BY <1>3, <1>8
<1>11. \A d \in P : FromArm(D, a, n, v, k, d) + FromArm(E, b, n, w, k, d) \in Int
  <2>1. \A d : FromArm(D, a, n, v, k, d) \in Int
    BY <1>1, <1>2, FromArmInt
  <2>2. \A d : FromArm(E, b, n, w, k, d) \in Int
    BY <1>1, <1>2, FromArmInt
  <2>. QED
    BY <2>1, <2>2
<1>12. Earned(query) \in [P -> Int]
  BY <1>6, <1>11 DEF FromBoth
<1>. HIDE DEF P
<1>. QED
  BY <1>3, <1>6, <1>7, <1>8, <1>9, <1>10, <1>12 DEF D, E, a, b, n, v, w, k, m

\* Both arms fused, down to a limit.
FusedTo(query, limit) == Truncate(SortedScores(Earned(query)), limit)

\* A search, when what its documents earn is known.
SearchFused(query) ==
  IF live.meta = <<>> THEN <<>>
  ELSE IF query.rank.graph_boost > 0
    THEN Truncate(Boosted(live.graph, FusedTo(query, Candidates(query)), query.rank.graph_boost),
                  query.limit)
    ELSE FusedTo(query, query.limit)

\* The search fuses to what the documents earn.
LEMMA FusedIs ==
  ASSUME NEW query, Asked(query), Led(query), IndexOf(held)
  PROVE  SearchPrepared(live, query) = SearchFused(query)
<1>. DEFINE L == DenseIds(query)
            M == SparseIds(query)
            v == query.rank.dense_weight
            w == query.rank.sparse_weight
            k == query.rank.k
            lists == <<ListOf(L, v), ListOf(M, w)>>
            D == DOMAIN DenseRank(query)
            E == DOMAIN SparseRank(query)
            a == DenseRank(query)
            b == SparseRank(query)
            n == Candidates(query)
<1>1. SearchPrepared(live, query)
        = IF live.meta = <<>> THEN <<>>
          ELSE IF query.rank.graph_boost > 0
            THEN Truncate(Boosted(live.graph,
                            Fuse(lists, k, IF query.rank.graph_boost > 0 THEN Candidates(query)
                                           ELSE query.limit),
                            query.rank.graph_boost),
                          query.limit)
            ELSE Fuse(lists, k, IF query.rank.graph_boost > 0 THEN Candidates(query)
                                ELSE query.limit)
  BY DEF SearchPrepared, DenseIds, SparseIds, ListOf
<1>2. WithLists(lists, k) = Earned(query)
  <2>1. Leading(L, D, a, n) /\ Leading(M, E, b, n) /\ D = Allowed(query) /\ E \subseteq Allowed(query)
        /\ Allowed(query) \subseteq 1..Len(held)
    BY DEF Led
  <2>2. n \in Nat /\ v \in Int /\ w \in Int /\ k \in Nat
    BY DEF Asked
  <2>3. Len(held) \in Nat
    BY Columned DEF IndexOf
  <2>. HIDE DEF D, E
  <2>4. D \subseteq Nat /\ E \subseteq Nat
    BY <2>1, <2>3
  <2>. HIDE DEF L, M, v, w, k, a, b, n
  <2>7. ArmOf(L, D, a, n) /\ ArmOf(M, E, b, n)
    BY <2>1, <2>4 DEF ArmOf
  <2>5. WithLists(lists, k) = FromBoth(D, a, E, b, n, v, w, k)
    BY <2>2, <2>7, TwoLists
  <2>6. Earned(query) = FromBoth(D, a, E, b, n, v, w, k)
    BY EarnedBoth DEF D, E, v, w, k, a, b, n
  <2>. QED
    BY <2>5, <2>6
<1>. HIDE DEF lists
<1>3. ASSUME NEW limit PROVE Fuse(lists, k, limit) = FusedTo(query, limit)
  <2>1. Fuse(lists, k, limit) = Truncate(SortedScores(WithLists(lists, k)), limit)
    BY DEF Fuse, WithLists, WithList
  <2>. QED
    BY <1>2, <2>1 DEF FusedTo
<1>. HIDE DEF k
<1>. QED
  BY <1>1, <1>3 DEF SearchFused

\* The fused and boosted lists are those that the definition of the ranking
\* selects.
LEMMA FusedExpected ==
  ASSUME NEW query, Asked(query), Led(query), IndexOf(held)
  PROVE  SearchFused(query) = Expected(query)
<1>. DEFINE c == Earned(query)
            D == DOMAIN c
            m == Len(held)
            boost == query.rank.graph_boost
            boosted == boost > 0
            n == IF boosted THEN Candidates(query) ELSE query.limit
            P == Top(D, Among(D, c), n)
            f == [d \in P |-> c[d]]
            edges == Outlinks(held)
            keys == [e \in 1..m |-> held[e].url_key]
            by_url == UrlIndex(Metadata(held))
            pool == {d \in D : Among(D, c)[d] <= n}
            Ties(d, e) == Links(d, e) + Links(e, d)
            degree(d) == SumFunction([e \in pool |-> Ties(d, e)])
            Gain(d) == IF degree(d) = 0 THEN 0
                       ELSE (boost * SumFunction([e \in pool |-> Ties(d, e) * c[e]])) \div degree(d)
            final == [d \in pool |-> c[d] + (IF boosted THEN Gain(d) ELSE 0)]
<1>1. Expected(query) = Truncate(SortedScores(final), query.limit)
  BY DEF Expected
<1>2. /\ m \in Nat /\ D \subseteq 1..m /\ IsFiniteSet(D) /\ D \subseteq Nat /\ c \in [D -> Int]
  BY EarnedBoth
<1>3. query.limit \in Nat /\ Candidates(query) \in Nat /\ boost \in Int /\ n \in Nat
  BY DEF Asked
<1>4. pool = P
  BY DEF Top
<1>5. Keyed(m, edges, keys, by_url)
  BY UrlsLead DEF IndexOf
<1>6. ASSUME NEW d \in 1..m, NEW e \in 1..m PROVE Links(d, e) = LinksTo(edges, keys, d, e)
  <2>1. edges[d] = held[d].edges /\ keys[e] = held[e].url_key
    BY DEF Outlinks
  <2>. QED
    BY <2>1 DEF Links, LinksTo, Often, Places
<1>7. live.meta = Metadata(held) /\ live.graph = Resolve(edges, by_url)
  BY DEF IndexOf
<1>. HIDE DEF c, D, m, boost, n, pool, edges, keys, by_url
<1>8. /\ P \subseteq D /\ IsFiniteSet(P) /\ f \in [P -> Int]
      /\ Truncate(SortedScores(c), n) = SortedScores(f)
      /\ Truncate(SortedScores(f), n) = SortedScores(f)
      /\ ToSet(SortedScores(f)) = Listed(P, f)
  <2>1. Tabled(D, c)
    BY <1>2 DEF Tabled
  <2>2. P = Top(D, Among(D, c), n) /\ f = [d \in P |-> c[d]]
    OBVIOUS
  <2>. HIDE DEF P, f
  <2>3. Pooled(c, n, D, P, f)
    BY <1>3, <2>1, <2>2, PoolLeads
  <2>. QED
    BY <2>3 DEF Pooled
<1>9. P \subseteq 1..m /\ \A d \in P : f[d] = c[d] /\ c[d] \in Int
  BY <1>2, <1>8
<1>. HIDE DEF P
<1>10. CASE live.meta = <<>>
  <2>1. m = 0
    <3>1. live.meta = Metadata(held) /\ Len(Metadata(held)) = m
      <4>1. \A d \in 1..m : MetaOf(held[d]) \in {MetaOf(held[e]) : e \in 1..m}
        OBVIOUS
      <4>2. Metadata(held) \in [1..m -> {MetaOf(held[e]) : e \in 1..m}]
        BY <4>1 DEF Metadata, m
      <4>. QED
        BY <1>2, <1>7, <4>2, AsSequence
    <3>2. Len(<<>>) = 0
      OBVIOUS
    <3>. QED
      BY <1>10, <3>1, <3>2
  <2>2. P = {}
    BY <1>9, <2>1
  <2>3. final = [d \in {} |-> 0]
    BY <1>4, <2>2
  <2>. DEFINE z == [d \in {} |-> 0]
  <2>4. z \in [{} -> Int] /\ IsFiniteSet({}) /\ {} \subseteq Nat
    BY FS_EmptySet
  <2>. HIDE DEF z
  <2>5. Truncate(SortedScores(z), query.limit) = <<>>
    <3>. DEFINE none == {}
    <3>1. z \in [none -> Int] /\ IsFiniteSet(none) /\ none \subseteq Nat /\ none = {}
      BY <2>4
    <3>. HIDE DEF none
    <3>. QED
      BY <1>3, <3>1, NothingLeftOf
  <2>. QED
    BY <1>1, <1>10, <2>3, <2>5 DEF SearchFused, z
<1>11. CASE live.meta # <<>> /\ ~boosted
  <2>1. SearchFused(query) = FusedTo(query, query.limit) /\ n = query.limit
    BY <1>11 DEF SearchFused, boost, n
  <2>2. FusedTo(query, query.limit) = SortedScores(f)
    BY <1>8, <2>1 DEF FusedTo, c
  <2>3. final = f
    <3>1. final = [d \in P |-> c[d] + 0]
      BY <1>4, <1>11
    <3>. HIDE DEF final
    <3>. QED
      BY <1>9, <3>1
  <2>. HIDE DEF final, f
  <2>. QED
    BY <1>1, <1>8, <2>1, <2>2, <2>3
<1>12. CASE live.meta # <<>> /\ boosted
  <2>1. SearchFused(query)
          = Truncate(Boosted(live.graph, FusedTo(query, Candidates(query)), boost), query.limit)
        /\ n = Candidates(query)
    BY <1>12 DEF SearchFused, boost, n
  <2>2. FusedTo(query, Candidates(query)) = SortedScores(f)
    BY <1>8, <2>1 DEF FusedTo, c
  <2>. DEFINE ranked == SortedScores(f)
              more == Lifted(edges, keys, P, f, boost)
              graph == live.graph
  <2>3. Boosted(live.graph, ranked, boost) = SortedScores(more)
    <3>1. boost > 0
      BY <1>12
    <3>2. ranked = SortedScores(f)
      OBVIOUS
    <3>3. graph = Resolve(edges, by_url)
      BY <1>7
    <3>4. PoolList(m, P, f, ranked)
      BY <1>8, <1>9 DEF PoolList
    <3>. HIDE DEF f, ranked, graph
    <3>5. Boosted(graph, ranked, boost) = SortedScores(Lifted(edges, keys, P, f, boost))
      BY <1>3, <1>5, <3>1, <3>3, <3>4, BoostCounted
    <3>. QED
      BY <3>5 DEF graph
  <2>4. ASSUME NEW d \in P PROVE final[d] = more[d]
    <3>. DEFINE ties == [e \in P |-> TiesOf(edges, keys, d, e)]
                weighted == [e \in P |-> TiesOf(edges, keys, d, e) * f[e]]
    <3>1. \A e \in P : Ties(d, e) = TiesOf(edges, keys, d, e) /\ c[e] = f[e]
      BY <1>6, <1>9 DEF TiesOf
    <3>. HIDE DEF Ties
    <3>2. [e \in pool |-> Ties(d, e)] = ties
      BY <1>4, <3>1
    <3>3. [e \in pool |-> Ties(d, e) * c[e]] = weighted
      BY <1>4, <3>1
    <3>4. Gain(d) = MeanOf(edges, keys, P, f, boost, d)
      BY <3>2, <3>3 DEF MeanOf
    <3>5. final[d] = c[d] + Gain(d)
      BY <1>4, <1>12
    <3>. HIDE DEF Gain, final
    <3>6. more[d] = f[d] + MeanOf(edges, keys, P, f, boost, d)
      BY DEF Lifted
    <3>. HIDE DEF more
    <3>. QED
      BY <1>9, <3>4, <3>5, <3>6
  <2>5. final = more
    <3>1. final = [d \in P |-> final[d]]
      BY <1>4
    <3>2. more = [d \in P |-> more[d]]
      BY DEF Lifted
    <3>. HIDE DEF final, more
    <3>. QED
      BY <2>4, <3>1, <3>2
  <2>. HIDE DEF final, more, f
  <2>. QED
    BY <1>1, <2>1, <2>2, <2>3, <2>5
<1>. QED
  BY <1>10, <1>11, <1>12

\* In a state of the invariant every search returns what it should.
LEMMA InvSearch ==
  ASSUME WeightType, KeysInv
  PROVE  SearchExact
<1>. SUFFICES ASSUME live.kind = "index", NEW q \in DOMAIN Queries
              PROVE  SearchPrepared(live, Queries[q]) = Expected(Queries[q])
  BY DEF SearchExact
<1>. DEFINE query == Queries[q]
<1>1. Asked(query)
  BY QueryAsked
<1>2. IndexOf(held)
  BY LiveIndex
<1>. HIDE DEF query
<1>3. Led(query)
  BY <1>1, <1>2, ArmsLead
<1>4. SearchPrepared(live, query) = SearchFused(query)
  BY <1>1, <1>2, <1>3, FusedIs
<1>5. SearchFused(query) = Expected(query)
  BY <1>1, <1>2, <1>3, FusedExpected
<1>. QED
  BY <1>4, <1>5 DEF query

\* However an index was built, saved, reopened or changed, a search returns the
\* documents that the definition of the ranking selects, in that order and with
\* those scores (Index::search_prepared).
THEOREM SearchAlwaysExact ==
  ASSUME WeightType
  PROVE  Spec => []SearchExact
<1>1. KeysInv => SearchExact
  BY InvSearch
<1>. QED
  BY <1>1, KeysDistinct, PTL

(***************************************************************************)
(* Hits of the knowledge base.                                             *)
(***************************************************************************)

\* Pages, each with its own URL, by their scores.
Paged(n, url, score) ==
  /\ n \in Nat /\ url \in [1..n -> Nat] /\ score \in [1..n -> Int]
  /\ \A i, j \in 1..n : url[i] = url[j] => i = j

\* The pages ahead of one of them.
PagesAhead(n, url, score, j) ==
  {i \in 1..n : score[i] > score[j] \/ (score[i] = score[j] /\ url[i] < url[j])}

(***************************************************************************)
(* Pages of results and related links.                                     *)
(***************************************************************************)

\* Each page has its own place, and no place is empty.
LEMMA PagePlaces ==
  ASSUME NEW n, NEW url, NEW score, Paged(n, url, score)
  PROVE  \A r \in 1..n :
           \E j \in 1..n : /\ 1 + Cardinality(PagesAhead(n, url, score, j)) = r
                           /\ \A i \in 1..n :
                                1 + Cardinality(PagesAhead(n, url, score, i)) = r => i = j
<1>. DEFINE x(i) == Scored(url[i], score[i])
            A == {x(i) : i \in 1..n}
            at == [i \in 1..n |-> x(i)]
            Card(j) == Cardinality(PagesAhead(n, url, score, j))
<1>1. /\ n \in Nat /\ url \in [1..n -> Nat] /\ score \in [1..n -> Int]
      /\ \A i, j \in 1..n : url[i] = url[j] => i = j
  BY DEF Paged
<1>2. \A i \in 1..n : /\ url[i] \in Nat /\ score[i] \in Int
                      /\ x(i).id = url[i] /\ x(i).score = score[i]
                      /\ x(i) = [id |-> x(i).id, score |-> x(i).score]
  BY <1>1 DEF Scored
<1>3. \A i, j \in 1..n : x(i).id = x(j).id => i = j
  BY <1>1, <1>2
<1>. HIDE DEF x
<1>4. at \in Bijection(1..n, A)
  <2>1. at \in [1..n -> A] /\ \A y \in A : \E i \in 1..n : at[i] = y
    OBVIOUS
  <2>2. \A i, j \in 1..n : at[i] = at[j] => i = j
    BY <1>3
  <2>. HIDE DEF at, A
  <2>. QED
    BY <2>1, <2>2 DEF Bijection, Injection, IsInjective, Surjection
<1>5. IsFiniteSet(1..n) /\ Cardinality(1..n) = n
  BY <1>1, FS_Interval
<1>6. IsFiniteSet(A) /\ Cardinality(A) = n
  <2>. HIDE DEF at, A
  <2>. QED
    BY <1>4, <1>5, FS_Bijection DEF ExistsBijection
<1>7. Ranked(A)
  <2>1. \A y \in A : \E i \in 1..n : y = x(i)
    OBVIOUS
  <2>. HIDE DEF A
  <2>. QED
    BY <1>2, <1>3, <1>6, <2>1 DEF Ranked
<1>8. ASSUME NEW j \in 1..n PROVE Card(j) = Cardinality(Ahead(A, x(j)))
  <2>. DEFINE S == PagesAhead(n, url, score, j)
              f == [i \in S |-> x(i)]
  <2>1. IsFiniteSet(S)
    <3>1. S \subseteq 1..n
      BY DEF PagesAhead
    <3>. QED
      BY <1>5, <3>1, FS_Subset
  <2>2. \A i \in S : i \in 1..n /\ x(i) \in Ahead(A, x(j))
    BY <1>2 DEF PagesAhead, Ahead, Before
  <2>3. \A y \in Ahead(A, x(j)) : \E i \in S : x(i) = y
    BY <1>2 DEF PagesAhead, Ahead, Before
  <2>4. \A i, l \in S : x(i) = x(l) => i = l
    BY <1>3, <2>2
  <2>. HIDE DEF S, A
  <2>5. f \in Bijection(S, Ahead(A, x(j)))
    BY <2>2, <2>3, <2>4 DEF Bijection, Injection, IsInjective, Surjection
  <2>. HIDE DEF f
  <2>. QED
    BY <2>1, <2>5, FS_Bijection DEF ExistsBijection, S
<1>9. ASSUME NEW r \in 1..n
      PROVE  \E j \in 1..n : 1 + Card(j) = r /\ \A i \in 1..n : 1 + Card(i) = r => i = j
  <2>. HIDE DEF Card
  <2>1. \A i \in 1..n : Card(i) \in Nat /\ x(i) \in A
    <3>. SUFFICES ASSUME NEW i \in 1..n PROVE Card(i) \in Nat /\ x(i) \in A
      OBVIOUS
    <3>1. x(i) \in A
      OBVIOUS
    <3>. HIDE DEF A
    <3>2. Cardinality(Ahead(A, x(i))) \in 0..(n - 1)
      BY <1>6, <1>7, <3>1, Positions
    <3>. QED
      BY <1>1, <1>8, <3>1, <3>2
  <2>2. \A y \in A : \E i \in 1..n : y = x(i)
    OBVIOUS
  <2>. HIDE DEF A
  <2>3. PICK y \in A : Cardinality(Ahead(A, y)) = r - 1
    BY <1>6, <1>7, Positions
  <2>4. PICK j \in 1..n : y = x(j)
    BY <2>2
  <2>5. 1 + Card(j) = r
    <3>1. Card(j) = r - 1
      BY <1>8, <2>3, <2>4
    <3>. QED
      BY <1>1, <3>1
  <2>6. ASSUME NEW i \in 1..n, 1 + Card(i) = r PROVE i = j
    <3>1. Card(i) = Card(j)
      BY <2>1, <2>5, <2>6
    <3>2. x(i) = x(j)
      BY <1>7, <1>8, <2>1, <3>1, Positions
    <3>. QED
      BY <1>3, <3>2
  <2>. QED
    BY <2>5, <2>6
<1>. QED
  BY <1>9

\* A hit, and sequences of hits of different pages.
Hit == [ url : Nat, title : Optional, score : Int, graph_rank : Seq(Nat), link_rank : Seq(Nat) ]
Hits(hits) ==
  /\ hits \in Seq(Hit)
  /\ \A i, j \in DOMAIN hits : hits[i].url = hits[j].url => i = j

\* The first hits of a list are some of it, each once, as many as there may be.
Picked(some, hits, limit) ==
  /\ DOMAIN some = 1..Len(some)
  /\ Len(some) = IF Len(hits) < limit THEN Len(hits) ELSE limit
  /\ \A i \in DOMAIN some : \E j \in DOMAIN hits : some[i] = hits[j]
  /\ \A i, j \in DOMAIN some : some[i].url = some[j].url => i = j

\* Sorting neither loses a hit nor repeats one.
LEMMA BestPicked ==
  ASSUME NEW hits, Hits(hits), NEW limit \in Nat
  PROVE  Picked(BestHits(hits, limit), hits, limit)
<1>. DEFINE n == Len(hits)
            url == [i \in 1..n |-> hits[i].url]
            score == [i \in 1..n |-> hits[i].score]
            Earlier(i, j) == HitBefore(hits[i], hits[j])
                               \/ (i < j /\ ~HitBefore(hits[j], hits[i]))
            place(j) == 1 + Cardinality({i \in 1..n : Earlier(i, j)})
            at(r) == CHOOSE j \in 1..n : place(j) = r
            sorted == [r \in 1..n |-> hits[at(r)]]
            m == IF n < limit THEN n ELSE limit
<1>1. /\ n \in Nat /\ DOMAIN hits = 1..n
      /\ \A i \in 1..n : hits[i] \in Hit
      /\ \A i, j \in 1..n : hits[i].url = hits[j].url => i = j
  BY LenProperties DEF Hits
<1>2. \A i \in 1..n : hits[i].url \in Nat /\ hits[i].score \in Int
  BY <1>1 DEF Hit
<1>3. BestHits(hits, limit) = Truncate(sorted, limit)
  BY <1>1 DEF BestHits
<1>. HIDE DEF n
<1>4. Paged(n, url, score)
  BY <1>1, <1>2 DEF Paged
<1>5. ASSUME NEW j \in 1..n PROVE place(j) = 1 + Cardinality(PagesAhead(n, url, score, j))
  <2>1. \A i \in 1..n : Earlier(i, j) <=> HitBefore(hits[i], hits[j])
    BY <1>1, <1>2 DEF HitBefore
  <2>2. {i \in 1..n : Earlier(i, j)} = PagesAhead(n, url, score, j)
    BY <2>1 DEF PagesAhead, HitBefore
  <2>. QED
    BY <2>2
<1>. HIDE DEF place, url, score
<1>6. ASSUME NEW r \in 1..n PROVE at(r) \in 1..n /\ place(at(r)) = r
  <2>1. \E j \in 1..n : place(j) = r
    BY <1>4, <1>5, PagePlaces
  <2>. QED
    BY <2>1
<1>. HIDE DEF at
<1>7. \A r, q \in 1..n : at(r) = at(q) => r = q
  BY <1>6
<1>8. m \in 0..n
  BY <1>1
<1>9. /\ DOMAIN Truncate(sorted, limit) = 1..m /\ Len(Truncate(sorted, limit)) = m
      /\ \A r \in 1..m : Truncate(sorted, limit)[r] = hits[at(r)]
  <2>1. sorted \in Seq(Hit) /\ Len(sorted) = n
    <3>1. sorted \in [1..n -> Hit]
      BY <1>1, <1>6
    <3>. HIDE DEF sorted
    <3>. QED
      BY <1>1, <3>1, AsSequence
  <2>2. Truncate(sorted, limit) = SubSeq(sorted, 1, m)
    <3>1. (IF limit < n THEN limit ELSE n) = m
      BY <1>1
    <3>. HIDE DEF sorted, m
    <3>. QED
      BY <2>1, <3>1 DEF Truncate
  <2>3. \A r \in 1..n : sorted[r] = hits[at(r)]
    OBVIOUS
  <2>. HIDE DEF sorted, m
  <2>4. SubSeq(sorted, 1, m) = [r \in 1..m |-> sorted[r]]
    BY <1>1, <1>8, <2>1
  <2>5. Len([r \in 1..m |-> sorted[r]]) = m
    BY <1>1, <1>8
  <2>. QED
    BY <1>1, <1>8, <2>2, <2>3, <2>4, <2>5
<1>. HIDE DEF sorted
<1>10. \A r \in 1..m : r \in 1..n /\ at(r) \in 1..n
  <2>. HIDE DEF m
  <2>. QED
    BY <1>1, <1>6, <1>8
<1>11. n < limit => m = n
  OBVIOUS
<1>12. ~(n < limit) => m = limit
  OBVIOUS
<1>. HIDE DEF m
<1>. QED
  BY <1>1, <1>3, <1>7, <1>9, <1>10, <1>11, <1>12 DEF Picked, n

\* What the place of a page earns it.
Earning(ranks, weight, k) == IF ranks = <<>> THEN 0 ELSE RrfTerm(weight, k, ranks[1])

\* A hit of pages of two lists, of the second as far as n.
Says(hit, G, g, K, n, v, w, k) ==
  /\ hit.graph_rank = RankIn(G, g, hit.url) /\ hit.link_rank = RankIn(K, n, hit.url)
  /\ hit.score = Earning(hit.graph_rank, v, k) + Earning(hit.link_rank, w, k)
Fused(hits, G, g, K, n, v, w, k) ==
  /\ Hits(hits)
  /\ {hits[i].url : i \in DOMAIN hits} = {G[r] : r \in 1..g} \cup {K[s] : s \in 1..n}
  /\ \A i \in DOMAIN hits : Says(hits[i], G, g, K, n, v, w, k)

\* A hit by its fields.
LEMMA HitMade ==
  ASSUME NEW u \in Nat, NEW t \in Optional, NEW c \in Int, NEW a \in Seq(Nat), NEW b \in Seq(Nat)
  PROVE  [url |-> u, title |-> t, score |-> c, graph_rank |-> a, link_rank |-> b] \in Hit
  BY DEF Hit

\* The hits of the graph alone.
LEMMA GraphFused ==
  ASSUME NEW answer, NEW g, NEW G, Listing(G, g), DOMAIN answer = 1..g,
         \A r \in 1..g : answer[r].url = G[r] /\ answer[r].title \in Optional,
         NEW K, NEW l, Listing(K, l), NEW v \in Int, NEW w, NEW k \in Nat
  PROVE  Fused([r \in DOMAIN answer |-> GraphHit(answer, r, v, k)], G, g, K, 0, v, w, k)
<1>. DEFINE hits == [r \in DOMAIN answer |-> GraphHit(answer, r, v, k)]
<1>1. g \in Nat /\ G \in [1..g -> Nat] /\ \A r, s \in 1..g : G[r] = G[s] => r = s
  BY DEF Listing
<1>2. ASSUME NEW r \in 1..g PROVE hits[r] = [ url |-> G[r], title |-> answer[r].title,
         score |-> RrfTerm(v, k, r), graph_rank |-> <<r>>, link_rank |-> <<>> ]
  BY DEF GraphHit
<1>3. ASSUME NEW r \in 1..g
      PROVE  /\ hits[r] \in Hit /\ hits[r].url = G[r]
             /\ Says(hits[r], G, g, K, 0, v, w, k)
  <2>1. r \in Nat /\ r \in Nat \ {0}
    BY <1>1
  <2>2. RrfTerm(v, k, r) \in Int
    BY <2>1, RrfInt
  <2>3. <<r>> \in Seq(Nat) /\ <<>> \in Seq(Nat) /\ <<r>> # <<>> /\ <<r>>[1] = r
    BY <2>1
  <2>. DEFINE u == G[r]
              t == answer[r].title
              e == RrfTerm(v, k, r)
              one == <<r>>
              none == <<>>
  <2>4. hits[r] \in Hit /\ hits[r].url = u /\ hits[r].graph_rank = one
        /\ hits[r].link_rank = none /\ hits[r].score = e
    <3>1. u \in Nat /\ t \in Optional /\ e \in Int /\ one \in Seq(Nat) /\ none \in Seq(Nat)
      BY <1>1, <2>2, <2>3
    <3>2. hits[r] = [ url |-> u, title |-> t, score |-> e, graph_rank |-> one, link_rank |-> none ]
      BY <1>2
    <3>. HIDE DEF hits, u, t, e, one, none
    <3>3. hits[r] \in Hit
      BY <3>1, <3>2, HitMade
    <3>. QED
      BY <3>2, <3>3
  <2>5. RankIn(G, g, G[r]) = <<r>>
    <3>1. g \in 0..g
      BY <1>1
    <3>2. \A s \in 1..g : G[s] = G[r] <=> RankIn(G, g, G[r]) = <<s>>
      BY <3>1, RankSays
    <3>. QED
      BY <3>2
  <2>6. RankIn(K, 0, G[r]) = <<>>
    BY DEF RankIn
  <2>7. Earning(<<r>>, v, k) = RrfTerm(v, k, r) /\ Earning(<<>>, w, k) = 0
    BY <2>3 DEF Earning
  <2>. HIDE DEF hits
  <2>9. hits[r].score = Earning(<<r>>, v, k) + Earning(<<>>, w, k)
    <3>1. e \in Int
      BY <2>2
    <3>. HIDE DEF e
    <3>2. e = e + 0
      BY <3>1
    <3>. QED
      BY <2>4, <2>7, <3>2 DEF e
  <2>. QED
    BY <2>4, <2>5, <2>6, <2>9, Zenon DEF Says, u, one, none
<1>4. DOMAIN hits = 1..g
  OBVIOUS
<1>. HIDE DEF hits
<1>5. hits \in Seq(Hit)
  <2>1. hits = [r \in 1..g |-> hits[r]]
    BY <1>4 DEF hits
  <2>2. hits \in [1..g -> Hit]
    BY <1>3, <2>1
  <2>. QED
    BY <1>1, <2>2, AsSequence
<1>6. Hits(hits)
  BY <1>1, <1>3, <1>4, <1>5 DEF Hits
<1>7. {hits[i].url : i \in DOMAIN hits} = {G[r] : r \in 1..g} \cup {K[s] : s \in 1..0}
  <2>1. {K[s] : s \in 1..0} = {}
    OBVIOUS
  <2>. QED
    BY <1>3, <1>4, <2>1
<1>. QED
  BY <1>3, <1>4, <1>6, <1>7 DEF Fused, hits

\* A hit the link half found too.
JoinedHit(old, hit, fill) ==
  [old EXCEPT !.score = @ + hit.score, !.link_rank = hit.link_rank,
              !.title = IF @ = <<>> /\ fill THEN hit.title ELSE @]

\* What it is, field by field.
LEMMA JoinedFields ==
  ASSUME NEW old \in Hit, NEW hit \in Hit, NEW fill
  PROVE  /\ JoinedHit(old, hit, fill) \in Hit
         /\ JoinedHit(old, hit, fill).url = old.url
         /\ JoinedHit(old, hit, fill).graph_rank = old.graph_rank
         /\ JoinedHit(old, hit, fill).link_rank = hit.link_rank
         /\ JoinedHit(old, hit, fill).score = old.score + hit.score
<1>. DEFINE u == old.url
            t == IF old.title = <<>> /\ fill THEN hit.title ELSE old.title
            c == old.score + hit.score
            a == old.graph_rank
            b == hit.link_rank
            new == JoinedHit(old, hit, fill)
<1>1. /\ old = [ url |-> old.url, title |-> old.title, score |-> old.score,
                 graph_rank |-> old.graph_rank, link_rank |-> old.link_rank ]
      /\ u \in Nat /\ old.title \in Optional /\ hit.title \in Optional
      /\ old.score \in Int /\ hit.score \in Int /\ a \in Seq(Nat) /\ b \in Seq(Nat)
  BY DEF Hit
<1>2. t \in Optional /\ c \in Int
  BY <1>1
<1>3. new = [ url |-> u, title |-> t, score |-> c, graph_rank |-> a, link_rank |-> b ]
  <2>. DEFINE first == [old EXCEPT !.score = c]
              second == [first EXCEPT !.link_rank = b]
              third == [second EXCEPT !.title = t]
  <2>1. new = third
    BY <1>1 DEF JoinedHit
  <2>2. first = [ url |-> u, title |-> old.title, score |-> c, graph_rank |-> a,
                  link_rank |-> old.link_rank ]
    <3>. HIDE DEF c
    <3>. QED
      BY <1>1
  <2>3. second = [ url |-> u, title |-> old.title, score |-> c, graph_rank |-> a, link_rank |-> b ]
    <3>. HIDE DEF c, b, u, a, first
    <3>. QED
      BY <2>2
  <2>4. third = [ url |-> u, title |-> t, score |-> c, graph_rank |-> a, link_rank |-> b ]
    <3>. HIDE DEF c, b, u, a, t, second
    <3>. QED
      BY <2>3
  <2>. QED
    BY <2>1, <2>4
<1>. HIDE DEF u, t, c, a, b, new
<1>4. new \in Hit
  BY <1>1, <1>2, <1>3, HitMade
<1>5. new.url = u /\ new.graph_rank = a /\ new.link_rank = b /\ new.score = c
  BY <1>3
<1>. QED
  BY <1>4, <1>5 DEF u, c, a, b, new

\* The hit of a page of the link half.
LEMMA LinkHitMade ==
  ASSUME NEW doc, doc.url_key \in Nat, doc.title \in Optional, NEW r \in Nat \ {0},
         NEW w \in Int, NEW k \in Nat
  PROVE  /\ LinkHit(doc, r, w, k) \in Hit /\ LinkHit(doc, r, w, k).url = doc.url_key
         /\ LinkHit(doc, r, w, k).graph_rank = <<>> /\ LinkHit(doc, r, w, k).link_rank = <<r>>
         /\ LinkHit(doc, r, w, k).score = RrfTerm(w, k, r)
<1>. DEFINE u == doc.url_key
            t == doc.title
            c == RrfTerm(w, k, r)
            a == <<>>
            b == <<r>>
            new == LinkHit(doc, r, w, k)
<1>1. u \in Nat /\ t \in Optional /\ c \in Int /\ a \in Seq(Nat) /\ b \in Seq(Nat)
  BY RrfInt
<1>2. new = [ url |-> u, title |-> t, score |-> c, graph_rank |-> a, link_rank |-> b ]
  BY DEF LinkHit
<1>. HIDE DEF u, t, c, a, b, new
<1>3. new \in Hit
  BY <1>1, <1>2, HitMade
<1>4. new.url = u /\ new.graph_rank = a /\ new.link_rank = b /\ new.score = c
  BY <1>2
<1>. QED
  BY <1>3, <1>4 DEF u, c, a, b, new

\* What a page earns is a number.
LEMMA EarningInt ==
  ASSUME NEW pages, NEW l, Listing(pages, l), NEW url, NEW v \in Int, NEW k \in Nat
  PROVE  Earning(RankIn(pages, l, url), v, k) \in Int
<1>1. CASE \E s \in 1..l : pages[s] = url
  <2>. DEFINE r == CHOOSE s \in 1..l : pages[s] = url
  <2>1. r \in 1..l
    BY <1>1
  <2>2. RankIn(pages, l, url) = <<r>>
    BY <1>1 DEF RankIn
  <2>. HIDE DEF r
  <2>3. r \in Nat \ {0}
    BY <2>1 DEF Listing
  <2>4. RrfTerm(v, k, r) \in Int
    BY <2>3, RrfInt
  <2>. QED
    BY <2>2, <2>4 DEF Earning
<1>2. CASE ~(\E s \in 1..l : pages[s] = url)
  BY <1>2 DEF RankIn, Earning
<1>. QED
  BY <1>1, <1>2

\* A page of the link half joins the hit of the same page, or the others.
LEMMA LinkAdded ==
  ASSUME NEW G, NEW g, Listing(G, g), NEW K, NEW l, Listing(K, l), NEW n \in 0..l, n # l,
         NEW v \in Int, NEW w \in Int, NEW k \in Nat, NEW hits, Fused(hits, G, g, K, n, v, w, k),
         NEW doc, doc.url_key = K[n + 1], doc.title \in Optional, NEW fill
  PROVE  Fused(AddLink(hits, LinkHit(doc, n + 1, w, k), fill), G, g, K, n + 1, v, w, k)
<1>. DEFINE p == n + 1
            new == LinkHit(doc, p, w, k)
            e == RrfTerm(w, k, p)
            one == <<p>>
            none == <<>>
            m == Len(hits)
            out == AddLink(hits, new, fill)
<1>1. l \in Nat /\ p \in 1..l /\ p \in Nat \ {0} /\ K[p] \in Nat /\ e \in Int
  <2>1. l \in Nat /\ p \in 1..l /\ p \in Nat \ {0} /\ K[p] \in Nat
    BY DEF Listing
  <2>. QED
    BY <2>1, RrfInt
<1>2. new \in Hit /\ new.url = K[p] /\ new.graph_rank = none /\ new.link_rank = one /\ new.score = e
  BY <1>1, LinkHitMade
<1>3. /\ hits \in Seq(Hit) /\ m \in Nat /\ DOMAIN hits = 1..m
      /\ \A i \in 1..m : hits[i] \in Hit
      /\ \A i, j \in 1..m : hits[i].url = hits[j].url => i = j
      /\ {hits[i].url : i \in 1..m} = {G[r] : r \in 1..g} \cup {K[s] : s \in 1..n}
      /\ \A i \in 1..m : Says(hits[i], G, g, K, n, v, w, k)
  <2>1. /\ Hits(hits) /\ \A i \in DOMAIN hits : Says(hits[i], G, g, K, n, v, w, k)
        /\ {hits[i].url : i \in DOMAIN hits} = {G[r] : r \in 1..g} \cup {K[s] : s \in 1..n}
    BY DEF Fused
  <2>2. hits \in Seq(Hit) /\ m \in Nat /\ DOMAIN hits = 1..m
    BY <2>1, LenProperties DEF Hits
  <2>. HIDE DEF m
  <2>3. \A i \in 1..m : hits[i] \in Hit
    BY <2>2
  <2>4. \A i, j \in 1..m : hits[i].url = hits[j].url => i = j
    BY <2>1, <2>2 DEF Hits
  <2>5. {hits[i].url : i \in 1..m} = {hits[i].url : i \in DOMAIN hits}
    BY <2>2
  <2>. QED
    BY <2>1, <2>2, <2>3, <2>4, <2>5
<1>4. \A url : /\ url # K[p] => RankIn(K, p, url) = RankIn(K, n, url)
               /\ url = K[p] => RankIn(K, p, url) = one /\ RankIn(K, n, url) = none
  BY RankNext
<1>5. Earning(one, w, k) = e /\ Earning(none, w, k) = 0
  BY DEF Earning
<1>6. {K[s] : s \in 1..p} = {K[s] : s \in 1..n} \cup {K[p]}
  <2>1. 1..p = (1..n) \cup {p}
    BY <1>1
  <2>. HIDE DEF p
  <2>. QED
    BY <2>1
<1>7. out = IF \E i \in 1..m : hits[i].url = K[p]
              THEN [i \in 1..m |-> IF hits[i].url = K[p] THEN JoinedHit(hits[i], new, fill)
                                                         ELSE hits[i]]
              ELSE Append(hits, new)
  <2>. HIDE DEF new, p, m
  <2>. QED
    BY <1>2, <1>3 DEF AddLink, JoinedHit
<1>. HIDE DEF m, new, e, one, none, p, out
<1>8. CASE \E i \in 1..m : hits[i].url = K[p]
  <2>1. out = [i \in 1..m |-> IF hits[i].url = K[p] THEN JoinedHit(hits[i], new, fill) ELSE hits[i]]
    BY <1>7, <1>8
  <2>2. ASSUME NEW i \in 1..m
        PROVE out[i] \in Hit /\ out[i].url = hits[i].url /\ Says(out[i], G, g, K, p, v, w, k)
    <3>1. CASE hits[i].url = K[p]
      <4>. DEFINE old == hits[i]
                  a == old.graph_rank
      <4>1. out[i] = JoinedHit(old, new, fill) /\ old \in Hit
        BY <1>3, <2>1, <3>1
      <4>2. Says(old, G, g, K, n, v, w, k)
        BY <1>3
      <4>. HIDE DEF old
      <4>3. /\ out[i] \in Hit /\ out[i].url = old.url /\ out[i].graph_rank = a
            /\ out[i].link_rank = one /\ out[i].score = old.score + e
        BY <1>2, <4>1, JoinedFields
      <4>4. old.url = K[p]
        BY <3>1 DEF old
      <4>5. old.link_rank = none /\ a = RankIn(G, g, old.url)
            /\ old.score = Earning(a, v, k) + Earning(none, w, k)
        BY <1>4, <4>2, <4>4 DEF Says
      <4>6. out[i].score = Earning(a, v, k) + Earning(one, w, k)
        <5>1. old.score \in Int
          BY <4>1 DEF Hit
        <5>. DEFINE x == Earning(a, v, k)
        <5>2. x \in Int
          BY <4>5, EarningInt
        <5>. HIDE DEF x, a
        <5>3. old.score = x
          BY <1>5, <4>5, <5>2 DEF x
        <5>. QED
          BY <1>5, <4>3, <5>3 DEF x
      <4>7. RankIn(K, p, out[i].url) = one
        BY <1>4, <4>3, <4>4
      <4>8. Says(out[i], G, g, K, p, v, w, k)
        BY <4>3, <4>5, <4>6, <4>7 DEF Says
      <4>. QED
        BY <4>3, <4>8 DEF old
    <3>2. CASE hits[i].url # K[p]
      <4>1. out[i] = hits[i] /\ hits[i] \in Hit /\ Says(hits[i], G, g, K, n, v, w, k)
        BY <1>3, <2>1, <3>2
      <4>2. Says(hits[i], G, g, K, p, v, w, k)
        BY <1>4, <3>2, <4>1 DEF Says
      <4>. QED
        BY <4>1, <4>2
    <3>. QED
      BY <3>1, <3>2
  <2>3. DOMAIN out = 1..m /\ out \in Seq(Hit)
    <3>1. DOMAIN out = 1..m
      BY <2>1
    <3>2. out = [i \in 1..m |-> out[i]]
      BY <2>1
    <3>3. out \in [1..m -> Hit]
      BY <2>2, <3>2
    <3>. QED
      BY <1>3, <3>1, <3>3, AsSequence
  <2>4. Hits(out)
    BY <1>3, <2>2, <2>3 DEF Hits
  <2>5. {out[i].url : i \in 1..m} = {G[r] : r \in 1..g} \cup {K[s] : s \in 1..p}
    <3>1. {out[i].url : i \in 1..m} = {hits[i].url : i \in 1..m}
      BY <2>2
    <3>2. K[p] \in {hits[i].url : i \in 1..m}
      BY <1>8
    <3>. QED
      BY <1>3, <1>6, <3>1, <3>2
  <2>. QED
    BY <2>2, <2>3, <2>4, <2>5 DEF Fused, out, new, p
<1>9. CASE ~(\E i \in 1..m : hits[i].url = K[p])
  <2>1. out = Append(hits, new)
    BY <1>7, <1>9
  <2>2. /\ out \in Seq(Hit) /\ DOMAIN out = 1..(m + 1)
        /\ \A i \in 1..m : out[i] = hits[i]
        /\ out[m + 1] = new
    BY <1>2, <1>3, <2>1 DEF m
  <2>. DEFINE q == m + 1
  <2>3. \A i : i \in 1..q <=> i \in 1..m \/ i = q
    BY <1>3
  <2>. HIDE DEF q
  <2>4. \A i \in 1..m : hits[i].url # K[p]
    BY <1>9
  <2>5. Hits(out)
    <3>1. \A i, j \in 1..q : out[i].url = out[j].url => i = j
      BY <1>2, <1>3, <2>2, <2>3, <2>4 DEF q
    <3>. QED
      BY <2>2, <3>1 DEF Hits, q
  <2>6. {out[i].url : i \in 1..q} = {G[r] : r \in 1..g} \cup {K[s] : s \in 1..p}
    <3>1. {out[i].url : i \in 1..q} = {hits[i].url : i \in 1..m} \cup {K[p]}
      <4>1. out[q].url = K[p] /\ \A i \in 1..m : out[i].url = hits[i].url
        BY <1>2, <2>2 DEF q
      <4>2. 1..q = (1..m) \cup {q}
        BY <2>3
      <4>. QED
        BY <4>1, <4>2
    <3>. QED
      BY <1>3, <1>6, <3>1
  <2>7. ASSUME NEW i \in 1..q PROVE Says(out[i], G, g, K, p, v, w, k)
    <3>1. CASE i \in 1..m
      <4>1. out[i] = hits[i] /\ Says(hits[i], G, g, K, n, v, w, k) /\ hits[i].url # K[p]
        BY <1>3, <2>2, <2>4, <3>1
      <4>. QED
        BY <1>4, <4>1 DEF Says
    <3>2. CASE i = q
      <4>1. RankIn(G, g, K[p]) = none
        <5>1. ~(\E r \in 1..g : G[r] = K[p])
          <6>1. K[p] \notin {hits[j].url : j \in 1..m}
            BY <2>4
          <6>. QED
            BY <1>3, <6>1
        <5>. QED
          BY <5>1 DEF RankIn, none
      <4>2. out[i] = new
        BY <2>2, <3>2 DEF q
      <4>3. Earning(none, v, k) = 0
        BY DEF Earning, none
      <4>4. new.score = Earning(none, v, k) + Earning(one, w, k)
        BY <1>1, <1>2, <1>5, <4>3
      <4>. QED
        BY <1>2, <1>4, <4>1, <4>2, <4>4 DEF Says
    <3>. QED
      BY <2>3, <3>1, <3>2
  <2>. QED
    BY <2>2, <2>5, <2>6, <2>7 DEF Fused, out, new, p, q
<1>. QED
  BY <1>8, <1>9

\* Hits stay hits.
LEMMA AddLinkType ==
  ASSUME NEW hits \in Seq(Hit), NEW hit \in Hit, NEW fill
  PROVE  AddLink(hits, hit, fill) \in Seq(Hit)
<1>. DEFINE m == Len(hits)
            met == [i \in 1..m |-> IF hits[i].url = hit.url THEN JoinedHit(hits[i], hit, fill)
                                                            ELSE hits[i]]
<1>1. m \in Nat /\ DOMAIN hits = 1..m /\ \A i \in 1..m : hits[i] \in Hit
  BY LenProperties
<1>2. AddLink(hits, hit, fill)
        = IF \E i \in 1..m : hits[i].url = hit.url THEN met ELSE Append(hits, hit)
  <2>. HIDE DEF m
  <2>. QED
    BY <1>1 DEF AddLink, JoinedHit
<1>3. met \in Seq(Hit)
  <2>1. \A i \in 1..m : JoinedHit(hits[i], hit, fill) \in Hit
    BY <1>1, JoinedFields
  <2>2. met \in [1..m -> Hit]
    BY <1>1, <2>1
  <2>. HIDE DEF met
  <2>. QED
    BY <1>1, <2>2, AsSequence
<1>4. Append(hits, hit) \in Seq(Hit)
  OBVIOUS
<1>. HIDE DEF met
<1>. QED
  BY <1>2, <1>3, <1>4

\* The pages of the link half, one after the other.
WithLinks(start, links, w, k, fill) ==
  FoldLeft(LAMBDA acc, r : AddLink(acc, LinkHit(links[r], r, w, k), fill),
           start, [r \in DOMAIN links |-> r])

\* What a fold over n steps is after each of them.
LEMMA LinksAdded ==
  ASSUME NEW G, NEW g, Listing(G, g), NEW K, NEW l, Listing(K, l),
         NEW v \in Int, NEW w \in Int, NEW k \in Nat,
         NEW start, Fused(start, G, g, K, 0, v, w, k), NEW links, DOMAIN links = 1..l,
         \A r \in 1..l : links[r].url_key = K[r] /\ links[r].title \in Optional, NEW fill
  PROVE  Fused(WithLinks(start, links, w, k, fill), G, g, K, l, v, w, k)
<1>. DEFINE N == 1..l
            seq == [r \in DOMAIN links |-> r]
            Onto(acc, r) == AddLink(acc, LinkHit(links[r], r, w, k), fill)
            op == [p \in N \X Seq(Hit) |-> Onto(p[2], p[1])]
            Body(F) == [s \in SUBSET N |-> IF s = {} THEN start
                                           ELSE Onto(F[s \ {Max(s)}], seq[Max(s)])]
            it == CHOOSE F : F = Body(F)
<1>1. l \in Nat /\ DOMAIN seq = N /\ \A i \in N : seq[i] = i /\ i \in Nat \ {0}
  BY DEF Listing
<1>2. WithLinks(start, links, w, k, fill) = it[N]
  BY <1>1 DEF WithLinks, FoldLeft, MapThenFoldSet
<1>3. start \in Seq(Hit)
  BY DEF Fused, Hits
<1>4. ASSUME NEW acc \in Seq(Hit), NEW r \in N PROVE Onto(acc, r) \in Seq(Hit)
  <2>1. K[r] \in Nat /\ r \in Nat \ {0}
    BY <1>1 DEF Listing
  <2>2. LinkHit(links[r], r, w, k) \in Hit
    BY <2>1, LinkHitMade
  <2>. QED
    BY <2>2, AddLinkType
<1>5. ASSUME NEW j \in 0..l, j # l, NEW acc, Fused(acc, G, g, K, j, v, w, k)
      PROVE  Fused(Onto(acc, j + 1), G, g, K, j + 1, v, w, k)
  <2>. DEFINE p == j + 1
  <2>1. p \in 1..l
    BY <1>1, <1>5
  <2>2. links[p].url_key = K[p] /\ links[p].title \in Optional
    BY <2>1
  <2>. QED
    BY <1>5, <2>2, LinkAdded
<1>. HIDE DEF Onto, N, seq
<1>6. /\ op \in [N \X Seq(Hit) -> Seq(Hit)]
      /\ \A i \in N, a \in Seq(Hit) : op[<<i, a>>] = Onto(a, i)
  BY <1>4
<1>. HIDE DEF op
<1>7. PICK h : Chained(l, Seq(Hit), start, op, h)
  BY <1>1, <1>3, <1>6, ChainExists DEF N
<1>8. h = Body(h)
  <2>0. h \in [SUBSET N -> Seq(Hit)] /\ h[{}] = start
    BY <1>7 DEF Chained, N
  <2>1. ASSUME NEW s \in (SUBSET N) \ {{}}
        PROVE  h[s] = Onto(h[s \ {Max(s)}], seq[Max(s)])
    <3>1. Max(s) \in N /\ s \ {Max(s)} \in SUBSET N
          /\ h[s] = op[<<Max(s), h[s \ {Max(s)}]>>]
      BY <1>7 DEF Chained, N
    <3>2. h[s \ {Max(s)}] \in Seq(Hit)
      BY <2>0, <3>1
    <3>. QED
      BY <1>1, <1>6, <3>1, <3>2
  <2>2. \A s \in SUBSET N : h[s] = IF s = {} THEN start ELSE Onto(h[s \ {Max(s)}], seq[Max(s)])
    BY <2>0, <2>1
  <2>3. h = [s \in SUBSET N |-> h[s]]
    BY <2>0
  <2>. QED
    BY <2>2, <2>3
<1>9. it = Body(it)
  <2>. HIDE DEF Body
  <2>1. \E F : F = Body(F)
    BY <1>8, Zenon
  <2>. QED
    BY <2>1, Zenon
<1>. HIDE DEF it
<1>10. it[{}] = start
  BY <1>9
<1>11. ASSUME NEW j \in 1..l PROVE it[1..j] = Onto(it[1..(j - 1)], j)
  <2>. DEFINE s == 1..j
  <2>1. s \in (SUBSET N) \ {{}} /\ Max(s) = j /\ s \ {j} = 1..(j - 1)
    BY <1>1, LastOf DEF N
  <2>. HIDE DEF s
  <2>2. it[s] = Onto(it[s \ {Max(s)}], seq[Max(s)])
    BY <1>9, <2>1
  <2>3. seq[j] = j
    BY <1>1 DEF N
  <2>. QED
    BY <2>1, <2>2, <2>3 DEF s
<1>. DEFINE T == {j \in 0..l : Fused(it[1..j], G, g, K, j, v, w, k)}
<1>12. 0 \in T
  <2>1. 1..0 = {}
    OBVIOUS
  <2>2. it[1..0] = start
    BY <1>10, <2>1
  <2>. QED
    BY <1>1, <2>2
<1>13. ASSUME NEW j \in 0..l, j \in T, j # l PROVE j + 1 \in T
  <2>. DEFINE p == j + 1
  <2>1. p \in 1..l /\ p - 1 = j /\ p \in 0..l
    BY <1>1, <1>13
  <2>2. it[1..p] = Onto(it[1..j], p)
    BY <1>11, <2>1
  <2>3. Fused(it[1..j], G, g, K, j, v, w, k)
    BY <1>13
  <2>4. Fused(it[1..p], G, g, K, p, v, w, k)
    BY <1>5, <1>13, <2>2, <2>3
  <2>. QED
    BY <2>1, <2>4
<1>14. l \in T
  <2>. HIDE DEF T
  <2>1. \A j \in 0..l : j \in T
    BY <1>1, <1>12, <1>13, UpTo
  <2>. QED
    BY <1>1, <2>1
<1>. QED
  BY <1>2, <1>14 DEF N

\* The pages that both lists have together.
LEMMA FusedCount ==
  ASSUME NEW G, NEW g, NEW K, NEW n, NEW v, NEW w, NEW k, NEW hits,
         Fused(hits, G, g, K, n, v, w, k)
  PROVE  Len(hits) = Cardinality({G[r] : r \in 1..g} \cup {K[s] : s \in 1..n})
<1>. DEFINE m == Len(hits)
            all == {G[r] : r \in 1..g} \cup {K[s] : s \in 1..n}
            f == [i \in 1..m |-> hits[i].url]
<1>1. /\ m \in Nat /\ DOMAIN hits = 1..m
      /\ \A i, j \in 1..m : hits[i].url = hits[j].url => i = j
  <2>1. hits \in Seq(Hit)
    BY DEF Fused, Hits
  <2>2. m \in Nat /\ DOMAIN hits = 1..m
    BY <2>1, LenProperties
  <2>. HIDE DEF m
  <2>. QED
    BY <2>2 DEF Fused, Hits
<1>. HIDE DEF m
<1>2. {hits[i].url : i \in 1..m} = all
  BY <1>1 DEF Fused
<1>. HIDE DEF all
<1>3. f \in Bijection(1..m, all)
  <2>1. f \in [1..m -> all] /\ \A y \in all : \E i \in 1..m : f[i] = y
    BY <1>2
  <2>2. \A i, j \in 1..m : f[i] = f[j] => i = j
    BY <1>1
  <2>. HIDE DEF f
  <2>. QED
    BY <2>1, <2>2 DEF Bijection, Injection, IsInjective, Surjection
<1>4. IsFiniteSet(1..m) /\ Cardinality(1..m) = m
  BY <1>1, FS_Interval
<1>. HIDE DEF f
<1>. QED
  BY <1>3, <1>4, FS_Bijection DEF ExistsBijection, m, all

\* A list of stored pages, each once.
PageList(links, l) ==
  /\ DOMAIN links = 1..l /\ Listing([r \in 1..l |-> links[r].url_key], l)
  /\ \A r \in 1..l : links[r].title \in Optional

\* A list of answers of the graph, each once.
AnswerList(answer, g) ==
  /\ DOMAIN answer = 1..g /\ Listing([r \in 1..g |-> answer[r].url], g)
  /\ \A r \in 1..g : answer[r].title \in Optional

\* Both fused.
FusedHits(answer, links, v, w, k, fill, limit) ==
  BestHits(WithLinks([r \in DOMAIN answer |-> GraphHit(answer, r, v, k)], links, w, k, fill), limit)

\* Two lists are fused to every page once, and to as many as there is room for.
LEMMA ListsFused ==
  ASSUME NEW answer, NEW g, AnswerList(answer, g), NEW links, NEW l, PageList(links, l),
         NEW v \in Int, NEW w \in Int, NEW k \in Nat, NEW fill, NEW limit \in Nat
  PROVE  /\ Once(FusedHits(answer, links, v, w, k, fill, limit), v, w, k, links, answer)
         /\ Complete(FusedHits(answer, links, v, w, k, fill, limit), limit, links, answer)
<1>. DEFINE G == [r \in 1..g |-> answer[r].url]
            K == [r \in 1..l |-> links[r].url_key]
            start == [r \in DOMAIN answer |-> GraphHit(answer, r, v, k)]
            hits == WithLinks(start, links, w, k, fill)
            all == {G[r] : r \in 1..g} \cup {K[s] : s \in 1..l}
            out == FusedHits(answer, links, v, w, k, fill, limit)
<1>0. /\ Listing(G, g) /\ DOMAIN answer = 1..g
      /\ \A r \in 1..g : answer[r].url = G[r] /\ answer[r].title \in Optional
      /\ Listing(K, l) /\ DOMAIN links = 1..l
      /\ \A r \in 1..l : links[r].url_key = K[r] /\ links[r].title \in Optional
  BY DEF AnswerList, PageList
<1>. HIDE DEF G, K
<1>1. Fused(start, G, g, K, 0, v, w, k)
  BY <1>0, GraphFused
<1>. HIDE DEF start
<1>2. Fused(hits, G, g, K, l, v, w, k)
  BY <1>0, <1>1, LinksAdded
<1>3. out = BestHits(hits, limit)
  BY DEF start, FusedHits
<1>. HIDE DEF hits, out
<1>4. Picked(out, hits, limit)
  BY <1>2, <1>3, BestPicked DEF Fused
<1>5. \A i \in DOMAIN out : \E j \in DOMAIN hits : out[i] = hits[j]
  BY <1>4 DEF Picked
<1>6. \A i \in DOMAIN out : Says(out[i], G, g, K, l, v, w, k)
  BY <1>2, <1>5 DEF Fused
<1>7. \A i, j \in DOMAIN out : out[i].url = out[j].url => i = j
  BY <1>4 DEF Picked
<1>8. g \in Nat /\ l \in Nat /\ g \in 0..g /\ l \in 0..l
  BY <1>0 DEF Listing
<1>9. ASSUME NEW i \in DOMAIN out
      PROVE  /\ out[i].score = Earning(out[i].graph_rank, v, k) + Earning(out[i].link_rank, w, k)
             /\ \A r \in DOMAIN answer :
                  (answer[r].url = out[i].url) <=> (out[i].graph_rank = <<r>>)
             /\ \A r \in DOMAIN links :
                  (links[r].url_key = out[i].url) <=> (out[i].link_rank = <<r>>)
  <2>1. /\ out[i].graph_rank = RankIn(G, g, out[i].url)
        /\ out[i].link_rank = RankIn(K, l, out[i].url)
        /\ out[i].score = Earning(out[i].graph_rank, v, k) + Earning(out[i].link_rank, w, k)
    BY <1>6 DEF Says
  <2>2. \A s \in 1..g : G[s] = out[i].url <=> RankIn(G, g, out[i].url) = <<s>>
    BY <1>0, <1>8, RankSays
  <2>3. \A s \in 1..l : K[s] = out[i].url <=> RankIn(K, l, out[i].url) = <<s>>
    BY <1>0, <1>8, RankSays
  <2>4. \A r \in DOMAIN answer : (answer[r].url = out[i].url) <=> (out[i].graph_rank = <<r>>)
    BY <1>0, <2>1, <2>2, Zenon
  <2>5. \A r \in DOMAIN links : (links[r].url_key = out[i].url) <=> (out[i].link_rank = <<r>>)
    BY <1>0, <2>1, <2>3, Zenon
  <2>. QED
    BY <2>1, <2>4, <2>5, Zenon
<1>10. Once(out, v, w, k, links, answer)
  BY <1>7, <1>9, Zenon DEF Once, Earning
<1>11. Complete(out, limit, links, answer)
  <2>1. Len(hits) = Cardinality(all)
    BY <1>2, FusedCount
  <2>2. Len(out) = IF Len(hits) < limit THEN Len(hits) ELSE limit
    BY <1>4 DEF Picked
  <2>3. {links[r].url_key : r \in DOMAIN links} \cup {answer[r].url : r \in DOMAIN answer} = all
    BY <1>0
  <2>. HIDE DEF all
  <2>. QED
    BY <2>1, <2>2, <2>3, Zenon DEF Complete
<1>. QED
  BY <1>10, <1>11 DEF out

\* The first answers of the graph are a list of pages.
LEMMA AnswerListed ==
  ASSUME NEW a \in DOMAIN GraphAnswers, NEW n \in Nat,
         NEW found, found = Truncate(GraphAnswers[a], n)
  PROVE  \E g : AnswerList(found, g)
<1>. DEFINE A == [url : Nat, title : Optional]
            s == GraphAnswers[a]
            m == IF n < Len(s) THEN n ELSE Len(s)
            urls == [r \in 1..m |-> found[r].url]
<1>1. s \in Seq(A) /\ \A i, j \in DOMAIN s : s[i].url = s[j].url => i = j
  BY LookupAssumption
<1>. HIDE DEF s
<1>2. Len(s) \in Nat /\ DOMAIN s = 1..Len(s) /\ \A i \in 1..Len(s) : s[i] \in A
  BY <1>1, LenProperties
<1>3. m \in 0..Len(s) /\ \A i \in 1..m : i \in 1..Len(s)
  BY <1>2
<1>4. found = SubSeq(s, 1, m)
  BY DEF Truncate, s
<1>. HIDE DEF m, A
<1>5. m \in Nat /\ Len(found) = m /\ DOMAIN found = 1..m /\ \A i \in 1..m : found[i] = s[i]
  BY <1>1, <1>2, <1>3, <1>4
<1>6. \A i \in 1..m : found[i].url \in Nat /\ found[i].title \in Optional
  <2>1. \A i \in 1..m : found[i] \in A
    BY <1>2, <1>3, <1>5
  <2>. QED
    BY <2>1 DEF A
<1>7. urls \in [1..m -> Nat] /\ \A r, q \in 1..m : urls[r] = urls[q] => r = q
  BY <1>1, <1>2, <1>3, <1>5, <1>6
<1>8. Listing(urls, m)
  BY <1>5, <1>7 DEF Listing
<1>. QED
  BY <1>5, <1>6, <1>8 DEF AnswerList

\* A ranked list of documents of D, each once.
Drawn(T, D, l) ==
  /\ l \in Nat /\ DOMAIN T = 1..l /\ \A r \in 1..l : T[r].id \in D
  /\ \A r, s \in 1..l : T[r].id = T[s].id => r = s

\* The first of a ranking are such a list.
LEMMA RankingDrawn ==
  ASSUME NEW D, NEW c, Tabled(D, c), NEW k \in Nat, NEW T, T = Truncate(SortedScores(c), k)
  PROVE  \E l : Drawn(T, D, l)
<1>1. Leading(Ids(T), D, Among(D, c), k) /\ DOMAIN Ids(T) = DOMAIN T
  <2>1. IsFiniteSet(D) /\ D \subseteq Nat /\ c \in [D -> Int]
    BY DEF Tabled
  <2>. DEFINE U == Truncate(SortedScores(c), k)
  <2>2. Leading(Ids(U), D, Among(D, c), k)
    BY <2>1, SortedLeads
  <2>. QED
    BY <2>2 DEF Ids
<1>2. PICK m \in Nat : /\ Ids(T) \in [1..m -> D]
                       /\ \A r \in 1..m : Among(D, c)[Ids(T)[r]] = r
  BY <1>1 DEF Leading
<1>3. \A r \in DOMAIN T : Ids(T)[r] = T[r].id
  BY DEF Ids
<1>4. DOMAIN T = 1..m
  BY <1>1, <1>2
<1>. QED
  BY <1>2, <1>3, <1>4 DEF Drawn

\* The mean of a pool is a number.
LEMMA MeanInt ==
  ASSUME NEW P, IsFiniteSet(P), NEW f \in [P -> Nat], NEW c \in [P -> Int], NEW w \in Int
  PROVE  (IF SumFunction(f) = 0 THEN 0 ELSE (w * SumFunction([e \in P |-> f[e] * c[e]])) \div SumFunction(f)) \in Int
<1>. DEFINE h == [e \in P |-> f[e] * c[e]]
            a == SumFunction(f)
            b == SumFunction(h)
<1>2. h \in [P -> Int]
  OBVIOUS
<1>3. a \in Nat /\ b \in Int
  <2>. HIDE DEF h
  <2>. QED
    BY <1>2, SumNat, SumInt
<1>. HIDE DEF a, b
<1>4. w * b \in Int
  BY <1>3
<1>5. a # 0 => (w * b) \div a \in Int
  BY <1>3, <1>4, Division
<1>. QED
  BY <1>5 DEF a, b

\* A search returns documents its filter allows, each once.
LEMMA ExpectedDrawn ==
  ASSUME NEW query, Asked(query), Led(query), IndexOf(held)
  PROVE  \E l : Drawn(Expected(query), Allowed(query), l)
<1>. DEFINE c == Earned(query)
            D == DOMAIN c
            m == Len(held)
            boost == query.rank.graph_boost
            boosted == boost > 0
            n == IF boosted THEN Candidates(query) ELSE query.limit
            pool == {d \in D : Among(D, c)[d] <= n}
            Ties(d, e) == Links(d, e) + Links(e, d)
            degree(d) == SumFunction([e \in pool |-> Ties(d, e)])
            Gain(d) == IF degree(d) = 0 THEN 0
                       ELSE (boost * SumFunction([e \in pool |-> Ties(d, e) * c[e]])) \div degree(d)
            final == [d \in pool |-> c[d] + (IF boosted THEN Gain(d) ELSE 0)]
<1>1. Expected(query) = Truncate(SortedScores(final), query.limit)
  BY DEF Expected
<1>2. /\ m \in Nat /\ D \subseteq 1..m /\ IsFiniteSet(D) /\ D \subseteq Nat /\ c \in [D -> Int]
  BY EarnedBoth
<1>3. query.limit \in Nat /\ boost \in Int
  BY DEF Asked
<1>4. D \subseteq Allowed(query)
  BY DEF Earned
<1>5. \A d, e \in 1..m : Ties(d, e) \in Nat
  <2>1. ASSUME NEW d \in 1..m, NEW e \in 1..m PROVE Links(d, e) \in Nat
    <3>. DEFINE s == held[d].edges
                I == {i \in DOMAIN s : s[i] = held[e].url_key}
    <3>1. s \in Seq(Nat)
      <4>1. Outlinks(held) \in [1..m -> Seq(Nat)]
        BY Columned DEF IndexOf, Strings
      <4>2. Outlinks(held)[d] = s
        BY DEF Outlinks
      <4>. HIDE DEF m, s
      <4>. QED
        BY <4>1, <4>2
    <3>. HIDE DEF s
    <3>2. IsFiniteSet(DOMAIN s)
      BY <3>1, LenProperties, FS_Interval
    <3>3. IsFiniteSet(I)
      BY <3>2, FS_Subset
    <3>4. Cardinality(I) \in Nat
      BY <3>3, FS_CardinalityType
    <3>. QED
      BY <3>4 DEF Links, s
  <2>. HIDE DEF m
  <2>. QED
    BY <2>1
<1>. HIDE DEF c, D, m, boost, n, Ties
<1>7. pool \subseteq D /\ pool \subseteq 1..m /\ IsFiniteSet(pool) /\ pool \subseteq Nat
  <2>1. pool \subseteq D
    OBVIOUS
  <2>. HIDE DEF pool
  <2>. QED
    BY <1>2, <2>1, FS_Subset
<1>. HIDE DEF pool
<1>8. ASSUME NEW d \in pool PROVE Gain(d) \in Int
  <2>. DEFINE f == [e \in pool |-> Ties(d, e)]
              g == [e \in pool |-> c[e]]
              a == SumFunction(f)
              b == SumFunction([e \in pool |-> f[e] * g[e]])
  <2>1. f \in [pool -> Nat] /\ g \in [pool -> Int]
    BY <1>2, <1>5, <1>7
  <2>2. [e \in pool |-> Ties(d, e) * c[e]] = [e \in pool |-> f[e] * g[e]]
    OBVIOUS
  <2>3. Gain(d) = IF a = 0 THEN 0 ELSE (boost * b) \div a
    BY <2>2
  <2>. HIDE DEF f, g, Gain
  <2>4. (IF a = 0 THEN 0 ELSE (boost * b) \div a) \in Int
    BY <1>3, <1>7, <2>1, MeanInt
  <2>. QED
    BY <2>3, <2>4
<1>. HIDE DEF Gain
<1>9. final \in [pool -> Int]
  BY <1>2, <1>7, <1>8
<1>. HIDE DEF final
<1>10. \E l : Drawn(Expected(query), pool, l)
  BY <1>1, <1>3, <1>7, <1>9, RankingDrawn DEF Tabled
<1>. QED
  BY <1>4, <1>7, <1>10 DEF Drawn

\* The pages of a list of documents.
PagesOf(T) == [r \in DOMAIN T |-> live.meta[T[r].id]]

\* They are a list of pages.
LEMMA PagesDrawn ==
  ASSUME IndexOf(held), NEW D, D \subseteq 1..Len(held), NEW T, NEW l, Drawn(T, D, l),
         NEW links, links = PagesOf(T)
  PROVE  PageList(links, l) /\ \A r \in DOMAIN links : \E d \in D : links[r] = MetaOf(held[d])
<1>. DEFINE n == Len(held)
            id(r) == T[r].id
            urls == [r \in 1..l |-> links[r].url_key]
<1>1. n \in Nat /\ DOMAIN held = 1..n /\ held \in Seq(Document)
      /\ \A d, e \in 1..n : held[d].url_key = held[e].url_key => d = e
  BY Columned DEF IndexOf, Corpus, Distinct
<1>. HIDE DEF n
<1>2. \A d \in 1..n : held[d].url_key \in Nat /\ held[d].title \in Optional
  <2>1. \A d \in 1..n : held[d] \in Document
    BY <1>1
  <2>. QED
    BY <2>1 DEF Document
<1>3. /\ l \in Nat /\ DOMAIN T = 1..l /\ \A r \in 1..l : id(r) \in D /\ id(r) \in 1..n
      /\ \A r, s \in 1..l : id(r) = id(s) => r = s
  BY DEF Drawn, n
<1>4. \A d \in 1..n : live.meta[d] = MetaOf(held[d])
  BY DEF IndexOf, Metadata, n
<1>. HIDE DEF id
<1>5. DOMAIN links = 1..l /\ \A r \in 1..l : links[r] = MetaOf(held[id(r)])
  BY <1>3, <1>4 DEF id, PagesOf
<1>6. \A r \in 1..l : links[r].url_key = held[id(r)].url_key /\ links[r].title = held[id(r)].title
  <2>1. \A d : MetaOf(held[d]).url_key = held[d].url_key /\ MetaOf(held[d]).title = held[d].title
    BY DEF MetaOf
  <2>. QED
    BY <1>5, <2>1
<1>7. urls \in [1..l -> Nat] /\ \A r, s \in 1..l : urls[r] = urls[s] => r = s
  <2>1. \A r \in 1..l : urls[r] = held[id(r)].url_key
    BY <1>6
  <2>2. \A r \in 1..l : urls[r] \in Nat
    BY <1>2, <1>3, <2>1
  <2>3. urls = [r \in 1..l |-> urls[r]]
    OBVIOUS
  <2>. HIDE DEF urls
  <2>4. ASSUME NEW r \in 1..l, NEW s \in 1..l, urls[r] = urls[s] PROVE r = s
    <3>1. id(r) = id(s)
      BY <1>1, <1>3, <2>1, <2>4
    <3>. QED
      BY <1>3, <3>1
  <2>. QED
    BY <2>2, <2>3, <2>4
<1>8. PageList(links, l)
  BY <1>2, <1>3, <1>5, <1>6, <1>7 DEF PageList, Listing
<1>. QED
  BY <1>3, <1>5, <1>8

\* The query that a search of the facade makes.
WithDefault(query, limit, boost) ==
  [ vector |-> query.vector, terms |-> query.terms, filter |-> query.filter, limit |-> limit,
    rank |-> [Default EXCEPT !.graph_boost = boost] ]

\* It is a query as the others are.
LEMMA DefaultAsked ==
  ASSUME NEW q \in DOMAIN Queries, NEW limit \in Nat
  PROVE  Asked(WithDefault(Queries[q], limit, Queries[q].rank.graph_boost))
<1>. DEFINE query == Queries[q]
            boost == query.rank.graph_boost
            rank == [Default EXCEPT !.graph_boost = boost]
            wide == WithDefault(query, limit, boost)
            a == Larger(rank.candidate_multiplier, 1)
            b == limit * a
<1>1. query.vector \in [1..Dim -> Int] /\ query.terms \in Seq(Nat) /\ boost \in Int
  BY QueryAsked DEF Asked
<1>. HIDE DEF boost, query
<1>2. /\ rank.dense_weight \in Int /\ rank.sparse_weight \in Int /\ rank.k \in Nat
      /\ rank.candidate_multiplier \in Nat /\ rank.graph_boost \in Int
  BY <1>1, LookupAssumption DEF RankParams
<1>3. wide = [ vector |-> query.vector, terms |-> query.terms, filter |-> query.filter,
               limit |-> limit, rank |-> rank ]
  BY DEF WithDefault
<1>. HIDE DEF rank, wide
<1>4. /\ wide.vector = query.vector /\ wide.terms = query.terms /\ wide.limit = limit
      /\ wide.rank = rank
  BY <1>3
<1>5. Candidates(wide) \in Nat
  <2>1. a \in Nat
    BY <1>2 DEF Larger
  <2>2. Candidates(wide) = Larger(b, CandidateFloor)
    BY <1>4 DEF Candidates
  <2>. HIDE DEF a
  <2>3. b \in Nat
    BY <2>1
  <2>. HIDE DEF b
  <2>. QED
    BY <2>2, <2>3, SearchAssumption DEF Larger
<1>. QED
  BY <1>1, <1>2, <1>4, <1>5 DEF Asked, wide, query, boost

\* Such a search returns pages its filter allows, each once.
LEMMA SearchListed ==
  ASSUME WeightType, KeysInv, live.kind = "index", NEW q \in DOMAIN Queries, NEW limit \in Nat,
         NEW links, links = SearchRanked(live, Queries[q], limit, Queries[q].filter,
                                         Queries[q].rank.graph_boost)
  PROVE  /\ \E l : PageList(links, l)
         /\ \A r \in DOMAIN links : Matches(Queries[q].filter, links[r])
<1>. DEFINE wide == WithDefault(Queries[q], limit, Queries[q].rank.graph_boost)
            T == SearchPrepared(live, wide)
<1>1. Asked(wide)
  BY DefaultAsked
<1>2. links = PagesOf(T) /\ wide.filter = Queries[q].filter
  BY DEF SearchRanked, WithDefault, PagesOf
<1>3. IndexOf(held)
  BY LiveIndex
<1>. HIDE DEF wide
<1>4. Led(wide)
  BY <1>1, <1>3, ArmsLead
<1>5. T = Expected(wide)
  BY <1>1, <1>3, <1>4, FusedIs, FusedExpected
<1>6. PICK l : Drawn(T, Allowed(wide), l)
  BY <1>1, <1>3, <1>4, <1>5, ExpectedDrawn
<1>. HIDE DEF T
<1>7. Allowed(wide) \subseteq 1..Len(held)
  BY <1>4 DEF Led
<1>8. PageList(links, l) /\ \A r \in DOMAIN links : \E d \in Allowed(wide) : links[r] = MetaOf(held[d])
  BY <1>2, <1>3, <1>6, <1>7, PagesDrawn
<1>. QED
  BY <1>2, <1>8 DEF Allowed

\* The links and the map of URLs of an index in memory.
LEMMA LiveLinks ==
  ASSUME KeysInv, live.kind = "index"
  PROVE  live.by_url = UrlIndex(Metadata(held)) /\ live.edges = Outlinks(held)
<1>1. Corpus(held) /\ live = Assemble(PartsOf(Entries(held)), live.image)
  BY DEF KeysInv, Inv
<1>. DEFINE p == PartsOf(Entries(held))
<1>2. p = [ dim |-> Dim, metric |-> Metric, embedder_id |-> EmbedderId,
            meta |-> Metadata(held), dense |-> Vectors(held), edges |-> Outlinks(held),
            bm25 |-> Build(Terms(held)) ]
  BY <1>1, SevenParts
<1>. HIDE DEF p
<1>3. p.meta = Metadata(held) /\ p.edges = Outlinks(held)
  BY <1>2
<1>4. live.by_url = UrlIndex(p.meta) /\ live.edges = p.edges
  BY <1>1 DEF Assemble, p
<1>. QED
  BY <1>3, <1>4

\* Related pages are pages, each once.
LEMMA RelatedListed ==
  ASSUME KeysInv, live.kind = "index", NEW key, NEW k \in Nat,
         NEW links, links = RelatedPages(live, key, k)
  PROVE  \E l : PageList(links, l)
<1>. DEFINE n == Len(held)
            edges == Outlinks(held)
            keys == [e \in 1..n |-> held[e].url_key]
            by_url == UrlIndex(Metadata(held))
            graph == Resolve(edges, by_url)
            T == RelatedTo(live, key, k)
<1>1. IndexOf(held) /\ Keyed(n, edges, keys, by_url) /\ live.graph = graph /\ live.by_url = by_url
  <2>1. IndexOf(held)
    BY LiveIndex
  <2>. QED
    BY <2>1, LiveLinks, UrlsLead DEF IndexOf
<1>2. links = PagesOf(T)
  BY DEF RelatedPages, PagesOf
<1>3. n \in Nat
  BY <1>1 DEF Keyed
<1>. HIDE DEF edges, by_url, keys
<1>4. \E l : Drawn(T, 1..n, l)
  <2>1. CASE key \in DOMAIN by_url /\ k # 0
    <3>. DEFINE d == by_url[key]
                f == RelatedScores(graph, d, {d})
                D == DOMAIN f
                Q(e) == PointsOf(n, edges, keys, d, e)
    <3>1. d \in 1..n
      BY <1>1, <2>1 DEF Keyed
    <3>2. T = Truncate(SortedScores(f), k)
      BY <1>1, <2>1 DEF RelatedTo, Related
    <3>. HIDE DEF d
    <3>3. f = [e \in {x \in (1..n) \ {d} : Q(x) > 0} |-> Q(e)] /\ \A e \in 1..n : Q(e) \in Nat
      <4>. HIDE DEF n
      <4>. QED
        BY <1>1, <3>1, ScoresCounted
    <3>. HIDE DEF f, Q
    <3>4. D \subseteq 1..n /\ f \in [D -> Int]
      BY <3>3
    <3>. HIDE DEF D
    <3>5. IsFiniteSet(1..n)
      BY <1>3, FS_Interval
    <3>6. Tabled(D, f)
      BY <3>4, <3>5, FS_Subset DEF Tabled
    <3>7. \E l : Drawn(T, D, l)
      <4>. HIDE DEF T
      <4>. QED
        BY <3>2, <3>6, RankingDrawn
    <3>. QED
      BY <3>4, <3>7 DEF Drawn
  <2>2. CASE key \notin DOMAIN by_url \/ k = 0
    <3>1. T = <<>>
      BY <1>1, <2>2 DEF RelatedTo, Related
    <3>. HIDE DEF T
    <3>2. Drawn(T, 1..n, 0)
      BY <3>1 DEF Drawn
    <3>. QED
      BY <3>2
  <2>. QED
    BY <2>1, <2>2
<1>. HIDE DEF T
<1>5. PICK l : Drawn(T, 1..n, l)
  BY <1>4
<1>6. n = Len(held)
  OBVIOUS
<1>. HIDE DEF n
<1>7. PageList(links, l)
  BY <1>1, <1>2, <1>5, <1>6, PagesDrawn
<1>. QED
  BY <1>7

\* In a state of the invariant both halves are fused as they should be.
LEMMA InvLookup ==
  ASSUME WeightType, KeysInv
  PROVE  LookupFused
<1>. SUFFICES ASSUME live.kind = "index", NEW q \in DOMAIN Queries, NEW a \in DOMAIN GraphAnswers
     PROVE  LET query == Queries[q]
                wide == Wide(query.limit)
                links == SearchRanked(live, query, wide, query.filter, query.rank.graph_boost)
                hits == KbLookup(live, query, 1, 2, 1, GraphAnswers[a])
                near == KbRelated(live, 20, query.limit, GraphAnswers[a])
            IN /\ Once(hits, 1, 2, 1, links, Truncate(GraphAnswers[a], wide))
               /\ Complete(hits, query.limit, links, Truncate(GraphAnswers[a], wide))
               /\ Once(near, 1, 1, RelatedK, RelatedPages(live, 20, 2 * query.limit),
                       Truncate(GraphAnswers[a], 2 * query.limit))
               /\ \A r \in DOMAIN links : Matches(query.filter, links[r])
               /\ \A d \in DOMAIN held :
                    Export(live)[d] = [meta |-> MetaOf(held[d]), edges |-> held[d].edges]
  BY DEF LookupFused
<1>. DEFINE query == Queries[q]
            limit == query.limit
            wide == Wide(limit)
            links == SearchRanked(live, query, wide, query.filter, query.rank.graph_boost)
            found == Truncate(GraphAnswers[a], wide)
            hits == KbLookup(live, query, 1, 2, 1, GraphAnswers[a])
            twice == 2 * limit
            others == RelatedPages(live, 20, twice)
            beside == Truncate(GraphAnswers[a], twice)
            near == KbRelated(live, 20, limit, GraphAnswers[a])
<1>1. limit \in Nat /\ wide \in Nat /\ twice \in Nat
  <2>1. limit \in Nat
    BY SearchAssumption
  <2>. QED
    BY <2>1 DEF Wide, Larger
<1>2. hits = FusedHits(found, links, 1, 2, 1, TRUE, limit)
  BY DEF KbLookup, WithLinks, FusedHits
<1>3. near = FusedHits(beside, others, 1, 1, RelatedK, FALSE, limit)
  BY DEF KbRelated, WithLinks, FusedHits
<1>. HIDE DEF hits, near, limit, wide, twice
<1>4. (\E l : PageList(links, l)) /\ \A r \in DOMAIN links : Matches(query.filter, links[r])
  BY <1>1, SearchListed
<1>5. \E l : PageList(others, l)
  BY <1>1, RelatedListed
<1>. HIDE DEF links, others
<1>6. (\E g : AnswerList(found, g)) /\ (\E g : AnswerList(beside, g)) /\ RelatedK \in Nat
  BY <1>1, AnswerListed, LookupAssumption
<1>. HIDE DEF found, beside
<1>. DEFINE yes == TRUE
            no == FALSE
<1>7. Once(hits, 1, 2, 1, links, found) /\ Complete(hits, limit, links, found)
  <2>1. hits = FusedHits(found, links, 1, 2, 1, yes, limit)
    BY <1>2
  <2>2. PICK g : AnswerList(found, g)
    BY <1>6
  <2>3. PICK l : PageList(links, l)
    BY <1>4
  <2>. HIDE DEF yes
  <2>. QED
    BY <1>1, <2>1, <2>2, <2>3, ListsFused
<1>8. Once(near, 1, 1, RelatedK, others, beside)
  <2>1. near = FusedHits(beside, others, 1, 1, RelatedK, no, limit)
    BY <1>3
  <2>2. PICK g : AnswerList(beside, g)
    BY <1>6
  <2>3. PICK l : PageList(others, l)
    BY <1>5
  <2>. HIDE DEF no
  <2>. QED
    BY <1>1, <1>6, <2>1, <2>2, <2>3, ListsFused
<1>9. \A d \in DOMAIN held : Export(live)[d] = [meta |-> MetaOf(held[d]), edges |-> held[d].edges]
  <2>1. IndexOf(held) /\ live.edges = Outlinks(held)
    BY LiveIndex, LiveLinks
  <2>2. live.meta = Metadata(held) /\ DOMAIN held = 1..Len(held)
    BY <2>1, Columned DEF IndexOf
  <2>. QED
    BY <2>1, <2>2 DEF Export, Metadata, Outlinks
<1>. QED
  BY <1>4, <1>7, <1>8, <1>9 DEF hits, near, links, others, found, beside, limit, wide, twice

\* Every page is listed once, with what both halves give it (KnowledgeBase::lookup,
\* related, export).
THEOREM LookupAlwaysFused ==
  ASSUME WeightType
  PROVE  Spec => []LookupFused
<1>1. KeysInv => LookupFused
  BY InvLookup
<1>. QED
  BY <1>1, KeysDistinct, PTL
=============================================================================
