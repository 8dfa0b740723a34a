---------------------------- MODULE Remote_proofs ----------------------------
(***************************************************************************)
(* Proofs about publishing through an object store, for any number of      *)
(* publishers, replicas, images and generations, and any faults: HEAD      *)
(* names a complete image, a loaded index replaces only the generation it  *)
(* was loaded from, and all of it is one register with conditional writes. *)
(***************************************************************************)
EXTENDS Remote, Integers, TLAPS

(***************************************************************************)
(* The inductive invariant.                                                *)
(***************************************************************************)

StoreOK ==
  /\ head # None => head.token = head.generation
  /\ HeadHasImage

\* A HEAD read or written earlier: an older one, or the current one.  Tokens
\* grow with every write, so one token belongs to one HEAD.
Known(h) ==
  h # None =>
    /\ head # None
    /\ h.token = h.generation
    /\ h.token <= head.token
    /\ h.token = head.token => h = head

\* What p awaits agrees with what it works from.  The image behind a pending
\* swap is in the store as long as the swap can succeed, and a pending delete
\* is of a generation before the current one.
CallOK(p) ==
  /\ pc[p] \in {"read head", "put", "cas", "delete"} => p \in Publishers
  /\ pc[p] = "read head" => seen[p] = None
  /\ pc[p] = "fetch" => prev[p] # None
  /\ pc[p] \in {"put", "cas"} =>
       /\ NextGeneration(prev[p]) <= MaxGeneration
       /\ seen[p] # None => prev[p] = seen[p]
  /\ pc[p] = "cas" /\ CanSwap(p) => stored[NextGeneration(prev[p])] = index[p]
  /\ pc[p] = "delete" =>
       /\ prev[p] # None /\ head # None
       /\ prev[p].generation < head.generation

\* SeenIsHeld, of one process.
Holds(p) ==
  seen[p] # None =>
    /\ ~retried[p] => seen[p].generation <= base[p]
    /\ p \in Replicas => index[p] = seen[p].image

\* An index that was loaded, and whose owner did not publish again after an
\* error, derives from the HEAD a publish works from.
Derives(p) ==
  ~retried[p] =>
    /\ outcome[p] = "ok" /\ pc[p] \in {"idle", "read", "fetch"} =>
         base[p] = GenerationOf(seen[p])
    /\ pc[p] = "delete" => base[p] = GenerationOf(seen[p])
    /\ pc[p] = "read head" => base[p] = 0
    /\ pc[p] \in {"put", "cas"} => base[p] \in {0, GenerationOf(prev[p])}

ProcessOK(p) ==
  /\ Known(seen[p]) /\ Known(prev[p])
  /\ CallOK(p)
  /\ Holds(p)
  /\ Derives(p)

Inv ==
  /\ TypeOK
  /\ StoreOK
  /\ \A p \in Processes : ProcessOK(p)

LEMMA InitInv == Init => Inv
<1>. SUFFICES ASSUME Init PROVE Inv
  OBVIOUS
<1>1. Generations = 1..MaxGeneration /\ 1 \in Generations /\ MaxGeneration \in Nat
  BY RemoteAssumption DEF Generations
<1>2. head \in MaybeHead /\ (head # None => head.token = 1 /\ head.generation = 1
                                            /\ head.image = Empty)
  BY <1>1, RemoteAssumption DEF Init, MaybeHead, Heads
<1>3. stored \in [Generations -> Images \cup {None}]
  BY RemoteAssumption DEF Init
<1>4. TypeOK
  BY <1>1, <1>2, <1>3, RemoteAssumption DEF Init, TypeOK, MaybeHead
<1>5. StoreOK
  BY <1>1, <1>2 DEF Init, StoreOK, HeadHasImage, GenerationOf
<1>6. ASSUME NEW p \in Processes PROVE ProcessOK(p)
  BY <1>6 DEF Init, ProcessOK, Known, CallOK, Holds, Derives, GenerationOf
<1>. QED  BY <1>4, <1>5, <1>6 DEF Inv

-----------------------------------------------------------------------------
(***************************************************************************)
(* What a step of one process does to the store, and to the others.        *)
(***************************************************************************)
StoreStep(p) ==
  \/ UNCHANGED store
  \/ pc[p] = "put" /\ CanPut(p) /\ PutEffect(p) /\ head' = head
  \/ /\ pc[p] = "cas" /\ CanSwap(p) /\ stored' = stored
     /\ head' = [token |-> TokenOf(head) + 1, generation |-> Named(p),
                 image |-> index[p]]
  \/ pc[p] = "delete" /\ DeleteEffect(p) /\ head' = head

\* No local of q changes.
Same(q) ==
  /\ seen'[q] = seen[q] /\ index'[q] = index[q] /\ pc'[q] = pc[q]
  /\ prev'[q] = prev[q] /\ outcome'[q] = outcome[q] /\ base'[q] = base[q]
  /\ retried'[q] = retried[q]

\* A swap that succeeds works from the current HEAD.
LEMMA SwapFacts ==
  ASSUME Inv, NEW p \in Processes, pc[p] = "cas", CanSwap(p)
  PROVE  /\ prev[p] = head
         /\ NextGeneration(prev[p]) \in Generations
         /\ TokenOf(head) + 1 = NextGeneration(prev[p])
         /\ stored[NextGeneration(prev[p])] = index[p]
<1>1. /\ head \in MaybeHead /\ prev[p] \in MaybeHead /\ Known(prev[p])
      /\ NextGeneration(prev[p]) <= MaxGeneration
      /\ stored[NextGeneration(prev[p])] = index[p]
      /\ head # None => head.token = head.generation
  BY DEF Inv, TypeOK, ProcessOK, CallOK, StoreOK
<1>2. \A h \in Heads : h.token \in Nat \ {0} /\ h.generation \in Nat \ {0}
  BY RemoteAssumption DEF Heads, Generations
<1>3. TokenOf(head) = TokenOf(prev[p])
  BY DEF CanSwap, Expected
<1>4. prev[p] = head
  BY <1>1, <1>2, <1>3 DEF MaybeHead, TokenOf, Known
<1>5. TokenOf(head) = GenerationOf(head) /\ GenerationOf(head) \in Nat
  BY <1>1, <1>2 DEF MaybeHead, TokenOf, GenerationOf
<1>. QED  BY <1>1, <1>4, <1>5, RemoteAssumption DEF NextGeneration, Generations

LEMMA StoreInv ==
  ASSUME Inv, NEW p \in Processes, StoreStep(p)
  PROVE  /\ head' \in MaybeHead
         /\ stored' \in [Generations -> Images \cup {None}]
         /\ StoreOK'
<1>1. /\ head \in MaybeHead /\ stored \in [Generations -> Images \cup {None}]
      /\ index[p] \in Images /\ prev[p] \in MaybeHead
      /\ StoreOK /\ ProcessOK(p)
  BY DEF Inv, TypeOK
<1>2. CASE UNCHANGED store
  BY <1>1, <1>2 DEF store, StoreOK, HeadHasImage
<1>3. CASE pc[p] = "put" /\ CanPut(p) /\ PutEffect(p) /\ head' = head
  <2>1. stored' \in [Generations -> Images \cup {None}]
    BY <1>1, <1>3 DEF PutEffect
  <2>2. head # None => head.generation \in Generations /\ head.image # None
    BY <1>1, RemoteAssumption DEF MaybeHead, Heads
  <2>3. HeadHasImage'
    BY <1>1, <1>3, <2>2 DEF PutEffect, CanPut, StoreOK, HeadHasImage
  <2>. QED  BY <1>1, <1>3, <2>1, <2>3 DEF StoreOK
<1>4. CASE /\ pc[p] = "cas" /\ CanSwap(p) /\ stored' = stored
           /\ head' = [token |-> TokenOf(head) + 1, generation |-> Named(p),
                       image |-> index[p]]
  <2>1. /\ NextGeneration(prev[p]) \in Generations
        /\ TokenOf(head) + 1 = NextGeneration(prev[p])
        /\ stored[NextGeneration(prev[p])] = index[p]
    BY <1>4, SwapFacts
  <2>. QED  BY <1>1, <1>4, <2>1 DEF Named, MaybeHead, Heads, StoreOK, HeadHasImage
<1>5. CASE pc[p] = "delete" /\ DeleteEffect(p) /\ head' = head
  <2>1. stored' \in [Generations -> Images \cup {None}]
    BY <1>1, <1>5 DEF DeleteEffect
  <2>2. Superseded(p) # head.generation
    <3>1. prev[p] # None /\ head # None /\ prev[p].generation < head.generation
      BY <1>1, <1>5 DEF ProcessOK, CallOK
    <3>2. prev[p].generation \in Int /\ head.generation \in Int
      BY <3>1, <1>1 DEF MaybeHead, Heads, Generations
    <3>. QED  BY <3>1, <3>2 DEF Superseded, GenerationOf
  <2>3. HeadHasImage'
    <3>1. head # None => head.generation \in Generations
      BY <1>1 DEF MaybeHead, Heads
    <3>. QED  BY <1>1, <1>5, <2>2, <3>1 DEF DeleteEffect, StoreOK, HeadHasImage
  <2>. QED  BY <1>1, <1>5, <2>1, <2>3 DEF StoreOK
<1>. QED  BY <1>2, <1>3, <1>4, <1>5 DEF StoreStep

\* What was known of HEAD stays true of it.
LEMMA KnownKept ==
  ASSUME Inv, NEW p \in Processes, StoreStep(p), NEW h \in MaybeHead, Known(h)
  PROVE  Known(h)'
<1>1. head \in MaybeHead
  BY DEF Inv, TypeOK
<1>2. \A x \in Heads : x.token \in Nat
  BY DEF Heads, Generations
<1>3. CASE head' = head
  BY <1>3 DEF Known
<1>4. CASE head' = [token |-> TokenOf(head) + 1, generation |-> Named(p),
                    image |-> index[p]] /\ pc[p] = "cas" /\ CanSwap(p)
  <2>1. h # None => /\ head # None
                    /\ h.token = h.generation
                    /\ h.token < TokenOf(head) + 1
                    /\ h.token \in Nat
    BY <1>1, <1>2 DEF Known, TokenOf, MaybeHead
  <2>2. TokenOf(head) \in Nat
    BY <1>1, <1>2 DEF TokenOf, MaybeHead
  <2>3. head' # None
    <3>1. head' \in Heads
      <4>1. index[p] \in Images
        BY DEF Inv, TypeOK
      <4>. QED  BY <1>4, <4>1, SwapFacts DEF Heads, Named
    <3>. QED  BY <3>1, RemoteAssumption
  <2>4. head'.token = TokenOf(head) + 1
    BY <1>4
  <2>. QED  BY <2>1, <2>2, <2>3, <2>4 DEF Known
<1>. QED  BY <1>3, <1>4 DEF StoreStep, store

LEMMA OthersOK ==
  ASSUME Inv, NEW p \in Processes, StoreStep(p),
         NEW q \in Processes, Same(q), q # p
  PROVE  ProcessOK(q)'
<1>1. /\ head \in MaybeHead /\ stored \in [Generations -> Images \cup {None}]
      /\ prev[p] \in MaybeHead /\ prev[q] \in MaybeHead
      /\ seen[q] \in MaybeHead /\ index[p] \in Images /\ index[q] \in Images
      /\ ProcessOK(p) /\ ProcessOK(q) /\ StoreOK
  BY DEF Inv, TypeOK
<1>2. Known(seen[q])' /\ Known(prev[q])'
  <2>1. Known(seen[q]) /\ Known(prev[q])
    BY <1>1 DEF ProcessOK
  <2>. QED  BY <2>1, <1>1, KnownKept DEF Same, Known
<1>3. Holds(q)' /\ Derives(q)'
  BY <1>1 DEF ProcessOK, Holds, Derives, Same
<1>4. \A h \in Heads : h.token \in Nat \ {0} /\ h.generation \in Nat \ {0}
  BY RemoteAssumption DEF Heads, Generations
<1>. DEFINE g == NextGeneration(prev[q])
\* The image behind q's swap stays, or the swap cannot succeed any more.
<1>5. (pc[q] = "cas" /\ CanSwap(q) => stored[g] = index[q])'
  <2>. SUFFICES ASSUME pc[q] = "cas", TokenOf(head)' = TokenOf(prev[q])
                PROVE  stored'[g] = index[q]
    BY DEF CanSwap, Expected, TokenOf, Same, NextGeneration, GenerationOf
  <2>1. CASE UNCHANGED store
    BY <2>1, <1>1 DEF store, ProcessOK, CallOK, CanSwap, Expected, TokenOf
  <2>2. CASE head' = head /\ pc[p] = "put" /\ CanPut(p) /\ PutEffect(p)
    <3>1. CanSwap(q)
      BY <2>2 DEF CanSwap, Expected, TokenOf
    <3>2. stored[g] = index[q] /\ g \in Generations
      BY <3>1, SwapFacts
    <3>. QED  BY <3>2, <2>2, <1>1, RemoteAssumption DEF PutEffect, CanPut
  <2>3. CASE /\ pc[p] = "cas" /\ CanSwap(p) /\ stored' = stored
             /\ head' = [token |-> TokenOf(head) + 1, generation |-> Named(p),
                         image |-> index[p]]
    <3>1. head'.token = TokenOf(head) + 1 /\ head' # None
      <4>1. head' \in Heads
        BY <2>3, <1>1, SwapFacts DEF Heads, Named
      <4>. QED  BY <4>1, <2>3, RemoteAssumption
    <3>2. TokenOf(head) \in Nat /\ TokenOf(prev[q]) \in Nat
          /\ TokenOf(prev[q]) <= TokenOf(head)
      BY <1>1, <1>4 DEF ProcessOK, Known, TokenOf, MaybeHead
    <3>3. TokenOf(head)' = TokenOf(head) + 1
      BY <3>1 DEF TokenOf
    <3>. QED  BY <3>2, <3>3
  <2>4. CASE head' = head /\ pc[p] = "delete" /\ DeleteEffect(p)
    <3>1. CanSwap(q)
      BY <2>4 DEF CanSwap, Expected, TokenOf
    <3>2. stored[g] = index[q] /\ g \in Generations
          /\ TokenOf(head) + 1 = g
      BY <3>1, SwapFacts
    <3>3. /\ prev[p] # None /\ head # None
          /\ prev[p].generation < head.generation
          /\ head.token = head.generation
      BY <2>4, <1>1 DEF ProcessOK, CallOK, StoreOK
    <3>4. Superseded(p) # g
      BY <3>2, <3>3, <1>1, <1>4 DEF Superseded, GenerationOf, TokenOf, MaybeHead
    <3>. QED  BY <3>2, <3>4, <2>4, <1>1 DEF DeleteEffect
  <2>. QED  BY <2>1, <2>2, <2>3, <2>4 DEF StoreStep
<1>6. (pc[q] = "delete" => /\ prev[q] # None /\ head # None
                           /\ prev[q].generation < head.generation)'
  <2>. SUFFICES ASSUME pc[q] = "delete"
                PROVE  /\ prev[q] # None /\ head' # None
                       /\ prev[q].generation < head'.generation
    BY DEF Same
  <2>1. /\ prev[q] # None /\ head # None
        /\ prev[q].generation < head.generation
    BY <1>1 DEF ProcessOK, CallOK
  <2>2. CASE head' = head
    BY <2>1, <2>2
  <2>3. CASE /\ pc[p] = "cas" /\ CanSwap(p)
             /\ head' = [token |-> TokenOf(head) + 1, generation |-> Named(p),
                         image |-> index[p]]
    <3>1. head' \in Heads /\ head'.generation = head.generation + 1
      BY <2>1, <2>3, <1>1, SwapFacts DEF Heads, Named, StoreOK, TokenOf
    <3>. QED  BY <3>1, <2>1, <1>1, <1>4, RemoteAssumption DEF MaybeHead
  <2>. QED  BY <2>2, <2>3 DEF StoreStep, store
<1>7. CallOK(q)'
  BY <1>1, <1>5, <1>6 DEF ProcessOK, CallOK, Same, NextGeneration, GenerationOf
<1>. QED  BY <1>2, <1>3, <1>7 DEF ProcessOK

-----------------------------------------------------------------------------
(***************************************************************************)
(* The steps.  Each says what becomes of the process that takes it.        *)
(***************************************************************************)
LocalsOK ==
  /\ seen \in [Processes -> MaybeHead]
  /\ index \in [Processes -> Images]
  /\ pc \in [Processes -> {"idle", "read", "fetch", "read head",
                           "put", "cas", "delete"}]
  /\ prev \in [Processes -> MaybeHead]
  /\ faults \in 0..MaxFaults
  /\ outcome \in [Processes -> {"new", "ok", "failed", "fenced"}]
  /\ base \in [Processes -> 0..MaxGeneration]
  /\ retried \in [Processes -> BOOLEAN]

LEMMA StepInv ==
  ASSUME Inv, NEW p \in Processes, StoreStep(p), LocalsOK', ProcessOK(p)',
         \A q \in Processes : q # p => Same(q)
  PROVE  Inv'
<1>1. \A q \in Processes : ProcessOK(q)'
  BY OthersOK
<1>2. TypeOK'
  BY StoreInv DEF TypeOK, LocalsOK
<1>. QED  BY <1>1, <1>2, StoreInv DEF Inv

\* The types of a process, and numbers of a HEAD.
LEMMA Locals ==
  ASSUME Inv, NEW p \in Processes
  PROVE  /\ LocalsOK /\ head \in MaybeHead
         /\ \A h \in MaybeHead :
              /\ GenerationOf(h) \in 0..MaxGeneration
              /\ h = None => GenerationOf(h) = 0
              /\ h # None => /\ h \in Heads /\ GenerationOf(h) = h.generation
                             /\ h.token \in Nat /\ h.generation \in Nat \ {0}
         /\ None \in MaybeHead
         /\ ProcessOK(p) /\ StoreOK
         /\ 0 \in 0..MaxGeneration /\ MaxGeneration \in Nat
<1>1. LocalsOK /\ head \in MaybeHead /\ ProcessOK(p) /\ StoreOK
  BY DEF Inv, TypeOK, LocalsOK
<1>2. MaxGeneration \in Nat /\ 0 \in 0..MaxGeneration
  BY RemoteAssumption
<1>3. ASSUME NEW h \in MaybeHead
      PROVE  /\ GenerationOf(h) \in 0..MaxGeneration
             /\ h = None => GenerationOf(h) = 0
             /\ h # None => /\ h \in Heads /\ GenerationOf(h) = h.generation
                            /\ h.token \in Nat /\ h.generation \in Nat \ {0}
  <2>1. h # None => h \in Heads /\ h.token \in Generations /\ h.generation \in Generations
    BY DEF MaybeHead, Heads
  <2>2. Generations \subseteq (Nat \ {0}) /\ Generations \subseteq 0..MaxGeneration
    BY <1>2 DEF Generations
  <2>. QED  BY <1>2, <2>1, <2>2 DEF GenerationOf
<1>. QED  BY <1>1, <1>2, <1>3 DEF MaybeHead

LEMMA LoadInv ==
  ASSUME Inv, NEW p \in Processes, Load(p) \/ Poll(p)
  PROVE  Inv'
<1>1. LocalsOK /\ ProcessOK(p) /\ None \in MaybeHead
  BY Locals
<1>2. StoreStep(p)
  BY DEF Load, Poll, StoreStep, store
<1>3. LocalsOK' /\ \A q \in Processes : q # p => Same(q)
  BY <1>1 DEF Load, Poll, Await, LocalsOK, Same
<1>4. ProcessOK(p)'
  BY <1>1 DEF Load, Poll, Await, LocalsOK, store, ProcessOK, Known, CallOK,
              Holds, Derives, GenerationOf
<1>. QED  BY <1>2, <1>3, <1>4, StepInv

LEMMA ReadHeadInv == ASSUME Inv, NEW p \in Processes, ReadHead(p) PROVE Inv'
<1>1. /\ LocalsOK /\ ProcessOK(p) /\ None \in MaybeHead /\ head \in MaybeHead
      /\ StoreOK /\ 0 \in 0..MaxGeneration
      /\ head # None => head.token \in Nat
  BY Locals
<1>2. StoreStep(p) /\ UNCHANGED <<head, stored, faults>> /\ pc[p] = "read"
  BY DEF ReadHead, StoreStep, store
<1>3. CASE head # None /\ Await(p, "fetch", head)
           /\ UNCHANGED <<seen, index, outcome, base, retried>>
  <2>1. LocalsOK' /\ \A q \in Processes : q # p => Same(q)
    BY <1>1, <1>2, <1>3 DEF Await, LocalsOK, Same
  <2>2. pc'[p] = "fetch" /\ prev'[p] = head
    BY <1>1, <1>3 DEF Await, LocalsOK
  <2>3. Known(seen[p])' /\ Known(prev[p])'
    BY <1>1, <1>2, <1>3, <2>2 DEF ProcessOK, Known, StoreOK
  <2>4. CallOK(p)' /\ Holds(p)' /\ Derives(p)'
    BY <1>1, <1>2, <1>3, <2>2 DEF ProcessOK, CallOK, Holds, Derives, GenerationOf
  <2>. QED  BY <1>2, <2>1, <2>3, <2>4, StepInv DEF ProcessOK
<1>4. CASE /\ head = None /\ Saw(p, None) /\ Done(p, "ok")
           /\ index' = [index EXCEPT ![p] = Empty]
           /\ base' = [base EXCEPT ![p] = 0]
           /\ retried' = [retried EXCEPT ![p] = FALSE]
  <2>1. LocalsOK' /\ \A q \in Processes : q # p => Same(q)
    BY <1>1, <1>2, <1>4, RemoteAssumption DEF Saw, Done, LocalsOK, Same
  <2>2. pc'[p] = "idle" /\ prev'[p] = None /\ seen'[p] = None /\ base'[p] = 0
    BY <1>1, <1>4 DEF Saw, Done, LocalsOK
  <2>3. ProcessOK(p)'
    BY <2>2 DEF ProcessOK, Known, CallOK, Holds, Derives, GenerationOf
  <2>. QED  BY <1>2, <2>1, <2>3, StepInv
<1>. QED  BY <1>3, <1>4 DEF ReadHead

LEMMA FetchInv == ASSUME Inv, NEW p \in Processes, Fetch(p) PROVE Inv'
<1>1. /\ LocalsOK /\ ProcessOK(p) /\ None \in MaybeHead
      /\ prev[p] \in MaybeHead
      /\ \A h \in MaybeHead :
           /\ GenerationOf(h) \in 0..MaxGeneration
           /\ h # None => h \in Heads /\ GenerationOf(h) = h.generation
  BY Locals DEF LocalsOK
<1>2. StoreStep(p) /\ UNCHANGED <<head, stored, faults>> /\ pc[p] = "fetch"
  BY DEF Fetch, StoreStep, store
<1>3. prev[p] # None /\ prev[p] \in Heads
  BY <1>1, <1>2 DEF ProcessOK, CallOK
<1>4. prev[p].image \in Images /\ prev[p].generation \in 0..MaxGeneration
      /\ prev[p].generation \in Int
  BY <1>1, <1>3 DEF Heads, Generations
<1>5. CASE /\ index' = [index EXCEPT ![p] = prev[p].image]
           /\ Saw(p, prev[p])
           /\ Done(p, "ok")
           /\ base' = [base EXCEPT ![p] = prev[p].generation]
           /\ retried' = [retried EXCEPT ![p] = FALSE]
  <2>1. LocalsOK' /\ \A q \in Processes : q # p => Same(q)
    BY <1>1, <1>2, <1>4, <1>5 DEF Saw, Done, LocalsOK, Same
  <2>2. /\ pc'[p] = "idle" /\ prev'[p] = None /\ seen'[p] = prev[p]
        /\ index'[p] = prev[p].image /\ base'[p] = prev[p].generation
    BY <1>1, <1>5 DEF Saw, Done, LocalsOK
  <2>3. Known(seen[p])' /\ Known(prev[p])'
    BY <1>1, <1>2, <2>2 DEF ProcessOK, Known
  <2>4. CallOK(p)' /\ Holds(p)' /\ Derives(p)'
    BY <1>3, <1>4, <2>2 DEF CallOK, Holds, Derives, GenerationOf
  <2>. QED  BY <1>2, <2>1, <2>3, <2>4, StepInv DEF ProcessOK
<1>6. CASE FetchLost(p) /\ UNCHANGED <<index, base, retried>>
  <2>1. LocalsOK' /\ \A q \in Processes : q # p => Same(q)
    BY <1>1, <1>2, <1>6 DEF FetchLost, Done, LocalsOK, Same
  <2>2. pc'[p] = "idle" /\ prev'[p] = None /\ seen' = seen /\ outcome'[p] = "failed"
    BY <1>1, <1>6 DEF FetchLost, Done, LocalsOK
  <2>3. Known(seen[p])' /\ Known(prev[p])'
    BY <1>1, <1>2, <2>2 DEF ProcessOK, Known
  <2>4. CallOK(p)' /\ Holds(p)' /\ Derives(p)'
    BY <1>1, <1>6, <2>2 DEF ProcessOK, CallOK, Holds, Derives
  <2>. QED  BY <1>2, <2>1, <2>3, <2>4, StepInv DEF ProcessOK
<1>. QED  BY <1>5, <1>6 DEF Fetch

LEMMA ChangeInv == ASSUME Inv, NEW p \in Processes, Change(p) PROVE Inv'
<1>1. LocalsOK /\ ProcessOK(p)
  BY Locals
<1>2. /\ StoreStep(p) /\ pc[p] = "idle" /\ p \in Publishers
      /\ UNCHANGED <<head, stored, seen, pc, prev, faults, outcome, base, retried>>
  BY DEF Change, StoreStep, store
<1>3. PICK image \in Images : index' = [index EXCEPT ![p] = image]
  BY DEF Change
<1>4. LocalsOK' /\ \A q \in Processes : q # p => Same(q)
  BY <1>1, <1>2, <1>3 DEF LocalsOK, Same
<1>5. Known(seen[p])' /\ Known(prev[p])'
  BY <1>1, <1>2 DEF ProcessOK, Known
<1>6. CallOK(p)' /\ Holds(p)' /\ Derives(p)'
  BY <1>1, <1>2, RemoteAssumption
     DEF ProcessOK, CallOK, Holds, Derives, GenerationOf
<1>. QED  BY <1>2, <1>4, <1>5, <1>6, StepInv DEF ProcessOK

-----------------------------------------------------------------------------
(***************************************************************************)
(* publish.                                                                *)
(***************************************************************************)

LEMMA AtMostItself == \A n \in Nat : n <= n
  OBVIOUS

\* The two ways a publish goes on from h, whichever HEAD that is, as long as
\* an index that was loaded derives from it.
LEMMA CompareInv ==
  ASSUME Inv, NEW p \in Publishers, NEW h \in MaybeHead, Known(h),
         pc[p] \in {"idle", "read head"},
         seen[p] # None => h = seen[p],
         ~retried'[p] => base[p] \in {0, GenerationOf(h)},
         retried' \in [Processes -> BOOLEAN],
         \A q \in Processes : q # p => retried'[q] = retried[q],
         retried[p] => retried'[p],
         Compare(p, h), UNCHANGED <<store, index, faults>>
  PROVE  Inv'
<1>. p \in Processes
  BY DEF Processes
<1>1. /\ LocalsOK /\ ProcessOK(p) /\ None \in MaybeHead
      /\ GenerationOf(h) \in 0..MaxGeneration
      /\ h # None => GenerationOf(h) = h.generation /\ h.generation \in Nat
      /\ p \notin Replicas
  BY Locals, RemoteAssumption
<1>2. StoreStep(p) /\ UNCHANGED <<head, stored, faults, index>>
  BY DEF StoreStep, store
<1>3. CASE /\ h # None /\ h.image = index[p]
           /\ Saw(p, h)
           /\ Done(p, "ok")
           /\ base' = [base EXCEPT ![p] = h.generation]
  <2>1. LocalsOK' /\ \A q \in Processes : q # p => Same(q)
    BY <1>1, <1>2, <1>3 DEF Saw, Done, LocalsOK, Same
  <2>2. /\ pc'[p] = "idle" /\ prev'[p] = None /\ seen'[p] = h
        /\ base'[p] = h.generation
    BY <1>1, <1>3 DEF Saw, Done, LocalsOK
  <2>3. Known(seen[p])' /\ Known(prev[p])'
    BY <1>2, <2>2 DEF Known
  <2>4. CallOK(p)' /\ Holds(p)'
    <3>1. h # None /\ h.generation \in Nat
      BY <1>1, <1>3
    <3>2. h.generation <= h.generation
      BY <3>1, AtMostItself, Zenon
    <3>. QED  BY <1>1, <2>2, <3>2 DEF CallOK, Holds
  <2>5. Derives(p)'
    BY <1>3, <2>2 DEF Derives, GenerationOf
  <2>. QED  BY <1>2, <2>1, <2>3, <2>4, <2>5, StepInv DEF ProcessOK
<1>4. CASE /\ NextGeneration(h) <= MaxGeneration
           /\ Await(p, "put", h)
           /\ UNCHANGED <<seen, outcome, base>>
  <2>1. LocalsOK' /\ \A q \in Processes : q # p => Same(q)
    BY <1>1, <1>2, <1>4 DEF Await, LocalsOK, Same
  <2>2. pc'[p] = "put" /\ prev'[p] = h
    BY <1>1, <1>4 DEF Await, LocalsOK
  <2>3. Known(seen[p])' /\ Known(prev[p])'
    BY <1>1, <1>2, <1>4, <2>2 DEF ProcessOK, Known
  <2>4. CallOK(p)' /\ Holds(p)' /\ Derives(p)'
    BY <1>1, <1>2, <1>4, <2>2
       DEF ProcessOK, CallOK, Holds, Derives, GenerationOf, NextGeneration
  <2>. QED  BY <1>2, <2>1, <2>3, <2>4, StepInv DEF ProcessOK
<1>. QED  BY <1>3, <1>4 DEF Compare

LEMMA PublishInv == ASSUME Inv, NEW p \in Processes, Publish(p) PROVE Inv'
<1>1. /\ LocalsOK /\ ProcessOK(p) /\ seen[p] \in MaybeHead /\ None \in MaybeHead
      /\ outcome[p] \in {"ok", "failed", "fenced"}
  BY Locals DEF LocalsOK, Publish
<1>2. /\ p \in Publishers /\ pc[p] = "idle"
      /\ UNCHANGED <<store, index, faults>>
      /\ retried' = [retried EXCEPT ![p] = @ \/ outcome[p] \in {"failed", "fenced"}]
  BY DEF Publish
<1>3. /\ retried' \in [Processes -> BOOLEAN]
      /\ \A q \in Processes : q # p => retried'[q] = retried[q]
      /\ retried'[p] = (retried[p] \/ outcome[p] \in {"failed", "fenced"})
  <2>1. (retried[p] \/ outcome[p] \in {"failed", "fenced"}) \in BOOLEAN
    OBVIOUS
  <2>. QED  BY <2>1, <1>1, <1>2 DEF LocalsOK
\* Without an error since, the index in memory derives from seen.
<1>4. ~retried'[p] => ~retried[p] /\ base[p] = GenerationOf(seen[p])
  BY <1>1, <1>2, <1>3 DEF ProcessOK, Derives
<1>5. CASE seen[p] # None /\ Compare(p, seen[p])
  BY <1>1, <1>2, <1>3, <1>4, <1>5, CompareInv DEF ProcessOK
<1>6. CASE /\ seen[p] = None
           /\ Await(p, "read head", None)
           /\ UNCHANGED <<seen, outcome, base>>
  <2>1. StoreStep(p) /\ UNCHANGED <<head, stored, faults, index>>
    BY <1>2 DEF StoreStep, store
  <2>2. LocalsOK' /\ \A q \in Processes : q # p => Same(q)
    BY <1>1, <1>2, <1>3, <1>6 DEF Await, LocalsOK, Same
  <2>3. pc'[p] = "read head" /\ prev'[p] = None /\ seen'[p] = None /\ base'[p] = base[p]
    BY <1>1, <1>6 DEF Await, LocalsOK
  <2>4. ~retried'[p] => base'[p] = 0
    BY <1>4, <1>6, <2>3 DEF GenerationOf
  <2>5. ProcessOK(p)'
    BY <1>2, <2>3, <2>4 DEF ProcessOK, Known, CallOK, Holds, Derives
  <2>. QED  BY <2>1, <2>2, <2>5, StepInv
<1>. QED  BY <1>5, <1>6 DEF Publish

LEMMA ReadPreviousInv ==
  ASSUME Inv, NEW p \in Processes, ReadPrevious(p) PROVE Inv'
<1>1. /\ LocalsOK /\ ProcessOK(p) /\ head \in MaybeHead /\ StoreOK
      /\ head # None => head.token \in Nat
  BY Locals
<1>2. /\ pc[p] = "read head" /\ UNCHANGED <<store, index, faults, retried>>
      /\ Compare(p, head)
  BY DEF ReadPrevious
<1>3. p \in Publishers /\ seen[p] = None /\ (~retried[p] => base[p] = 0)
  BY <1>1, <1>2 DEF ProcessOK, CallOK, Derives
<1>4. Known(head)
  BY <1>1 DEF Known, StoreOK
<1>. QED  BY <1>1, <1>2, <1>3, <1>4, CompareInv DEF LocalsOK

LEMMA PutInv == ASSUME Inv, NEW p \in Processes, Put(p) PROVE Inv'
<1>1. /\ LocalsOK /\ ProcessOK(p) /\ None \in MaybeHead
      /\ GenerationOf(prev[p]) \in 0..MaxGeneration
      /\ MaxGeneration \in Nat
  BY Locals DEF LocalsOK
<1>2. pc[p] = "put" /\ UNCHANGED <<head, index, faults, base, retried>>
  BY DEF Put
<1>3. CASE /\ CanPut(p)
           /\ PutEffect(p)
           /\ Await(p, "cas", prev[p])
           /\ UNCHANGED <<seen, outcome>>
  <2>1. StoreStep(p)
    BY <1>2, <1>3 DEF StoreStep
  <2>2. LocalsOK' /\ \A q \in Processes : q # p => Same(q)
    BY <1>1, <1>2, <1>3 DEF Await, LocalsOK, Same
  <2>3. pc'[p] = "cas" /\ prev'[p] = prev[p]
    BY <1>1, <1>3 DEF Await, LocalsOK
  <2>4. Known(seen[p])' /\ Known(prev[p])'
    BY <1>1, <1>2, <1>3, <2>3 DEF ProcessOK, Known
  <2>5. stored'[NextGeneration(prev[p])] = index[p]
    <3>1. stored \in [Generations -> Images \cup {None}]
      BY DEF Inv, TypeOK
    <3>2. NextGeneration(prev[p]) \in Generations
      BY <1>1, <1>2 DEF ProcessOK, CallOK, NextGeneration, Generations
    <3>. QED  BY <3>1, <3>2, <1>3 DEF PutEffect
  <2>6. CallOK(p)'
    BY <1>1, <1>2, <1>3, <2>3, <2>5 DEF ProcessOK, CallOK, NextGeneration, GenerationOf
  <2>7. Holds(p)' /\ Derives(p)'
    BY <1>1, <1>2, <1>3, <2>3 DEF ProcessOK, Holds, Derives, GenerationOf
  <2>. QED  BY <2>1, <2>2, <2>4, <2>6, <2>7, StepInv DEF ProcessOK
<1>4. CASE Forget(p, "fenced") /\ UNCHANGED stored
  <2>1. StoreStep(p)
    BY <1>2, <1>4 DEF StoreStep, store
  <2>2. LocalsOK' /\ \A q \in Processes : q # p => Same(q)
    BY <1>1, <1>2, <1>4 DEF Forget, Saw, Done, LocalsOK, Same
  <2>3. pc'[p] = "idle" /\ prev'[p] = None /\ seen'[p] = None /\ outcome'[p] = "fenced"
    BY <1>1, <1>4 DEF Forget, Saw, Done, LocalsOK
  <2>4. ProcessOK(p)'
    BY <2>3 DEF ProcessOK, Known, CallOK, Holds, Derives
  <2>. QED  BY <2>1, <2>2, <2>4, StepInv
<1>. QED  BY <1>3, <1>4 DEF Put

LEMMA SwapInv == ASSUME Inv, NEW p \in Processes, Swap(p) PROVE Inv'
<1>1. /\ LocalsOK /\ ProcessOK(p) /\ None \in MaybeHead /\ head \in MaybeHead
      /\ GenerationOf(prev[p]) \in 0..MaxGeneration
      /\ \A h \in MaybeHead : h # None =>
           GenerationOf(h) = h.generation /\ h.generation \in Nat
      /\ MaxGeneration \in Nat
  BY Locals DEF LocalsOK
<1>2. pc[p] = "cas" /\ UNCHANGED <<stored, index, faults, retried>>
  BY DEF Swap
<1>3. CASE /\ CanSwap(p)
           /\ SwapEffect(p)
           /\ Saw(p, head')
           /\ IF prev[p] = None THEN Done(p, "ok")
                ELSE Await(p, "delete", prev[p]) /\ UNCHANGED outcome
  <2>. DEFINE g == NextGeneration(prev[p])
  <2>1. StoreStep(p)
    BY <1>2, <1>3 DEF StoreStep, SwapEffect
  <2>2. /\ prev[p] = head /\ g \in Generations /\ TokenOf(head) + 1 = g
        /\ g = GenerationOf(head) + 1
    BY <1>2, <1>3, SwapFacts DEF NextGeneration
  <2>3. g \in 0..MaxGeneration /\ g \in Nat /\ g > 0
    BY <2>2, <1>1 DEF Generations
  <2>4. /\ head' \in Heads /\ head' # None
        /\ head'.token = g /\ head'.generation = g /\ head'.image = index[p]
    <3>1. index[p] \in Images
      BY <1>1 DEF LocalsOK
    <3>2. head' = [token |-> g, generation |-> g, image |-> index[p]]
      BY <1>3, <2>2 DEF SwapEffect, Named
    <3>3. head' \in Heads
      BY <3>1, <3>2, <2>2 DEF Heads
    <3>. QED  BY <3>2, <3>3, RemoteAssumption
  <2>5. LocalsOK' /\ \A q \in Processes : q # p => Same(q)
    <3>1. base' = [base EXCEPT ![p] = g]
      BY <1>3 DEF SwapEffect
    <3>2. head' \in MaybeHead
      BY <2>4 DEF MaybeHead
    <3>. QED  BY <1>1, <1>2, <1>3, <2>3, <3>1, <3>2
                 DEF Saw, Done, Await, LocalsOK, Same
  <2>6. seen'[p] = head' /\ base'[p] = g
    BY <1>1, <1>3 DEF Saw, SwapEffect, LocalsOK
  <2>7. \/ pc'[p] = "idle" /\ prev'[p] = None
        \/ pc'[p] = "delete" /\ prev'[p] = head /\ head # None
    BY <1>1, <1>3, <2>2 DEF Done, Await, LocalsOK
  <2>8. Known(seen[p])' /\ Known(prev[p])'
    <3>1. Known(seen[p])'
      BY <2>3, <2>4, <2>6 DEF Known
    <3>2. CASE prev'[p] = None
      BY <3>1, <3>2 DEF Known
    <3>3. CASE prev'[p] = head /\ head # None
      <4>1. Known(prev[p])
        BY <1>1 DEF ProcessOK
      <4>2. PICK h \in MaybeHead : h = head
        BY <1>1
      <4>3. Known(h)
        BY <4>1, <4>2, <2>2
      <4>4. Known(h)'
        BY <4>3, <2>1, KnownKept
      <4>. QED  BY <3>1, <3>3, <4>2, <4>4 DEF Known
    <3>. QED  BY <3>1, <3>2, <3>3, <2>7
  <2>9. CallOK(p)'
    <3>1. p \in Publishers
      BY <1>1, <1>2 DEF ProcessOK, CallOK
    <3>2. head # None => head.generation < g
      BY <1>1, <2>2
    <3>. QED  BY <3>1, <3>2, <2>4, <2>7 DEF CallOK
  <2>10. Holds(p)' /\ Derives(p)'
    <3>1. index'[p] = index[p]
      BY <1>2
    <3>2. GenerationOf(seen[p])' = base'[p]
      BY <2>4, <2>6 DEF GenerationOf
    <3>3. seen'[p].generation <= base'[p]
      BY <2>3, <2>4, <2>6
    <3>. QED  BY <2>4, <2>6, <2>7, <3>1, <3>2, <3>3 DEF Holds, Derives
  <2>. QED  BY <2>1, <2>5, <2>8, <2>9, <2>10, StepInv DEF ProcessOK
<1>4. CASE Forget(p, "fenced") /\ UNCHANGED <<head, base>>
  <2>1. StoreStep(p)
    BY <1>2, <1>4 DEF StoreStep, store
  <2>2. LocalsOK' /\ \A q \in Processes : q # p => Same(q)
    BY <1>1, <1>2, <1>4 DEF Forget, Saw, Done, LocalsOK, Same
  <2>3. pc'[p] = "idle" /\ prev'[p] = None /\ seen'[p] = None /\ outcome'[p] = "fenced"
    BY <1>1, <1>4 DEF Forget, Saw, Done, LocalsOK
  <2>4. ProcessOK(p)'
    BY <2>3 DEF ProcessOK, Known, CallOK, Holds, Derives
  <2>. QED  BY <2>1, <2>2, <2>4, StepInv
<1>. QED  BY <1>3, <1>4 DEF Swap

LEMMA DeleteInv == ASSUME Inv, NEW p \in Processes, Delete(p) PROVE Inv'
<1>1. LocalsOK /\ ProcessOK(p) /\ None \in MaybeHead
  BY Locals
<1>2. /\ pc[p] = "delete" /\ StoreStep(p) /\ Done(p, "ok")
      /\ UNCHANGED <<head, seen, index, faults, base, retried>>
  BY DEF Delete, StoreStep, store
<1>3. LocalsOK' /\ \A q \in Processes : q # p => Same(q)
  BY <1>1, <1>2 DEF Done, LocalsOK, Same
<1>4. /\ pc'[p] = "idle" /\ prev'[p] = None /\ seen'[p] = seen[p]
      /\ base'[p] = base[p] /\ index'[p] = index[p] /\ retried'[p] = retried[p]
  BY <1>1, <1>2 DEF Done, LocalsOK
<1>5. Known(seen[p])' /\ Known(prev[p])'
  BY <1>1, <1>2, <1>4 DEF ProcessOK, Known
<1>6. CallOK(p)' /\ Holds(p)' /\ Derives(p)'
  BY <1>1, <1>2, <1>4 DEF ProcessOK, CallOK, Holds, Derives, GenerationOf
<1>. QED  BY <1>2, <1>3, <1>5, <1>6, StepInv DEF ProcessOK

-----------------------------------------------------------------------------
(***************************************************************************)
(* What goes wrong.                                                        *)
(***************************************************************************)

\* The effect a lost request had, on the store and on what p derives from.
LEMMA LostFacts ==
  ASSUME Inv, NEW p \in Processes, LostEffect(p)
  PROVE  /\ StoreStep(p)
         /\ base' \in [Processes -> 0..MaxGeneration]
         /\ \A q \in Processes : q # p => base'[q] = base[q]
         /\ \/ base' = base
            \/ pc[p] = "cas" /\ base'[p] > GenerationOf(prev[p])
<1>1. LocalsOK /\ GenerationOf(prev[p]) \in 0..MaxGeneration
  BY Locals DEF LocalsOK
<1>2. CASE UNCHANGED <<store, base>>
  BY <1>1, <1>2 DEF StoreStep, LocalsOK
<1>3. CASE pc[p] = "put" /\ CanPut(p) /\ PutEffect(p) /\ UNCHANGED <<head, base>>
  BY <1>1, <1>3 DEF StoreStep, LocalsOK
<1>4. CASE pc[p] = "cas" /\ CanSwap(p) /\ SwapEffect(p) /\ UNCHANGED stored
  <2>1. StoreStep(p)
    BY <1>4 DEF StoreStep, SwapEffect
  <2>2. base' = [base EXCEPT ![p] = NextGeneration(prev[p])]
    BY <1>4 DEF SwapEffect
  <2>3. /\ NextGeneration(prev[p]) \in 0..MaxGeneration
        /\ NextGeneration(prev[p]) > GenerationOf(prev[p])
    BY <1>1, <1>4, SwapFacts DEF NextGeneration, Generations
  <2>. QED  BY <1>1, <1>4, <2>1, <2>2, <2>3 DEF LocalsOK
<1>. QED  BY <1>2, <1>3, <1>4 DEF LostEffect

\* A call that ends with an error, whether HEAD is remembered or forgotten.
LEMMA FaultInv ==
  ASSUME Inv, NEW p \in Processes, Fault, LostEffect(p),
         NEW result \in {"new", "failed"}, Done(p, result),
         Saw(p, None) \/ UNCHANGED seen,
         \/ UNCHANGED <<index, retried>>
         \/ /\ Saw(p, None)
            /\ index' = [index EXCEPT ![p] = Empty]
            /\ retried' = [retried EXCEPT ![p] = FALSE]
  PROVE  Inv'
<1>1. /\ LocalsOK /\ ProcessOK(p) /\ None \in MaybeHead
      /\ seen[p] \in MaybeHead /\ base[p] \in 0..MaxGeneration
      /\ GenerationOf(prev[p]) \in 0..MaxGeneration
      /\ \A h \in MaybeHead : h # None =>
           GenerationOf(h) = h.generation /\ h.generation \in Nat
      /\ MaxGeneration \in Nat
  BY Locals DEF LocalsOK
<1>2. /\ StoreStep(p)
      /\ base' \in [Processes -> 0..MaxGeneration]
      /\ \A q \in Processes : q # p => base'[q] = base[q]
      /\ \/ base' = base
         \/ pc[p] = "cas" /\ base'[p] > GenerationOf(prev[p])
  BY LostFacts
<1>3. faults' \in 0..MaxFaults
  <2>1. faults \in 0..MaxFaults /\ faults < MaxFaults /\ faults' = faults + 1
    BY <1>1 DEF Fault, LocalsOK
  <2>. QED  BY <2>1, RemoteAssumption
<1>4. LocalsOK' /\ \A q \in Processes : q # p => Same(q)
  BY <1>1, <1>2, <1>3, RemoteAssumption DEF Saw, Done, LocalsOK, Same
<1>5. /\ pc'[p] = "idle" /\ prev'[p] = None /\ outcome'[p] # "ok"
      /\ \/ seen'[p] = None
         \/ seen'[p] = seen[p] /\ index'[p] = index[p] /\ retried'[p] = retried[p]
  BY <1>1 DEF Saw, Done, LocalsOK
<1>6. Known(seen[p])' /\ Known(prev[p])'
  <2>1. CASE seen'[p] = None
    BY <1>5, <2>1 DEF Known
  <2>2. CASE seen'[p] = seen[p]
    <3>1. PICK h \in MaybeHead : h = seen[p]
      BY <1>1
    <3>2. Known(h)
      BY <1>1, <3>1 DEF ProcessOK
    <3>3. Known(h)'
      BY <1>2, <3>2, KnownKept
    <3>. QED  BY <1>5, <2>2, <3>1, <3>3 DEF Known
  <2>. QED  BY <1>5, <2>1, <2>2
\* A swap whose response is lost raised the generation the index derives from.
<1>7. Holds(p)'
  <2>1. CASE seen'[p] = None
    BY <2>1 DEF Holds
  <2>2. CASE base' = base /\ seen'[p] = seen[p] /\ index'[p] = index[p]
             /\ retried'[p] = retried[p]
    BY <1>1, <2>2 DEF ProcessOK, Holds
  <2>3. CASE /\ seen'[p] = seen[p] /\ seen[p] # None /\ index'[p] = index[p]
             /\ pc[p] = "cas" /\ base'[p] > GenerationOf(prev[p])
    <3>1. prev[p] = seen[p] /\ GenerationOf(prev[p]) = seen[p].generation
      BY <1>1, <2>3 DEF ProcessOK, CallOK
    <3>2. base'[p] \in Int /\ seen[p].generation \in Int
      BY <1>1, <1>2, <2>3
    <3>3. seen'[p].generation <= base'[p]
      BY <2>3, <3>1, <3>2
    <3>. QED  BY <1>1, <2>3, <3>3 DEF ProcessOK, Holds
  <2>. QED  BY <1>2, <1>5, <2>1, <2>2, <2>3
<1>8. CallOK(p)' /\ Derives(p)'
  BY <1>5 DEF CallOK, Derives
<1>. QED  BY <1>2, <1>4, <1>6, <1>7, <1>8, StepInv DEF ProcessOK

LEMMA RequestFailsInv ==
  ASSUME Inv, NEW p \in Processes, RequestFails(p) PROVE Inv'
  BY FaultInv DEF RequestFails, Forget

LEMMA DroppedInv == ASSUME Inv, NEW p \in Processes, Dropped(p) PROVE Inv'
  BY FaultInv DEF Dropped

LEMMA RestartInv == ASSUME Inv, NEW p \in Processes, Restart(p) PROVE Inv'
  BY FaultInv DEF Restart

LEMMA NextInv == Inv /\ [Next]_vars => Inv'
<1>. SUFFICES ASSUME Inv, [Next]_vars PROVE Inv'
  OBVIOUS
<1>1. CASE UNCHANGED vars
  BY <1>1 DEF vars, store, process, Inv, TypeOK, StoreOK, HeadHasImage,
              ProcessOK, Known, CallOK, CanSwap, Expected, TokenOf, Holds,
              Derives, NextGeneration, GenerationOf
<1>2. ASSUME NEW p \in Processes,
             Step(p) \/ RequestFails(p) \/ Dropped(p) \/ Restart(p)
      PROVE  Inv'
  BY <1>2, LoadInv, ReadHeadInv, FetchInv, ChangeInv, PublishInv,
     ReadPreviousInv, PutInv, SwapInv, DeleteInv, RequestFailsInv, DroppedInv,
     RestartInv DEF Step
<1>. QED  BY <1>1, <1>2 DEF Next

LEMMA Invariance == Spec => []Inv
<1>. QED  BY InitInv, NextInv, PTL DEF Spec

-----------------------------------------------------------------------------
(***************************************************************************)
(* The theorems.                                                           *)
(***************************************************************************)

\* Store and processes keep their shape through every fault.
THEOREM Types == Spec => []TypeOK
<1>1. Inv => TypeOK
  BY DEF Inv
<1>. QED  BY <1>1, Invariance, PTL

\* HEAD always names an image that is there in full: whatever fails, is lost
\* or dropped, the upload precedes the swap and only superseded images go.
THEOREM Complete == Spec => []HeadHasImage
<1>1. Inv => HeadHasImage
  BY DEF Inv, StoreOK
<1>. QED  BY <1>1, Invariance, PTL

\* The HEAD a process remembers is one its index derives from, so a swap never
\* uses the token of something the publisher did not read or write.
THEOREM Remembered == Spec => []SeenIsHeld
<1>1. Inv => SeenIsHeld
  BY DEF Inv, ProcessOK, Holds, SeenIsHeld
<1>. QED  BY <1>1, Invariance, PTL

\* An index that was loaded replaces only the generation it was loaded from or
\* published as, unless its owner publishes again after an error: of any number
\* of publishers that loaded one state, one wins.
THEOREM OneLoadedWins == Spec => LoadedOneWins
<1>. DEFINE Wins ==
       \A p \in Publishers :
         base[p] > 0 /\ ~retried[p] /\ pc'[p] # "cas" => Supersedes(p)
<1>1. Inv /\ [Next]_vars => [Wins]_vars
  <2>. SUFFICES ASSUME Inv, Next, NEW p \in Publishers,
                       base[p] > 0, ~retried[p], pc'[p] # "cas",
                       pc[p] = "cas", head' # head
                PROVE  base[p] = GenerationOf(head)
    BY DEF Supersedes
  <2>. p \in Processes
    BY DEF Processes
  \* Only the step of p itself takes p past its swap.
  <2>1. ASSUME NEW q \in Processes, q # p,
               Step(q) \/ RequestFails(q) \/ Dropped(q) \/ Restart(q)
        PROVE  FALSE
    <3>1. pc \in [Processes -> {"idle", "read", "fetch", "read head",
                                "put", "cas", "delete"}]
      BY DEF Inv, TypeOK
    <3>2. pc' = pc \/ \E v : pc' = [pc EXCEPT ![q] = v]
      BY <2>1 DEF Step, Load, Poll, ReadHead, Fetch, FetchLost, Change, Publish,
                  Compare, ReadPrevious, Put, Swap, Delete, RequestFails,
                  Dropped, Restart, Await, Done, Forget
    <3>. QED  BY <2>1, <3>1, <3>2
  <2>2. CanSwap(p)
    BY <2>1 DEF Next, Step, Load, Poll, ReadHead, Fetch, Change, Publish,
                ReadPrevious, Put, Swap, Delete, RequestFails, Dropped, Restart,
                LostEffect, store
  <2>3. prev[p] = head
    BY <2>2, SwapFacts
  <2>4. base[p] \in {0, GenerationOf(prev[p])}
    BY DEF Inv, ProcessOK, Derives
  <2>. QED  BY <2>3, <2>4
<1>. QED  BY <1>1, Invariance, PTL DEF Spec, LoadedOneWins

-----------------------------------------------------------------------------
(***************************************************************************)
(* The refinement.  Besides the invariant it needs that the store never    *)
(* falls behind what an index derives from.                                *)
(***************************************************************************)

\* What p derives from is not ahead of HEAD, nor of the HEAD p fetches.
NotAhead(p) ==
  /\ base[p] <= GenerationOf(head)
  /\ pc[p] = "fetch" => base[p] <= GenerationOf(prev[p])

RefInv == Inv /\ \A p \in Processes : NotAhead(p)

\* How a step of p changes what p derives from.
BaseStep(p) ==
  \/ base'[p] = base[p]
  \/ base'[p] = 0
  \/ base'[p] = GenerationOf(head)'
  \/ \E h \in {seen[p], prev[p]} : base'[p] = GenerationOf(h)

\* Generations of HEAD only grow.
LEMMA StoreGrows ==
  ASSUME Inv, NEW p \in Processes, StoreStep(p)
  PROVE  /\ GenerationOf(head) \in Nat
         /\ GenerationOf(head') \in Nat
         /\ GenerationOf(head) <= GenerationOf(head')
<1>1. GenerationOf(head) \in Nat
  BY Locals
<1>2. CASE head' = head
  BY <1>1, <1>2
<1>3. CASE /\ pc[p] = "cas" /\ CanSwap(p)
           /\ head' = [token |-> TokenOf(head) + 1, generation |-> Named(p),
                       image |-> index[p]]
  <2>1. index[p] \in Images
    BY DEF Inv, TypeOK
  <2>2. head' \in Heads /\ head'.generation = GenerationOf(head) + 1
    BY <1>3, <2>1, SwapFacts DEF Heads, Named, NextGeneration
  <2>3. GenerationOf(head') = GenerationOf(head) + 1
    BY <2>2, RemoteAssumption DEF GenerationOf
  <2>. QED  BY <1>1, <2>3
<1>. QED  BY <1>2, <1>3 DEF StoreStep, store

\* A HEAD known is not ahead of the current one.
LEMMA KnownNotAhead ==
  ASSUME Inv, NEW h \in MaybeHead, Known(h)
  PROVE  GenerationOf(h) \in Nat /\ GenerationOf(h) <= GenerationOf(head)
<1>1. head \in MaybeHead /\ StoreOK
  BY DEF Inv, TypeOK
<1>2. \A x \in Heads : x.generation \in Nat
  BY DEF Heads, Generations
<1>3. CASE h = None
  BY <1>1, <1>2, <1>3 DEF GenerationOf, MaybeHead
<1>4. CASE h # None
  BY <1>1, <1>2, <1>4 DEF GenerationOf, MaybeHead, Known, StoreOK
<1>. QED  BY <1>3, <1>4

LEMMA NotAheadKept ==
  ASSUME RefInv, Inv', NEW p \in Processes, StoreStep(p), BaseStep(p),
         \/ pc'[p] # "fetch"
         \/ base'[p] = base[p] /\ prev'[p] = head,
         \A q \in Processes : q # p => Same(q)
  PROVE  RefInv'
<1>1. /\ GenerationOf(head) \in Nat /\ GenerationOf(head') \in Nat
      /\ GenerationOf(head) <= GenerationOf(head')
      /\ \A q \in Processes :
           base[q] \in Int /\ (base[q] <= GenerationOf(head))
  <2>1. \A q \in Processes : base[q] \in Int
    <3>1. base \in [Processes -> 0..MaxGeneration]
      BY DEF RefInv, Inv, TypeOK
    <3>. QED  BY <3>1, RemoteAssumption
  <2>. QED  BY <2>1, StoreGrows DEF RefInv, NotAhead
<1>2. \A h \in {seen[p], prev[p]} :
        GenerationOf(h) \in Nat /\ GenerationOf(h) <= GenerationOf(head)
  <2>1. /\ seen[p] \in MaybeHead /\ prev[p] \in MaybeHead
        /\ Known(seen[p]) /\ Known(prev[p])
    BY DEF RefInv, Inv, TypeOK, ProcessOK
  <2>. QED  BY <2>1, KnownNotAhead DEF RefInv
<1>3. base'[p] <= GenerationOf(head')
  <2>1. CASE base'[p] = base[p] \/ base'[p] = 0
    BY <2>1, <1>1
  <2>2. CASE base'[p] = GenerationOf(head)'
    BY <2>2, <1>1 DEF GenerationOf
  <2>3. CASE \E h \in {seen[p], prev[p]} : base'[p] = GenerationOf(h)
    BY <2>3, <1>1, <1>2
  <2>. QED  BY <2>1, <2>2, <2>3 DEF BaseStep
<1>4. NotAhead(p)'
  BY <1>1, <1>3 DEF NotAhead, GenerationOf
<1>5. ASSUME NEW q \in Processes, q # p PROVE NotAhead(q)'
  <2>1. base'[q] = base[q] /\ pc'[q] = pc[q] /\ prev'[q] = prev[q]
    BY <1>5 DEF Same
  <2>2. NotAhead(q)
    BY DEF RefInv
  <2>. QED  BY <1>1, <2>1, <2>2 DEF NotAhead, GenerationOf
<1>. QED  BY <1>4, <1>5 DEF RefInv

-----------------------------------------------------------------------------
(***************************************************************************)
(* The register behind HEAD and the images.                                *)
(***************************************************************************)

VersionAt(h) == IF h = None THEN None ELSE VersionOf(h)

LEMMA CurrentIs ==
  ASSUME Inv
  PROVE  /\ Published!Current = VersionAt(head)
         /\ head # None => Content = head.image
<1>1. head \in MaybeHead /\ StoreOK
  BY DEF Inv, TypeOK
<1>2. head # None => GenerationOf(head) = head.generation /\ head.generation # 0
                     /\ Content = head.image
  BY <1>1, RemoteAssumption
     DEF MaybeHead, Heads, Generations, GenerationOf, StoreOK, HeadHasImage, Content
<1>3. head = None => GenerationOf(head) = 0
  BY DEF GenerationOf
<1>. QED  BY <1>2, <1>3 DEF Published!Current, VersionAt, VersionOf

LEMMA CurrentWillBe ==
  ASSUME Inv'
  PROVE  /\ Published!Current' = VersionAt(head')
         /\ head' # None => Content' = head'.image
<1>1. (Inv => /\ Published!Current = VersionAt(head)
              /\ head # None => Content = head.image)'
  BY CurrentIs, PTL
<1>. QED  BY <1>1 DEF VersionAt, VersionOf

\* As long as HEAD stands, so does what it names: uploads and removals do not
\* touch it.
LEMMA RegisterStands ==
  ASSUME Inv, Inv', head' = head
  PROVE  UNCHANGED <<GenerationOf(head), Content>>
<1>1. head # None => Content' = Content
  BY CurrentIs, CurrentWillBe
<1>2. head = None => Content' = Content
  BY DEF Content
<1>. QED  BY <1>1, <1>2 DEF GenerationOf

\* What p may come to remember and work from.
Noted(p) ==
  /\ seen' = [seen EXCEPT ![p] = seen'[p]]
  /\ prev' = [prev EXCEPT ![p] = prev'[p]]
  /\ seen'[p] \in {None, seen[p], prev[p], head, head'}
  /\ prev'[p] \in {None, seen[p], prev[p], head, head'}

LEMMA KnowsStep ==
  ASSUME Inv, Inv', NEW p \in Processes, Noted(p)
  PROVE  Published!Knows(p)
<1>. DEFINE notes == [q \in Processes |-> VersionsOf(q)]
            after == VersionsOf(p)'
<1>1. /\ seen \in [Processes -> MaybeHead] /\ prev \in [Processes -> MaybeHead]
      /\ seen' \in [Processes -> MaybeHead] /\ prev' \in [Processes -> MaybeHead]
  BY DEF Inv, TypeOK
<1>2. notes' = [notes EXCEPT ![p] = after]
  <2>1. \A q \in Processes : q # p => seen'[q] = seen[q] /\ prev'[q] = prev[q]
    BY <1>1 DEF Noted
  <2>2. \A q \in Processes : q # p => VersionsOf(q)' = VersionsOf(q)
    BY <2>1 DEF VersionsOf
  <2>. QED  BY <2>2
<1>3. after \subseteq (notes[p] \cup {Published!Current, Published!Current'}) \ {None}
  <2>. SUFFICES ASSUME NEW h \in {seen'[p], prev'[p]} \ {None}
                PROVE  VersionOf(h) \in (notes[p] \cup {Published!Current,
                                          Published!Current'}) \ {None}
    BY DEF VersionsOf
  <2>1. VersionOf(h) # None
    <3>1. h \in Heads
      BY <1>1 DEF MaybeHead
    <3>. QED  BY <3>1, RemoteAssumption
  <2>2. h \in {seen[p], prev[p], head, head'}
    BY DEF Noted
  <2>3. CASE h \in {seen[p], prev[p]}
    BY <2>1, <2>3 DEF VersionsOf
  <2>4. CASE h = head
    BY <2>1, <2>4, CurrentIs DEF VersionAt
  <2>5. CASE h = head'
    BY <2>1, <2>5, CurrentWillBe DEF VersionAt
  <2>. QED  BY <2>2, <2>3, <2>4, <2>5
<1>. QED  BY <1>2, <1>3 DEF Published!Knows

-----------------------------------------------------------------------------
(***************************************************************************)
(* Each step is one of the register.                                       *)
(***************************************************************************)

\* A step that leaves HEAD, the copy of p and what it derives from.
LEMMA NoteStep ==
  ASSUME RefInv, Inv', NEW p \in Processes, Noted(p),
         UNCHANGED <<head, index, base>>
  PROVE  Published!Next
<1>1. Published!Knows(p)
  BY KnowsStep DEF RefInv
<1>2. UNCHANGED <<GenerationOf(head), Content>>
  BY RegisterStands DEF RefInv
<1>3. Published!Note(p)
  BY <1>1, <1>2 DEF Published!Note
<1>. QED  BY <1>3 DEF Published!Next

LEMMA LoadRefines ==
  ASSUME RefInv, Inv', NEW p \in Processes, Load(p) \/ Poll(p)
  PROVE  RefInv' /\ Published!Next
<1>1. LocalsOK
  BY Locals DEF RefInv
<1>2. StoreStep(p) /\ BaseStep(p)
  BY DEF Load, Poll, StoreStep, BaseStep, store
<1>3. /\ pc'[p] = "read" /\ \A q \in Processes : q # p => Same(q)
      /\ seen' = seen /\ prev' = [prev EXCEPT ![p] = None]
      /\ UNCHANGED <<head, index, base>>
  BY <1>1 DEF Load, Poll, Await, LocalsOK, Same, store
<1>4. Noted(p)
  BY <1>1, <1>3 DEF Noted, LocalsOK
<1>. QED  BY <1>2, <1>3, <1>4, NotAheadKept, NoteStep

LEMMA ReadHeadRefines ==
  ASSUME RefInv, Inv', NEW p \in Processes, ReadHead(p)
  PROVE  RefInv' /\ Published!Next
<1>1. LocalsOK /\ head' = head /\ stored' = stored /\ StoreStep(p)
  BY Locals DEF RefInv, ReadHead, StoreStep, store
<1>2. CASE head # None /\ Await(p, "fetch", head)
           /\ UNCHANGED <<seen, index, outcome, base, retried>>
  <2>1. /\ \A q \in Processes : q # p => Same(q)
        /\ prev' = [prev EXCEPT ![p] = head] /\ prev'[p] = head
        /\ UNCHANGED <<seen, index, base>>
    BY <1>1, <1>2 DEF Await, LocalsOK, Same
  <2>2. Noted(p) /\ BaseStep(p)
    BY <1>1, <2>1 DEF Noted, BaseStep, LocalsOK
  <2>. QED  BY <1>1, <2>1, <2>2, NotAheadKept, NoteStep
<1>3. CASE /\ head = None /\ Saw(p, None) /\ Done(p, "ok")
           /\ index' = [index EXCEPT ![p] = Empty]
           /\ base' = [base EXCEPT ![p] = 0]
           /\ retried' = [retried EXCEPT ![p] = FALSE]
  <2>1. /\ \A q \in Processes : q # p => Same(q)
        /\ pc'[p] = "idle" /\ base'[p] = 0
    BY <1>1, <1>3 DEF Saw, Done, LocalsOK, Same
  <2>2. Noted(p) /\ BaseStep(p)
    BY <1>1, <1>3, <2>1 DEF Saw, Done, Noted, BaseStep, LocalsOK
  <2>3. Published!Current = None
    BY <1>3, CurrentIs DEF RefInv, VersionAt
  <2>4. Published!Knows(p) /\ UNCHANGED <<GenerationOf(head), Content>>
    BY <1>1, <2>2, KnowsStep, RegisterStands DEF RefInv
  <2>5. Published!Take(p)
    BY <1>3, <2>3, <2>4 DEF Published!Take
  <2>. QED  BY <1>1, <2>1, <2>2, <2>5, NotAheadKept DEF Published!Next
<1>. QED  BY <1>2, <1>3 DEF ReadHead

\* A load takes a version that p read, and none older than p had.
LEMMA FetchRefines ==
  ASSUME RefInv, Inv', NEW p \in Processes, Fetch(p)
  PROVE  RefInv' /\ Published!Next
<1>1. LocalsOK /\ head' = head /\ StoreStep(p) /\ pc[p] = "fetch"
  BY Locals DEF RefInv, Fetch, StoreStep, store
<1>2. prev[p] # None /\ GenerationOf(prev[p]) = prev[p].generation
      /\ base[p] <= prev[p].generation
  BY <1>1 DEF RefInv, NotAhead, Inv, ProcessOK, CallOK, GenerationOf
<1>3. CASE /\ index' = [index EXCEPT ![p] = prev[p].image]
           /\ Saw(p, prev[p])
           /\ Done(p, "ok")
           /\ base' = [base EXCEPT ![p] = prev[p].generation]
           /\ retried' = [retried EXCEPT ![p] = FALSE]
  <2>1. /\ \A q \in Processes : q # p => Same(q)
        /\ pc'[p] = "idle" /\ base'[p] = prev[p].generation
    BY <1>1, <1>3 DEF Saw, Done, LocalsOK, Same
  <2>2. Noted(p) /\ BaseStep(p)
    BY <1>1, <1>2, <1>3, <2>1 DEF Saw, Done, Noted, BaseStep, LocalsOK
  <2>3. Published!Knows(p) /\ UNCHANGED <<GenerationOf(head), Content>>
    BY <1>1, <2>2, KnowsStep, RegisterStands DEF RefInv
  <2>. DEFINE n == VersionOf(prev[p])
  <2>4. n \in VersionsOf(p) /\ n.generation = prev[p].generation
        /\ n.image = prev[p].image
    BY <1>2 DEF VersionsOf, VersionOf
  <2>. HIDE DEF n
  <2>5. Published!Take(p)
    BY <1>2, <1>3, <2>3, <2>4 DEF Published!Take
  <2>. QED  BY <1>1, <2>1, <2>2, <2>5, NotAheadKept DEF Published!Next
<1>4. CASE FetchLost(p) /\ UNCHANGED <<index, base, retried>>
  <2>1. /\ \A q \in Processes : q # p => Same(q)
        /\ pc'[p] = "idle" /\ UNCHANGED <<seen, index, base>>
        /\ prev' = [prev EXCEPT ![p] = None]
    BY <1>1, <1>4 DEF FetchLost, Done, LocalsOK, Same
  <2>2. Noted(p) /\ BaseStep(p)
    BY <1>1, <2>1 DEF Noted, BaseStep, LocalsOK
  <2>. QED  BY <1>1, <2>1, <2>2, NotAheadKept, NoteStep
<1>. QED  BY <1>3, <1>4 DEF Fetch

LEMMA ChangeRefines ==
  ASSUME RefInv, Inv', NEW p \in Processes, Change(p)
  PROVE  RefInv' /\ Published!Next
<1>1. /\ LocalsOK /\ StoreStep(p) /\ p \in Publishers /\ pc'[p] # "fetch"
      /\ BaseStep(p)
      /\ UNCHANGED <<head, stored, seen, pc, prev, outcome, base, retried>>
  BY Locals DEF RefInv, Change, StoreStep, BaseStep, store
<1>2. PICK image \in Images : index' = [index EXCEPT ![p] = image]
  BY DEF Change
<1>3. \A q \in Processes : q # p => Same(q)
  BY <1>1, <1>2 DEF LocalsOK, Same
<1>4. UNCHANGED <<GenerationOf(head), Content>>
  BY <1>1, RegisterStands DEF RefInv
<1>5. UNCHANGED [q \in Processes |-> VersionsOf(q)]
  BY <1>1 DEF VersionsOf
<1>6. Published!Change(p)
  BY <1>1, <1>2, <1>4, <1>5 DEF Published!Change
<1>. QED  BY <1>1, <1>3, <1>6, NotAheadKept DEF Published!Next

\* A publish of what HEAD already names writes nothing.
LEMMA CompareRefines ==
  ASSUME RefInv, Inv', NEW p \in Processes, NEW h \in {seen[p], head},
         Compare(p, h), UNCHANGED <<store, index>>,
         \A q \in Processes : q # p => retried'[q] = retried[q]
  PROVE  RefInv' /\ Published!Next
<1>1. LocalsOK /\ StoreStep(p) /\ head' = head
  BY Locals DEF RefInv, StoreStep, store
<1>2. CASE /\ h # None /\ h.image = index[p]
           /\ Saw(p, h)
           /\ Done(p, "ok")
           /\ base' = [base EXCEPT ![p] = h.generation]
  <2>1. /\ \A q \in Processes : q # p => Same(q)
        /\ pc'[p] = "idle" /\ base'[p] = h.generation
        /\ GenerationOf(h) = h.generation
    BY <1>1, <1>2 DEF Saw, Done, LocalsOK, Same, GenerationOf
  <2>2. Noted(p)
    BY <1>1, <1>2 DEF Saw, Done, Noted, LocalsOK
  <2>3. BaseStep(p)
    BY <1>1, <2>1 DEF BaseStep, GenerationOf
  <2>4. Published!Knows(p) /\ UNCHANGED <<GenerationOf(head), Content>>
    BY <1>1, <2>2, KnowsStep, RegisterStands DEF RefInv
  <2>. DEFINE n == VersionOf(h)
  <2>5. /\ n \in VersionsOf(p) \cup {Published!Current}
        /\ n.generation = h.generation /\ n.image = h.image
    BY <1>2, CurrentIs DEF RefInv, VersionAt, VersionsOf, VersionOf
  <2>6. n # None
    <3>1. head \in MaybeHead /\ seen[p] \in MaybeHead
      BY Locals DEF RefInv, LocalsOK
    <3>2. h \in Heads
      BY <1>2, <3>1 DEF MaybeHead
    <3>. QED  BY <3>2, RemoteAssumption
  <2>. HIDE DEF n
  <2>7. Published!Confirm(p)
    BY <1>2, <2>4, <2>5, <2>6 DEF Published!Confirm
  <2>. QED  BY <1>1, <2>1, <2>2, <2>3, <2>7, NotAheadKept DEF Published!Next
<1>3. CASE Await(p, "put", h) /\ UNCHANGED <<seen, outcome, base>>
  <2>1. /\ \A q \in Processes : q # p => Same(q)
        /\ pc'[p] = "put" /\ prev' = [prev EXCEPT ![p] = h]
        /\ UNCHANGED <<head, seen, index, base>>
    BY <1>1, <1>3 DEF Await, LocalsOK, Same
  <2>2. Noted(p) /\ BaseStep(p)
    BY <1>1, <2>1 DEF Noted, BaseStep, LocalsOK
  <2>. QED  BY <1>1, <2>1, <2>2, NotAheadKept, NoteStep
<1>. QED  BY <1>2, <1>3 DEF Compare

LEMMA PublishRefines ==
  ASSUME RefInv, Inv', NEW p \in Processes, Publish(p)
  PROVE  RefInv' /\ Published!Next
<1>1. LocalsOK /\ StoreStep(p) /\ head' = head /\ UNCHANGED <<store, index>>
  BY Locals DEF RefInv, Publish, StoreStep, store
<1>2. \A q \in Processes : q # p => retried'[q] = retried[q]
  BY <1>1 DEF Publish, LocalsOK
<1>3. CASE Compare(p, seen[p])
  BY <1>1, <1>2, <1>3, CompareRefines
<1>4. CASE Await(p, "read head", None) /\ UNCHANGED <<seen, outcome, base>>
  <2>1. /\ \A q \in Processes : q # p => Same(q)
        /\ pc'[p] = "read head" /\ prev' = [prev EXCEPT ![p] = None]
        /\ UNCHANGED <<head, seen, index, base>>
    BY <1>1, <1>2, <1>4 DEF Await, LocalsOK, Same
  <2>2. Noted(p) /\ BaseStep(p)
    BY <1>1, <2>1 DEF Noted, BaseStep, LocalsOK
  <2>. QED  BY <1>1, <2>1, <2>2, NotAheadKept, NoteStep
<1>. QED  BY <1>3, <1>4 DEF Publish

LEMMA ReadPreviousRefines ==
  ASSUME RefInv, Inv', NEW p \in Processes, ReadPrevious(p)
  PROVE  RefInv' /\ Published!Next
  BY CompareRefines DEF ReadPrevious

LEMMA PutRefines ==
  ASSUME RefInv, Inv', NEW p \in Processes, Put(p)
  PROVE  RefInv' /\ Published!Next
<1>1. /\ LocalsOK /\ StoreStep(p) /\ BaseStep(p)
      /\ UNCHANGED <<head, index, base, retried>>
  BY Locals DEF RefInv, Put, Forget, StoreStep, BaseStep, store
<1>2. CASE Await(p, "cas", prev[p]) /\ UNCHANGED <<seen, outcome>>
  <2>1. /\ \A q \in Processes : q # p => Same(q)
        /\ pc'[p] = "cas" /\ prev' = [prev EXCEPT ![p] = prev[p]]
    BY <1>1, <1>2 DEF Await, LocalsOK, Same
  <2>2. Noted(p)
    BY <1>1, <1>2, <2>1 DEF Noted, LocalsOK
  <2>. QED  BY <1>1, <2>1, <2>2, NotAheadKept, NoteStep
<1>3. CASE Forget(p, "fenced")
  <2>1. /\ \A q \in Processes : q # p => Same(q)
        /\ pc'[p] = "idle"
    BY <1>1, <1>3 DEF Forget, Saw, Done, LocalsOK, Same
  <2>2. Noted(p)
    BY <1>1, <1>3 DEF Forget, Saw, Done, Noted, LocalsOK
  <2>. QED  BY <1>1, <2>1, <2>2, NotAheadKept, NoteStep
<1>. QED  BY <1>2, <1>3 DEF Put

\* A swap that takes effect, whether or not p learns of it, is the write: over
\* the version p works from, to the whole of the copy of p.
LEMMA SwapWrites ==
  ASSUME RefInv, Inv', NEW p \in Processes, pc[p] = "cas", CanSwap(p),
         SwapEffect(p), stored' = stored, Noted(p),
         UNCHANGED index \/ index' = [index EXCEPT ![p] = Empty]
  PROVE  Published!Next
<1>1. /\ prev[p] = head
      /\ NextGeneration(prev[p]) = GenerationOf(head) + 1
      /\ NextGeneration(prev[p]) \in Generations
  BY SwapFacts DEF RefInv, NextGeneration
<1>2. /\ head'.generation = GenerationOf(head) + 1 /\ head'.image = index[p]
      /\ base' = [base EXCEPT ![p] = GenerationOf(head) + 1]
  BY <1>1 DEF SwapEffect, Named
<1>3. head' # None
  <2>1. index[p] \in Images
    BY DEF RefInv, Inv, TypeOK
  <2>2. TokenOf(head) + 1 \in Generations
    BY SwapFacts DEF RefInv
  <2>3. head' \in Heads
    BY <1>1, <2>1, <2>2 DEF SwapEffect, Named, Heads
  <2>. QED  BY <2>3, RemoteAssumption
<1>4. GenerationOf(head)' = GenerationOf(head) + 1 /\ Content' = index[p]
  BY <1>2, <1>3, CurrentWillBe DEF GenerationOf
<1>5. Published!Current \in VersionsOf(p) \cup {None}
  BY <1>1, CurrentIs DEF RefInv, VersionAt, VersionsOf
<1>6. p \in Publishers
  BY DEF RefInv, Inv, ProcessOK, CallOK
<1>7. Published!Knows(p)
  BY KnowsStep DEF RefInv
<1>8. Published!Write(p)
  BY <1>2, <1>4, <1>5, <1>6, <1>7 DEF Published!Write
<1>. QED  BY <1>8 DEF Published!Next

LEMMA SwapRefines ==
  ASSUME RefInv, Inv', NEW p \in Processes, Swap(p)
  PROVE  RefInv' /\ Published!Next
<1>1. /\ LocalsOK /\ pc[p] = "cas" /\ UNCHANGED <<stored, index, retried>>
  BY Locals DEF RefInv, Swap
<1>2. CASE /\ CanSwap(p)
           /\ SwapEffect(p)
           /\ Saw(p, head')
           /\ IF prev[p] = None THEN Done(p, "ok")
                ELSE Await(p, "delete", prev[p]) /\ UNCHANGED outcome
  <2>1. /\ \A q \in Processes : q # p => Same(q)
        /\ pc'[p] # "fetch" /\ Noted(p)
    BY <1>1, <1>2 DEF Saw, Done, Await, SwapEffect, Noted, LocalsOK, Same
  <2>2. StoreStep(p)
    BY <1>1, <1>2 DEF SwapEffect, StoreStep
  <2>3. BaseStep(p)
    <3>1. base'[p] = NextGeneration(prev[p]) /\ head'.generation = NextGeneration(prev[p])
      BY <1>1, <1>2 DEF SwapEffect, Named, LocalsOK
    <3>2. head' # None
      <4>1. seen'[p] = head' /\ seen'[p] \in MaybeHead
        BY <1>1, <1>2 DEF Saw, LocalsOK, Inv, TypeOK
      <4>2. head' \in Heads
        BY <1>1, <1>2, SwapFacts DEF RefInv, SwapEffect, Named, Heads, LocalsOK
      <4>. QED  BY <4>2, RemoteAssumption
    <3>. QED  BY <3>1, <3>2 DEF BaseStep, GenerationOf
  <2>4. Published!Next
    BY <1>1, <1>2, <2>1, SwapWrites
  <2>. QED  BY <2>1, <2>2, <2>3, <2>4, NotAheadKept
<1>3. CASE Forget(p, "fenced") /\ UNCHANGED <<head, base>>
  <2>1. /\ \A q \in Processes : q # p => Same(q)
        /\ pc'[p] = "idle" /\ Noted(p) /\ BaseStep(p) /\ StoreStep(p)
    BY <1>1, <1>3 DEF Forget, Saw, Done, Noted, LocalsOK, Same, BaseStep,
                      StoreStep, store
  <2>. QED  BY <1>1, <1>3, <2>1, NotAheadKept, NoteStep
<1>. QED  BY <1>2, <1>3 DEF Swap

LEMMA DeleteRefines ==
  ASSUME RefInv, Inv', NEW p \in Processes, Delete(p)
  PROVE  RefInv' /\ Published!Next
<1>1. /\ LocalsOK /\ StoreStep(p) /\ BaseStep(p)
      /\ UNCHANGED <<head, seen, index, base, retried>> /\ Done(p, "ok")
  BY Locals DEF RefInv, Delete, StoreStep, BaseStep, store
<1>2. /\ \A q \in Processes : q # p => Same(q)
      /\ pc'[p] = "idle" /\ Noted(p)
  BY <1>1 DEF Done, Noted, LocalsOK, Same
<1>. QED  BY <1>1, <1>2, NotAheadKept, NoteStep

-----------------------------------------------------------------------------
(***************************************************************************)
(* What goes wrong is a note, a restart, or a write nobody learns of.      *)
(***************************************************************************)
LEMMA FaultRefines ==
  ASSUME RefInv, Inv', NEW p \in Processes, LostEffect(p),
         NEW result \in {"new", "failed"}, Done(p, result),
         Saw(p, None) \/ UNCHANGED seen,
         \/ UNCHANGED <<index, retried>>
         \/ /\ Saw(p, None)
            /\ index' = [index EXCEPT ![p] = Empty]
            /\ retried' = [retried EXCEPT ![p] = FALSE]
  PROVE  RefInv' /\ Published!Next
<1>1. LocalsOK /\ StoreStep(p)
  BY Locals, LostFacts DEF RefInv
<1>2. /\ pc'[p] = "idle" /\ Noted(p) /\ prev'[p] = None
      /\ \A q \in Processes : q # p =>
           /\ seen'[q] = seen[q] /\ index'[q] = index[q] /\ pc'[q] = pc[q]
           /\ prev'[q] = prev[q] /\ outcome'[q] = outcome[q]
           /\ retried'[q] = retried[q]
  BY <1>1 DEF Saw, Done, Noted, LocalsOK
<1>3. \A q \in Processes : q # p => Same(q)
  <2>1. \A q \in Processes : q # p => base'[q] = base[q]
    BY LostFacts DEF RefInv
  <2>. QED  BY <1>2, <2>1 DEF Same
<1>4. CASE UNCHANGED <<head, base>>
  <2>1. RefInv'
    BY <1>1, <1>2, <1>3, <1>4, NotAheadKept DEF BaseStep
  <2>2. CASE UNCHANGED index
    BY <1>2, <1>4, <2>1, <2>2, NoteStep
  <2>3. CASE Saw(p, None) /\ index' = [index EXCEPT ![p] = Empty]
    <3>1. UNCHANGED <<GenerationOf(head), Content>>
      BY <1>4, RegisterStands DEF RefInv
    <3>2. [q \in Processes |-> VersionsOf(q)]'
            = [[q \in Processes |-> VersionsOf(q)] EXCEPT ![p] = {}]
      <4>1. seen'[p] = None /\ prev'[p] = None
        BY <1>1, <1>2, <2>3 DEF Saw, LocalsOK
      <4>2. VersionsOf(p)' = {}
        BY <4>1 DEF VersionsOf
      <4>3. \A q \in Processes : q # p => VersionsOf(q)' = VersionsOf(q)
        BY <1>2 DEF VersionsOf
      <4>. QED  BY <4>2, <4>3
    <3>3. Published!Restart(p)
      BY <1>4, <2>3, <3>1, <3>2 DEF Published!Restart
    <3>. QED  BY <2>1, <3>3 DEF Published!Next
  <2>. QED  BY <2>2, <2>3
<1>5. CASE pc[p] = "cas" /\ CanSwap(p) /\ SwapEffect(p) /\ UNCHANGED stored
  <2>1. Published!Next
    BY <1>2, <1>5, SwapWrites
  <2>2. BaseStep(p)
    <3>1. base'[p] = NextGeneration(prev[p]) /\ head'.generation = NextGeneration(prev[p])
      BY <1>1, <1>5 DEF SwapEffect, Named, LocalsOK
    <3>2. head' \in Heads
      BY <1>1, <1>5, SwapFacts DEF RefInv, SwapEffect, Named, Heads, LocalsOK
    <3>. QED  BY <3>1, <3>2, RemoteAssumption DEF BaseStep, GenerationOf
  <2>. QED  BY <1>1, <1>2, <1>3, <2>1, <2>2, NotAheadKept
<1>. QED  BY <1>4, <1>5 DEF LostEffect, store

LEMMA RequestFailsRefines ==
  ASSUME RefInv, Inv', NEW p \in Processes,
         RequestFails(p) \/ Dropped(p) \/ Restart(p)
  PROVE  RefInv' /\ Published!Next
  BY FaultRefines DEF RequestFails, Dropped, Restart, Forget

LEMMA InitRefines == Init => RefInv /\ Published!Init
<1>. SUFFICES ASSUME Init PROVE RefInv /\ Published!Init
  OBVIOUS
<1>1. Inv
  BY InitInv
<1>2. \A p \in Processes : NotAhead(p)
  <2>1. GenerationOf(head) \in Nat
    <3>1. head \in MaybeHead
      BY <1>1 DEF Inv, TypeOK
    <3>. QED  BY <3>1, RemoteAssumption
                 DEF MaybeHead, Heads, Generations, GenerationOf
  <2>. QED  BY <2>1 DEF Init, NotAhead
<1>3. \/ GenerationOf(head) = 0 /\ Content = None
      \/ GenerationOf(head) = 1 /\ Content = Empty
  <2>1. CASE head = None
    BY <2>1 DEF GenerationOf, Content
  <2>2. CASE head = [token |-> 1, generation |-> 1, image |-> Empty]
    <3>1. head # None
      <4>1. head \in Heads
        BY <2>2, RemoteAssumption DEF Heads, Generations
      <4>. QED  BY <4>1, RemoteAssumption
    <3>2. Content = Empty
      BY <1>1, <2>2, <3>1, CurrentIs
    <3>. QED  BY <2>2, <3>1, <3>2 DEF GenerationOf
  <2>. QED  BY <2>1, <2>2 DEF Init
<1>4. [p \in Processes |-> VersionsOf(p)] = [p \in Processes |-> {}]
  BY DEF Init, VersionsOf
<1>5. index = [p \in Processes |-> Empty] /\ base = [p \in Processes |-> 0]
  BY DEF Init
<1>6. Published!Init
  BY <1>3, <1>4, <1>5 DEF Published!Init
<1>. QED  BY <1>1, <1>2, <1>6 DEF RefInv

LEMMA NextRefines == RefInv /\ [Next]_vars => RefInv' /\ [Published!Next]_(Published!rvars)
<1>. SUFFICES ASSUME RefInv, [Next]_vars
              PROVE  RefInv' /\ [Published!Next]_(Published!rvars)
  OBVIOUS
<1>1. Inv'
  BY NextInv DEF RefInv
<1>2. CASE UNCHANGED vars
  <2>1. UNCHANGED <<GenerationOf(head), Content, index, base,
                    [p \in Processes |-> VersionsOf(p)]>>
    BY <1>2 DEF vars, store, process, GenerationOf, Content, VersionsOf
  <2>2. RefInv'
    BY <1>1, <1>2 DEF RefInv, NotAhead, GenerationOf, vars, store, process
  <2>. QED  BY <2>1, <2>2 DEF Published!rvars
<1>3. ASSUME NEW p \in Processes,
             Step(p) \/ RequestFails(p) \/ Dropped(p) \/ Restart(p)
      PROVE  RefInv' /\ Published!Next
  BY <1>1, <1>3, LoadRefines, ReadHeadRefines, FetchRefines, ChangeRefines,
     PublishRefines, ReadPreviousRefines, PutRefines, SwapRefines,
     DeleteRefines, RequestFailsRefines DEF Step
<1>. QED  BY <1>2, <1>3 DEF Next

\* Publishing through the store is a register: every step of a publisher or a
\* replica, and every fault, is a step of Register or leaves it as it is.
THEOREM PublishIsOneWrite == Spec => RegisterSpec
  BY InitRefines, NextRefines, PTL DEF Spec, RegisterSpec, Published!Spec

=============================================================================
