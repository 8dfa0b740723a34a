------------------------------- MODULE Remote -------------------------------
(***************************************************************************)
(* An index on an object store: images under create-only keys, one per     *)
(* generation, and a HEAD object, swapped only conditionally, that names   *)
(* the current one.  Publishers load, change and publish; replicas poll.   *)
(*                                                                         *)
(* Every request to the store is a step of its own.  It may fail, or take  *)
(* effect and lose its response; the future that awaits it may be dropped; *)
(* a process may restart.  The store is external: `put' creates a key and  *)
(* accepts an identical object already there, a different one there fences *)
(* the publisher; `cas' replaces HEAD if it still has the token given.     *)
(*                                                                         *)
(* An image stands for its bytes, so for its length and checksum too.      *)
(***************************************************************************)
EXTENDS Naturals, FiniteSets

CONSTANTS
  Publishers, Replicas,
  Images,          \* images an index may serialize to
  Empty,           \* the image of an index just created
  None,
  MaxGeneration,   \* bound on the generations published
  MaxFaults        \* bound on failed or lost requests, drops and restarts

Processes == Publishers \cup Replicas
Generations == 1..MaxGeneration

\* HEAD: the token its last write got from the store, and what it names.
Heads == [token : Generations, generation : Generations, image : Images]
MaybeHead == Heads \cup {None}

\* The version a HEAD names.
VersionOf(h) == [generation |-> h.generation, image |-> h.image]

ASSUME RemoteAssumption ==
  /\ Publishers \cap Replicas = {}
  /\ Empty \in Images
  /\ None \notin Images \cup Heads \cup {VersionOf(h) : h \in Heads}
  /\ MaxGeneration \in Nat \ {0}
  /\ MaxFaults \in Nat

VARIABLES
  head,     \* the HEAD object
  stored,   \* the image objects, None where there is no such key
  seen,     \* Remote::seen
  index,    \* the image of the LinkIndex in memory
  pc,       \* the request a process awaits; "idle" between calls
  prev,     \* the HEAD a running call works from
  faults,   \* how much went wrong so far
  outcome,  \* how the last call of a process ended
  base,     \* history: the generation the index in memory derives from
  retried   \* history: the process publishes again after an error, without
            \* loading first

store == <<head, stored>>
process == <<seen, index, pc, prev, outcome, base, retried>>
vars == <<store, process, faults>>

GenerationOf(h) == IF h = None THEN 0 ELSE h.generation
TokenOf(h) == IF h = None THEN 0 ELSE h.token

\* Nothing is published yet, or one image is.
Init ==
  /\ \/ head = None
     \/ head = [token |-> 1, generation |-> 1, image |-> Empty]
  /\ stored = [g \in Generations |-> IF g = GenerationOf(head) THEN Empty ELSE None]
  /\ seen = [p \in Processes |-> None]
  /\ index = [p \in Processes |-> Empty]
  /\ pc = [p \in Processes |-> "idle"]
  /\ prev = [p \in Processes |-> None]
  /\ faults = 0
  /\ outcome = [p \in Processes |-> "new"]
  /\ base = [p \in Processes |-> 0]
  /\ retried = [p \in Processes |-> FALSE]

\* p goes on to await `request', working from h.
Await(p, request, h) ==
  /\ pc' = [pc EXCEPT ![p] = request]
  /\ prev' = [prev EXCEPT ![p] = h]

\* The call of p returns.
Done(p, result) ==
  /\ pc' = [pc EXCEPT ![p] = "idle"]
  /\ prev' = [prev EXCEPT ![p] = None]
  /\ outcome' = [outcome EXCEPT ![p] = result]

Saw(p, h) == seen' = [seen EXCEPT ![p] = h]

-----------------------------------------------------------------------------
(***************************************************************************)
(* load_with, load_or_empty_with, load_if_changed_into.                    *)
(***************************************************************************)

\* A publisher loads before it first publishes, and when it likes.
Load(p) ==
  /\ p \in Publishers
  /\ pc[p] = "idle"
  /\ Await(p, "read", None)
  /\ UNCHANGED <<store, seen, index, faults, outcome, base, retried>>

\* Mutant: a replica takes any HEAD it knows for the current one.
IsCurrent_Known(p) == seen[p] # None

IsCurrent(p) == seen[p] # None /\ TokenOf(seen[p]) = head.token

\* A replica polls: one metadata request when HEAD has not moved.
Poll(p) ==
  /\ p \in Replicas
  /\ pc[p] = "idle"
  /\ head # None
  /\ ~IsCurrent(p)
  /\ Await(p, "read", None)
  /\ UNCHANGED <<store, seen, index, faults, outcome, base, retried>>

\* read_head, in a load: nothing published leaves a publisher with an empty
\* index.
ReadHead(p) ==
  /\ pc[p] = "read"
  /\ \/ /\ head # None
        /\ Await(p, "fetch", head)
        /\ UNCHANGED <<seen, index, outcome, base, retried>>
     \/ /\ head = None
        /\ Saw(p, None)
        /\ Done(p, "ok")
        /\ index' = [index EXCEPT ![p] = Empty]
        /\ base' = [base EXCEPT ![p] = 0]
        /\ retried' = [retried EXCEPT ![p] = FALSE]
  /\ UNCHANGED <<store, faults>>

\* Mutant: HEAD is remembered although its image could not be fetched.
FetchLost_Remembers(p) == Saw(p, prev[p]) /\ Done(p, "failed")

FetchLost(p) == Done(p, "failed") /\ UNCHANGED seen

\* The image: verified and opened in place, unless a later publisher removed
\* it in between.
Fetch(p) ==
  /\ pc[p] = "fetch"
  /\ \/ /\ stored[prev[p].generation] = prev[p].image
        /\ index' = [index EXCEPT ![p] = prev[p].image]
        /\ Saw(p, prev[p])
        /\ Done(p, "ok")
        /\ base' = [base EXCEPT ![p] = prev[p].generation]
        /\ retried' = [retried EXCEPT ![p] = FALSE]
     \/ /\ stored[prev[p].generation] # prev[p].image
        /\ FetchLost(p)
        /\ UNCHANGED <<index, base, retried>>
  /\ UNCHANGED <<store, faults>>

-----------------------------------------------------------------------------
(***************************************************************************)
(* publish.                                                                *)
(***************************************************************************)

\* The publisher changes its index between calls.
Change(p) ==
  /\ p \in Publishers
  /\ pc[p] = "idle"
  /\ outcome[p] # "new"
  /\ \E image \in Images \ {index[p]} : index' = [index EXCEPT ![p] = image]
  /\ UNCHANGED <<store, seen, pc, prev, faults, outcome, base, retried>>

NextGeneration(h) == GenerationOf(h) + 1

\* With h, the HEAD to publish over: an image it already names is not uploaded.
Compare(p, h) ==
  \/ /\ h # None /\ h.image = index[p]
     /\ Saw(p, h)
     /\ Done(p, "ok")
     /\ base' = [base EXCEPT ![p] = h.generation]
  \/ /\ h # None => h.image # index[p]
     /\ NextGeneration(h) <= MaxGeneration
     /\ Await(p, "put", h)
     /\ UNCHANGED <<seen, outcome, base>>

\* The cached HEAD is trusted; without one it is read.
Publish(p) ==
  /\ p \in Publishers
  /\ pc[p] = "idle"
  /\ outcome[p] # "new"
  /\ retried' = [retried EXCEPT ![p] = @ \/ outcome[p] \in {"failed", "fenced"}]
  /\ \/ /\ seen[p] # None
        /\ Compare(p, seen[p])
     \/ /\ seen[p] = None
        /\ Await(p, "read head", None)
        /\ UNCHANGED <<seen, outcome, base>>
  /\ UNCHANGED <<store, index, faults>>

ReadPrevious(p) ==
  /\ pc[p] = "read head"
  /\ Compare(p, head)
  /\ UNCHANGED <<store, index, faults, retried>>

\* A failed publish forgets HEAD: the next one reads it.
Forget(p, result) == Saw(p, None) /\ Done(p, result)

CanPut(p) == stored[NextGeneration(prev[p])] \in {None, index[p]}

PutEffect(p) == stored' = [stored EXCEPT ![NextGeneration(prev[p])] = index[p]]

Put(p) ==
  /\ pc[p] = "put"
  /\ \/ /\ CanPut(p)
        /\ PutEffect(p)
        /\ Await(p, "cas", prev[p])
        /\ UNCHANGED <<seen, outcome>>
     \/ /\ ~CanPut(p)
        /\ Forget(p, "fenced")
        /\ UNCHANGED stored
  /\ UNCHANGED <<head, index, faults, base, retried>>

\* Mutant: HEAD is overwritten whatever it is now.
Expected_Any(p) == TokenOf(head)

Expected(p) == TokenOf(prev[p])

CanSwap(p) == TokenOf(head) = Expected(p)

\* Mutant: HEAD names the generation after the one uploaded.
Named_Ahead(p) == NextGeneration(prev[p]) + 1

Named(p) == NextGeneration(prev[p])

SwapEffect(p) ==
  /\ head' = [token |-> TokenOf(head) + 1, generation |-> Named(p),
              image |-> index[p]]
  /\ base' = [base EXCEPT ![p] = NextGeneration(prev[p])]

Swap(p) ==
  /\ pc[p] = "cas"
  /\ \/ /\ CanSwap(p)
        /\ SwapEffect(p)
        /\ Saw(p, head')
        /\ IF prev[p] = None THEN Done(p, "ok")
             ELSE Await(p, "delete", prev[p]) /\ UNCHANGED outcome
     \/ /\ ~CanSwap(p)
        /\ Forget(p, "fenced")
        /\ UNCHANGED <<head, base>>
  /\ UNCHANGED <<stored, index, faults, retried>>

\* Mutant: the generation just published is removed.
Superseded_Off(p) == NextGeneration(prev[p])

Superseded(p) == GenerationOf(prev[p])

DeleteEffect(p) == stored' = [stored EXCEPT ![Superseded(p)] = None]

\* Best effort: it may fail without consequence.
Delete(p) ==
  /\ pc[p] = "delete"
  /\ DeleteEffect(p) \/ UNCHANGED stored
  /\ Done(p, "ok")
  /\ UNCHANGED <<head, seen, index, faults, base, retried>>

-----------------------------------------------------------------------------
(***************************************************************************)
(* What goes wrong.                                                        *)
(***************************************************************************)

Fault == faults < MaxFaults /\ faults' = faults + 1

\* The effect a request may have had although its response never came.
LostEffect(p) ==
  \/ UNCHANGED <<store, base>>
  \/ pc[p] = "put" /\ CanPut(p) /\ PutEffect(p) /\ UNCHANGED <<head, base>>
  \/ pc[p] = "cas" /\ CanSwap(p) /\ SwapEffect(p) /\ UNCHANGED stored

\* A request fails or its response is lost.  Only put and cas forget HEAD.
RequestFails(p) ==
  /\ Fault
  /\ pc[p] \in {"read", "fetch", "read head", "put", "cas"}
  /\ LostEffect(p)
  /\ IF pc[p] \in {"put", "cas"} THEN Forget(p, "failed")
                                 ELSE Done(p, "failed") /\ UNCHANGED seen
  /\ UNCHANGED <<index, retried>>

\* The future is dropped at a request: nothing is forgotten.
Dropped(p) ==
  /\ Fault
  /\ pc[p] \in {"read", "fetch", "read head", "put", "cas", "delete"}
  /\ LostEffect(p)
  /\ Done(p, "failed")
  /\ UNCHANGED <<seen, index, retried>>

\* The process restarts with a new Remote and an empty index.
Restart(p) ==
  /\ Fault
  /\ LostEffect(p)
  /\ Saw(p, None)
  /\ Done(p, "new")
  /\ index' = [index EXCEPT ![p] = Empty]
  /\ retried' = [retried EXCEPT ![p] = FALSE]

Step(p) ==
  \/ Load(p) \/ Poll(p) \/ ReadHead(p) \/ Fetch(p)
  \/ Change(p)
  \/ Publish(p) \/ ReadPrevious(p)
  \/ Put(p) \/ Swap(p) \/ Delete(p)

Next == \E p \in Processes : Step(p) \/ RequestFails(p) \/ Dropped(p) \/ Restart(p)

Spec == Init /\ [][Next]_vars

\* A replica keeps polling, and every request it sends is answered.
FairSpec ==
  Spec /\ \A p \in Replicas : WF_vars(Poll(p) \/ ReadHead(p) \/ Fetch(p))

-----------------------------------------------------------------------------
(***************************************************************************)
(* Properties.                                                             *)
(***************************************************************************)

\* The shape of the store and of every process.
TypeOK ==
  /\ head \in MaybeHead
  /\ stored \in [Generations -> Images \cup {None}]
  /\ seen \in [Processes -> MaybeHead]
  /\ index \in [Processes -> Images]
  /\ pc \in [Processes -> {"idle", "read", "fetch", "read head",
                           "put", "cas", "delete"}]
  /\ prev \in [Processes -> MaybeHead]
  /\ faults \in 0..MaxFaults
  /\ outcome \in [Processes -> {"new", "ok", "failed", "fenced"}]
  /\ base \in [Processes -> 0..MaxGeneration]
  /\ retried \in [Processes -> BOOLEAN]

\* Whatever fails in between, HEAD names an image that is there in full: the
\* upload precedes the swap, and only superseded images are deleted.
HeadHasImage == head # None => stored[head.generation] = head.image

\* The HEAD a process remembers is one its index derives from: the token a
\* publish swaps on belongs to what it read, and a replica that believes itself
\* current shows what that HEAD names.
SeenIsHeld ==
  \A p \in Processes :
    seen[p] # None =>
      /\ ~retried[p] => seen[p].generation <= base[p]
      /\ p \in Replicas => index[p] = seen[p].image

\* The HEAD that a step of p replaced is the one its index derives from.
Supersedes(p) ==
  pc[p] = "cas" /\ head' # head => base[p] = GenerationOf(head)

\* Of two publishers that loaded one state, one wins and the other is fenced:
\* an index that was loaded replaces only the generation it was loaded from or
\* published as, unless its owner publishes again after an error.
LoadedOneWins ==
  [][\A p \in Publishers :
       base[p] > 0 /\ ~retried[p] /\ pc'[p] # "cas" => Supersedes(p)]_vars

\* What the module documents: of two publishers starting from the same state
\* exactly one wins and the other gets Fenced.
OneWins ==
  [][\A p \in Publishers :
       ~retried[p] /\ pc'[p] # "cas" => Supersedes(p)]_vars

\* Once publishing stops, every replica comes to show the current image, past
\* lost requests and images deleted between its two requests.
ReplicasCatchUp ==
  \A p \in Replicas : <>[](head # None => index[p] = head.image)

\* What a reader of the bucket would fetch.
Content == IF head = None THEN None ELSE stored[head.generation]

\* The versions a process works from or remembers.
VersionsOf(p) == {VersionOf(h) : h \in {seen[p], prev[p]} \ {None}}

\* Upload, swap and removal together are one write of a register, whatever
\* request is lost and wherever a process stops: what a reader of the bucket
\* would fetch changes in one step, to the whole of the writer's image, and
\* only over the version the writer knows; and a load takes a version that was
\* current, never one older than the process had.
Published == INSTANCE Register WITH
  Writers <- Publishers,
  Values <- Images,
  Initial <- Empty,
  Nothing <- None,
  version <- GenerationOf(head),
  value <- Content,
  held <- index,
  at <- base,
  notes <- [p \in Processes |-> VersionsOf(p)]

RegisterSpec == Published!Spec

=============================================================================
