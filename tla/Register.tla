------------------------------ MODULE Register ------------------------------
(***************************************************************************)
(* What publishing through an object store promises: a register that holds *)
(* one whole image, written over the version the writer knows.  There are  *)
(* no requests here and no images half there: a write is one step, and a   *)
(* reader takes an image as it was written, never an older one than it had.*)
(***************************************************************************)
EXTENDS Naturals

CONSTANTS
  Processes, Writers,
  Values,   \* what the register may hold
  Initial,  \* what a process starts with
  Nothing   \* no version

VARIABLES
  version, value, \* the register: how often it was written, and the last value
  held,           \* the copy a process works with or shows
  at,             \* the version that copy derives from
  notes           \* the versions a process knows, with their values

rvars == <<version, value, held, at, notes>>

Current ==
  IF version = 0 THEN Nothing ELSE [generation |-> version, image |-> value]

Init ==
  /\ \/ version = 0 /\ value = Nothing
     \/ version = 1 /\ value = Initial
  /\ held = [p \in Processes |-> Initial]
  /\ at = [p \in Processes |-> 0]
  /\ notes = [p \in Processes |-> {}]

\* After a step p knows no more than it knew, and what is or was current.
Knows(p) ==
  \E known \in SUBSET ((notes[p] \cup {Current, Current'}) \ {Nothing}) :
    notes' = [notes EXCEPT ![p] = known]

\* p reads the register, or forgets.
Note(p) ==
  /\ Knows(p)
  /\ UNCHANGED <<version, value, held, at>>

\* A version p knows becomes its copy.  It is at least as new as what p had.
Take(p) ==
  /\ \/ \E n \in notes[p] :
          /\ at[p] <= n.generation
          /\ held' = [held EXCEPT ![p] = n.image]
          /\ at' = [at EXCEPT ![p] = n.generation]
     \/ /\ Current = Nothing
        /\ held' = [held EXCEPT ![p] = Initial]
        /\ at' = [at EXCEPT ![p] = 0]
  /\ Knows(p)
  /\ UNCHANGED <<version, value>>

Change(p) ==
  /\ p \in Writers
  /\ \E v \in Values : held' = [held EXCEPT ![p] = v]
  /\ UNCHANGED <<version, value, at, notes>>

\* The copy is a version p knows: there is nothing to write.
Confirm(p) ==
  /\ \E n \in (notes[p] \cup {Current}) \ {Nothing} :
       /\ n.image = held[p]
       /\ at' = [at EXCEPT ![p] = n.generation]
  /\ Knows(p)
  /\ UNCHANGED <<version, value, held>>

\* The copy replaces the current version, if there is one a version p knows.
\* The writer may not live to see it.
Write(p) ==
  /\ p \in Writers
  /\ Current \in notes[p] \cup {Nothing}
  /\ version' = version + 1
  /\ value' = held[p]
  /\ at' = [at EXCEPT ![p] = version + 1]
  /\ UNCHANGED held \/ held' = [held EXCEPT ![p] = Initial]
  /\ Knows(p)

Restart(p) ==
  /\ held' = [held EXCEPT ![p] = Initial]
  /\ notes' = [notes EXCEPT ![p] = {}]
  /\ UNCHANGED <<version, value, at>>

Next ==
  \E p \in Processes :
    Note(p) \/ Take(p) \/ Change(p) \/ Confirm(p) \/ Write(p) \/ Restart(p)

Spec == Init /\ [][Next]_rvars

=============================================================================
