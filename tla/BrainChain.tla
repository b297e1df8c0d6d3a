----------------------------- MODULE BrainChain -----------------------------
(***************************************************************************)
(* What brain sync promises, without its files: machines share one chain   *)
(* of published contents.  A machine replaces the last one only after it   *)
(* has seen everything in it, generations count up by one, and a reset     *)
(* starts another chain.                                                   *)
(***************************************************************************)
EXTENDS Naturals

CONSTANTS
  Machines,   \* machines that share the key and the project's name
  Entries     \* memories, told apart by their content

VARIABLES
  chain,       \* how many chains were started: resets and one
  generation,  \* the last generation of this chain, 0 for none
  content,     \* what it holds
  known,       \* what each machine has seen
  follows      \* the chain each machine follows, 0 for none

vars == <<chain, generation, content, known, follows>>

Init ==
  /\ chain = 1
  /\ generation = 0
  /\ content = {}
  /\ known = [m \in Machines |-> {}]
  /\ follows = [m \in Machines |-> 0]

\* A machine whose marker is of a chain that is gone.
Stranded(m) == follows[m] \notin {0, chain}

\* Seeing more, from a user or from a chain, and taking up a chain.
Learn(m) ==
  /\ \E more \in SUBSET Entries : known' = [known EXCEPT ![m] = @ \cup more]
  /\ \E c \in 0..chain : follows' = [follows EXCEPT ![m] = c]
  /\ UNCHANGED <<chain, generation, content>>

Publish(m) ==
  /\ Stranded(m) \/ content \subseteq known[m]
  /\ generation' = generation + 1
  /\ content' \in SUBSET known[m]
  /\ UNCHANGED <<chain, known, follows>>

Clear ==
  /\ chain' = chain + 1
  /\ generation' = 0
  /\ content' = {}
  /\ UNCHANGED <<known, follows>>

Next == Clear \/ \E m \in Machines : Learn(m) \/ Publish(m)

Spec == Init /\ [][Next]_vars
=============================================================================
