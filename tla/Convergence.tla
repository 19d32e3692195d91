----------------------------- MODULE Convergence -----------------------------
(***************************************************************************)
(* What a run of apply promises, whatever part of the chain it converges:  *)
(* it ends well only when it has itself found or made true every fact its  *)
(* file asks for, and no step of a run takes back a fact that is true.     *)
(* Others may, and a file may come to ask for something else.              *)
(***************************************************************************)
EXTENDS Naturals

CONSTANTS
  Run,
  Fact,    \* what a file may ask of the chain
  Wanted   \* Wanted[r]: what run r's file asks for

VARIABLES
  true,    \* the facts that hold
  found,   \* found[r]: the facts run r has found or made true
  state,   \* how far each run is
  undone   \* how often somebody else changed the chain

vars == <<true, found, state, undone>>

Init ==
  /\ true \in SUBSET Fact
  /\ found = [r \in Run |-> {}]
  /\ state \in [Run -> {"running", "stopped"}]
  /\ undone = 0

Keeps   == true \subseteq true' /\ UNCHANGED undone
Only(r) == \A q \in Run \ {r} : state'[q] = state[q] /\ found'[q] = found[q]

Begin(r) ==
  /\ state[r] # "running" /\ state'[r] = "running" /\ found'[r] = {}
  /\ Keeps /\ Only(r)

\* A run finds or makes facts true, and ends once it has all of them.
Advance(r) ==
  /\ state[r] = "running" /\ state'[r] \in {"running", "done"}
  /\ found[r] \subseteq found'[r]
  /\ found'[r] \ found[r] \subseteq true'
  /\ state'[r] = "done" => Wanted[r] \subseteq found'[r]
  /\ Keeps /\ Only(r)

Stop(r) ==
  /\ state[r] = "running" /\ state'[r] = "stopped" /\ found'[r] = {}
  /\ Keeps /\ Only(r)

\* What a run that has died sent takes effect later.
Gain == Keeps /\ UNCHANGED <<found, state>>

\* Somebody else changes the chain.
Interfere == undone' = undone + 1 /\ UNCHANGED <<found, state>>

\* Another file, between the runs.
Redeclare ==
  /\ \A r \in Run : state[r] # "running" /\ state'[r] = "stopped"
  /\ \A r \in Run : found'[r] = {}
  /\ UNCHANGED undone

Next == \/ \E r \in Run : Begin(r) \/ Advance(r) \/ Stop(r)
        \/ Gain \/ Interfere \/ Redeclare

Spec == Init /\ [][Next]_vars
=============================================================================
