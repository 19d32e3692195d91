------------------------ MODULE FactoryPromiseProofs ------------------------
(***************************************************************************)
(* Factory implements Convergence: the initial states map to initial       *)
(* states, and every step maps to a step of the abstract specification or  *)
(* to none.                                                                *)
(***************************************************************************)
EXTENDS FactoryProofs

\* The names run r's file asks for.
Names(r) == {Order[r][i] : i \in DOMAIN Order[r]}

Running(r) == Progress(r) = "running"

\* What a step may do to the run that takes it, seen from the abstraction.
Moves(r) ==
  \/ ~Running(r) /\ Running(r)' /\ Known(r)' = {}
  \/ /\ Running(r) /\ Progress(r)' \in {"running", "done"}
     /\ Known(r) \subseteq Known(r)'
     /\ Known(r)' \subseteq Deployed'
     /\ Progress(r)' = "done" => Names(r) \subseteq Known(r)'
  \/ Running(r) /\ Progress(r)' = "stopped" /\ Known(r)' = {}

\* A run knows only names that have a record, and at its end all of its file.
KnowledgeOK ==
  \A r \in Run : /\ Known(r) \subseteq Deployed
                 /\ Progress(r) = "done" => Names(r) \subseteq Known(r)

\* It follows from the invariant of FactoryProofs.
LEMMA Knowledge == IInv => KnowledgeOK
<1> SUFFICES ASSUME IInv, NEW r \in Run
             PROVE  /\ Known(r) \subseteq Deployed
                    /\ Progress(r) = "done" => Names(r) \subseteq Known(r)
  BY DEF KnowledgeOK
<1>1. Known(r) \subseteq Deployed
  <2>1. seen[r] \subseteq Deployed
    BY DEF IInv, ProgressOK
  <2>2. CASE pc[r] \in {"failed", "broken", "install", "presence"}
    BY <2>1, <2>2 DEF Known
  <2>3. CASE pc[r] \notin {"failed", "broken", "install", "presence"}
    <3>1. pc[r] \in Going
      BY <2>3 DEF IInv, TypeOK, Location, Waiting, Stopped, Going, AtName, Past
    <3>2. \A i \in DOMAIN Order[r] : i < idx[r] => Order[r][i] \in Deployed
      BY <3>1 DEF IInv, ProgressOK
    <3>3. QED BY <2>1, <2>3, <3>2 DEF Known
  <2>4. QED BY <2>2, <2>3
<1>2. ASSUME Progress(r) = "done" PROVE Names(r) \subseteq Known(r)
  <2>1. pc[r] = "done"
    BY <1>2 DEF Progress
  <2>2. \A i \in DOMAIN Order[r] : i < idx[r]
    BY <2>1, FactoryConstants DEF IInv, PositionOK, Past, AtEnd, TypeOK
  <2>3. QED BY <2>1, <2>2 DEF Known, Names
<1>3. QED BY <1>1, <1>2

\* No step takes a record away.
LEMMA RecordsStay ==
  ASSUME TypeOK, [Next]_vars
  PROVE  Deployed \subseteq Deployed'
<1> USE DEF chain, local, Deployed
<1>1. CASE Mine
  BY <1>1, FactoryConstants DEF Mine, TypeOK, Tx
<1>2. CASE ~Mine
  <2>1. record' = record
    BY <1>2 DEF Next, Step, vars, Evict, OwnerAccepts, OwnerHandsBack, Install, ReadPresence,
       EnsureOwner, EnsurePending, Section, ProxyRecord, NamedRecord, ReadRecord,
       DeployImplementation, FetchNonce, SendDeploy, Reread, ConvergeOwner,
       ConvergePending, DevAccept, Abort, Timeout, Rerun, Send
  <2>2. QED BY <2>1
<1>3. QED BY <1>1, <1>2

\* What one run does is a step of the abstract specification.
LEMMA RunStep ==
  ASSUME NEW r \in Run, Deployed \subseteq Deployed', Moves(r),
         \A q \in Run \ {r} : pc'[q] = pc[q] /\ idx'[q] = idx[q] /\ seen'[q] = seen[q]
  PROVE  Promise!Next
<1>1. \A q \in Run \ {r} : Progress(q)' = Progress(q) /\ Known(q)' = Known(q)
  BY DEF Progress, Known
<1>2. Promise!Keeps /\ Promise!Only(r)
  BY <1>1 DEF Promise!Keeps, Promise!Only
<1>3. CASE ~Running(r) /\ Running(r)' /\ Known(r)' = {}
  BY <1>2, <1>3 DEF Running, Promise!Begin, Promise!Next
<1>4. CASE Running(r) /\ Progress(r)' = "stopped" /\ Known(r)' = {}
  BY <1>2, <1>4 DEF Running, Promise!Stop, Promise!Next
<1>5. CASE /\ Running(r) /\ Progress(r)' \in {"running", "done"}
           /\ Known(r) \subseteq Known(r)'
           /\ Known(r)' \subseteq Deployed'
           /\ Progress(r)' = "done" => Names(r) \subseteq Known(r)'
  <2>1. Promise!Advance(r)
    BY <1>2, <1>5 DEF Running, Names, Promise!Advance
  <2>2. QED BY <2>1 DEF Promise!Next
<1>6. QED BY <1>3, <1>4, <1>5 DEF Moves

\* A run that goes on keeps its flags and its place, or moves past a name.
LEMMA Onwards ==
  ASSUME IInv, KnowledgeOK', NEW r \in Run,
         pc[r] \notin Stopped, pc'[r] \notin {"failed", "broken", "install"},
         pc[r] \notin {"install", "presence"} => pc'[r] # "presence",
         seen[r] \subseteq seen'[r],
         pc[r] \notin {"install", "presence"} => idx'[r] \in {idx[r], idx[r] + 1}
  PROVE  Moves(r)
<1>1. Running(r) /\ Progress(r)' \in {"running", "done"}
  BY DEF Running, Progress, Stopped
<1>2. Known(r) \subseteq Known(r)'
  <2>1. CASE pc[r] \in {"install", "presence"}
    BY <2>1 DEF Known
  <2>2. CASE pc[r] \notin {"install", "presence"}
    <3>1. \A i \in DOMAIN Order[r] : i < idx[r] => i < idx'[r]
      <4>1. idx[r] \in Nat /\ \A i \in DOMAIN Order[r] : i \in Nat
        BY FactoryConstants DEF IInv, TypeOK
      <4>2. QED BY <2>2, <4>1
    <3>2. QED BY <2>2, <3>1 DEF Known, Stopped
  <2>3. QED BY <2>1, <2>2
<1>3. QED BY <1>1, <1>2 DEF KnowledgeOK, Moves

\* A run that ends knows nothing any more.
LEMMA Halts ==
  ASSUME NEW r \in Run, pc[r] \notin Stopped, pc'[r] \in {"failed", "broken"}
  PROVE  Moves(r)
BY DEF Moves, Running, Progress, Known, Stopped

\* Every step maps to a step of the abstract specification, or to none.
LEMMA StepMaps == IInv /\ KnowledgeOK' /\ [Next]_vars => Promise!Next \/ UNCHANGED Promise!vars
<1> SUFFICES ASSUME IInv, KnowledgeOK', [Next]_vars
             PROVE  Promise!Next \/ UNCHANGED Promise!vars
  OBVIOUS
<1> USE DEF chain, local, Goto
<1>0. TypeOK /\ Deployed \subseteq Deployed'
  BY RecordsStay DEF IInv
<1>1. CASE UNCHANGED <<pc, idx, seen>>
  <2>1. \A q \in Run : Progress(q)' = Progress(q) /\ Known(q)' = Known(q)
    BY <1>1 DEF Progress, Known
  <2>2. Promise!Gain
    BY <1>0, <2>1 DEF Promise!Gain, Promise!Keeps
  <2>3. QED BY <2>2 DEF Promise!Next
<1>2. CASE Mine
  <2>1. CASE pc[slot.by] \in Waiting
    <3>1. slot.by \in Run /\ UNCHANGED <<idx, seen>>
      BY <1>0, <1>2 DEF Mine, TypeOK, Tx
    <3>2. PICK l \in Outcomes(slot, Succeeds(slot)) : pc' = [pc EXCEPT ![slot.by] = l]
      BY <1>2, <2>1 DEF Mine
    <3>3. l \in {"named", "reread", "section", "dev", "failed"}
      BY <1>0, <1>2, <3>2 DEF Mine, TypeOK, Tx, Outcomes, After
    <3>4. pc'[slot.by] = l /\ \A q \in Run \ {slot.by} : pc'[q] = pc[q]
      BY <1>0, <3>1, <3>2 DEF TypeOK
    <3>5. Moves(slot.by)
      BY <2>1, <3>1, <3>3, <3>4, Onwards, Halts DEF Waiting, Stopped
    <3>6. QED BY <1>0, <3>1, <3>4, <3>5, RunStep
  <2>2. CASE pc[slot.by] \notin Waiting
    BY <1>1, <1>2, <2>2 DEF Mine
  <2>3. QED BY <2>1, <2>2
<1>3. CASE Evict \/ OwnerAccepts \/ OwnerHandsBack \/ UNCHANGED vars
  BY <1>1, <1>3 DEF Evict, OwnerAccepts, OwnerHandsBack, vars
<1>4. ASSUME NEW r \in Run, Step(r) \/ Abort(r) \/ Timeout(r) \/ Rerun(r)
      PROVE  Promise!Next
  <2>0. ASSUME Moves(r),
               \A q \in Run \ {r} : pc'[q] = pc[q] /\ idx'[q] = idx[q] /\ seen'[q] = seen[q]
        PROVE  Promise!Next
    BY <1>0, <2>0, RunStep
  <2> USE DEF TypeOK
  <2>1. CASE Install(r)
    BY <1>0, <2>0, <2>1, Onwards, Halts DEF Install, Stopped
  <2>2. CASE ReadPresence(r)
    BY <1>0, <2>0, <2>2, Onwards DEF ReadPresence, Stopped
  <2>3. CASE EnsureOwner(r)
    BY <1>0, <2>0, <2>3, Onwards DEF EnsureOwner, Stopped
  <2>4. CASE EnsurePending(r)
    BY <1>0, <2>0, <2>4, Onwards, Halts DEF EnsurePending, Send, Stopped
  <2>5. CASE Section(r)
    BY <1>0, <2>0, <2>5, Onwards DEF Section, Stopped
  <2>6. CASE ProxyRecord(r) \/ NamedRecord(r)
    BY <1>0, <2>0, <2>6, Onwards DEF ProxyRecord, NamedRecord, ReadRecord, Stopped
  <2>7. CASE DeployImplementation(r)
    BY <1>0, <2>0, <2>7, Onwards, Halts DEF DeployImplementation, Send, Stopped
  <2>8. CASE FetchNonce(r)
    BY <1>0, <2>0, <2>8, Onwards DEF FetchNonce, Stopped
  <2>9. CASE SendDeploy(r)
    BY <1>0, <2>0, <2>9, Onwards, Halts DEF SendDeploy, Stopped
  <2>10. CASE Reread(r)
    BY <1>0, <2>0, <2>10, Onwards, Halts DEF Reread, Stopped
  <2>11. CASE ConvergeOwner(r)
    BY <1>0, <2>0, <2>11, Onwards DEF ConvergeOwner, Stopped
  <2>12. CASE ConvergePending(r)
    BY <1>0, <2>0, <2>12, Onwards, Halts DEF ConvergePending, Send, Stopped
  <2>13. CASE DevAccept(r)
    BY <1>0, <2>0, <2>13, Onwards, Halts DEF DevAccept, Stopped
  <2>14. CASE Abort(r)
    BY <1>0, <2>0, <2>14, Halts DEF Abort
  <2>15. CASE Timeout(r)
    BY <1>0, <2>0, <2>15, Halts DEF Timeout, Waiting, Stopped
  <2>16. CASE Rerun(r)
    <3>1. Moves(r)
      BY <1>0, <2>16 DEF Rerun, Moves, Running, Progress, Known
    <3>2. QED BY <1>0, <2>0, <2>16, <3>1 DEF Rerun
  <2>17. QED
    BY <1>4, <2>1, <2>2, <2>3, <2>4, <2>5, <2>6, <2>7, <2>8, <2>9, <2>10, <2>11, <2>12,
       <2>13, <2>14, <2>15, <2>16 DEF Step
<1>5. QED BY <1>2, <1>3, <1>4 DEF Next

\* Runs that share a factory, replace each other's calls and die half way
\* keep the promise of Convergence: none takes a name for deployed that has
\* no record, or ends well short of its file.
THEOREM KeepsIt == Spec => KeepsPromise
<1>1. Init => Promise!Init
  <2>1. SUFFICES ASSUME Init PROVE Promise!Init
    OBVIOUS
  <2>2. \A r \in Run : Known(r) = {} /\ Progress(r) = "running"
    BY <2>1 DEF Init, Known, Progress
  <2>3. QED BY <2>2 DEF Promise!Init, Deployed
<1>2. QED BY InitIInv, IInvStep, Knowledge, StepMaps, <1>1, PTL DEF Spec, KeepsPromise, Promise!Spec
=============================================================================
