---------------------------- MODULE FactoryProofs ----------------------------
(***************************************************************************)
(* Proofs about Factory, for any number of runs, names and accounts.  The  *)
(* bounds MaxFailures and MaxHandbacks are arbitrary naturals.             *)
(***************************************************************************)
EXTENDS Factory, TLAPS

\* Locations at which a run works on the name Now(r).
AtName == {"record", "impl", "building", "named", "nonce", "send",
           "deploying", "reread"}
\* Locations reached only after the last section.
Past   == {"converge", "convergePending", "transferring", "dev", "done"}
\* Locations from which the sections are behind up to idx[r].
Going  == AtName \cup Past \cup {"ensure", "ensurePending", "accepting", "section"}

\* A run at a name stands inside its order, and past the last one at the end.
PositionOK ==
  \A r \in Run : /\ pc[r] \in AtName => idx[r] \in DOMAIN Order[r]
                 /\ pc[r] \in Past => AtEnd(r)

\* The location that awaits the receipt of a call.
Awaits(call) ==
  CASE call = "impl"     -> "building"
    [] call = "deploy"   -> "deploying"
    [] call = "accept"   -> "accepting"
    [] call = "transfer" -> "transferring"

\* A pooled call whose sender waits is the very call it waits for: a call
\* left behind by a dead run is replaced before its sender waits again.
SlotOK ==
  slot # None /\ pc[slot.by] \in Waiting =>
    /\ pc[slot.by] = Awaits(slot.call)
    /\ slot.call = "impl" => slot.name = Now(slot.by)

\* Every name behind a run has a record, and so has every flag it cached.
ProgressOK ==
  \A r \in Run :
    /\ seen[r] \subseteq Deployed
    /\ pc[r] \in Going =>
         \A i \in DOMAIN Order[r] : i < idx[r] => Order[r][i] \in Deployed

IInv == TypeOK /\ PositionOK /\ SlotOK /\ ProgressOK

\* The invariant holds before any run has started.
LEMMA InitIInv == Init => IInv
<1>1. SUFFICES ASSUME Init PROVE IInv
  OBVIOUS
<1>2. TypeOK
  <2>1. record \in [Name -> Run \cup {None}] /\ pc \in [Run -> Location]
    BY <1>1 DEF Init, Location
  <2>2. idx \in [Run -> Nat \ {0}] /\ seen \in [Run -> SUBSET Name]
        /\ needs \in [Run -> BOOLEAN]
    BY <1>1 DEF Init
  <2>3. failures \in 0 .. MaxFailures /\ handbacks \in 0 .. MaxHandbacks
    BY <1>1, FactoryConstants DEF Init
  <2>4. QED
    BY <1>1, <2>1, <2>2, <2>3 DEF Init, TypeOK
<1>3. PositionOK
  BY <1>1 DEF Init, PositionOK, AtName, Past
<1>4. SlotOK
  BY <1>1 DEF Init, SlotOK
<1>5. ProgressOK
  BY <1>1 DEF Init, ProgressOK, Going, AtName, Past
<1>6. QED BY <1>2, <1>3, <1>4, <1>5 DEF IInv

\* A call of a run is a transaction, and sending it keeps the types.
LEMMA TxType ==
  ASSUME NEW r \in Run
  PROVE  /\ \A n \in Name : TxOf(r, "impl", n) \in Tx /\ TxOf(r, "deploy", n) \in Tx
         /\ TxOf(r, "accept", None) \in Tx /\ TxOf(r, "transfer", None) \in Tx
BY FactoryConstants DEF TxOf, Tx

\* A run goes to a location.
LEMMA GotoType ==
  ASSUME TypeOK, NEW r \in Run, NEW l \in Location, Goto(r, l)
  PROVE  pc' \in [Run -> Location]
BY DEF Goto, TypeOK

\* A send keeps the types, refused or pooled.
LEMMA SendType ==
  ASSUME TypeOK, NEW r \in Run, NEW t \in Tx, NEW l \in Location, Send(r, t, l)
  PROVE  TypeOK'
<1>1. pc' \in [Run -> Location]
  BY GotoType DEF Send, Location, Stopped
<1>2. slot' \in Tx \cup {None}
  BY DEF Send, Accepts, Refuses, TypeOK
<1>3. QED BY <1>1, <1>2 DEF Send, TypeOK, chain, local

\* A run at a name works on a name of its order.
LEMMA NowType ==
  ASSUME TypeOK, PositionOK, NEW r \in Run, pc[r] \in AtName
  PROVE  Now(r) \in Name
BY FactoryConstants DEF PositionOK, Now, TypeOK

\* No step leaves the types: runs stand at places of their order, the pool
\* and the records hold what a run sent.
LEMMA TypeStep == TypeOK /\ PositionOK /\ [Next]_vars => TypeOK'
<1> SUFFICES ASSUME TypeOK, PositionOK, [Next]_vars PROVE TypeOK'
  OBVIOUS
<1> USE DEF chain, local
<1>1. CASE UNCHANGED vars
  BY <1>1 DEF TypeOK, vars
<1>2. CASE Mine
  <2>1. /\ slot \in Tx
        /\ slot.by \in Run
        /\ slot.to \in Account
        /\ slot.call \in {"impl", "deploy", "accept", "transfer"}
        /\ slot.call = "impl" => slot.name \in Name
    BY <1>2 DEF Mine, TypeOK, Tx
  <2>2. pc' \in [Run -> Location]
    BY <1>2, <2>1, GotoType DEF Mine, Outcomes, After, Location, Stopped, TypeOK
  <2>3. record' \in [Name -> Run \cup {None}]
    BY <1>2, <2>1 DEF Mine, TypeOK
  <2>4. built' \subseteq Run \X Name
    BY <1>2, <2>1 DEF Mine, TypeOK
  <2>5. owner' \in Account \cup {None} /\ pending' \in Account \cup {None}
    BY <1>2, <2>1, FactoryConstants DEF Mine, TypeOK
  <2>6. QED BY <1>2, <2>2, <2>3, <2>4, <2>5 DEF Mine, TypeOK
<1>3. CASE Evict
  BY <1>3, FactoryConstants DEF Evict, TypeOK
<1>4. CASE OwnerAccepts
  BY <1>4 DEF OwnerAccepts, TypeOK
<1>5. CASE OwnerHandsBack
  BY <1>5, FactoryConstants DEF OwnerHandsBack, TypeOK
<1>6. ASSUME NEW r \in Run, Step(r) \/ Abort(r) \/ Timeout(r) \/ Rerun(r)
      PROVE  TypeOK'
  <2>1. CASE Install(r)
    <3>1. pc' \in [Run -> Location]
      BY <2>1, GotoType DEF Install, Location, Stopped, TypeOK
    <3>2. QED BY <2>1, <3>1, FactoryConstants DEF Install, TypeOK
  <2>2. CASE ReadPresence(r)
    <3>1. pc' \in [Run -> Location]
      BY <2>2, GotoType DEF ReadPresence, Now, AtEnd, Deployed, Location, Stopped, TypeOK
    <3>2. idx' \in [Run -> Nat \ {0}]
      BY <2>2 DEF ReadPresence, Now, AtEnd, Deployed, TypeOK
    <3>3. seen' \in [Run -> SUBSET Name]
      BY <2>2 DEF ReadPresence, Now, AtEnd, Deployed, TypeOK
    <3>4. needs' \in [Run -> BOOLEAN]
      BY <2>2 DEF ReadPresence, Now, AtEnd, Deployed, TypeOK
    <3>5. QED BY <2>2, <3>1, <3>2, <3>3, <3>4 DEF ReadPresence, Now, AtEnd, Deployed, TypeOK
  <2>3. CASE EnsureOwner(r)
    <3>1. pc' \in [Run -> Location]
      BY <2>3, GotoType DEF EnsureOwner, Location, Stopped, TypeOK
    <3>2. QED BY <2>3, <3>1, FactoryConstants DEF EnsureOwner, TypeOK
  <2>4. CASE EnsurePending(r)
    <3>1. TxOf(r, "accept", None) \in Tx
      BY <2>4, TxType
    <3>2. "accepting" \in Location
      BY DEF Location, Waiting
    <3>3. ASSUME Goto(r, "failed"), UNCHANGED <<chain, slot, fresh, local, failures, handbacks>>
          PROVE  TypeOK'
      BY <3>3, GotoType DEF TypeOK, Location, Stopped
    <3>4. QED BY <2>4, <3>1, <3>2, <3>3, SendType DEF EnsurePending
  <2>5. CASE Section(r)
    <3>1. pc' \in [Run -> Location]
      BY <2>5, GotoType DEF Section, Location, Stopped, TypeOK
    <3>2. QED BY <2>5, <3>1, FactoryConstants DEF Section, TypeOK
  <2>6. CASE ProxyRecord(r)
    <3>1. pc' \in [Run -> Location]
      BY <2>6, GotoType DEF ProxyRecord, ReadRecord, Location, Stopped, TypeOK
    <3>2. idx' \in [Run -> Nat \ {0}]
      BY <2>6 DEF ProxyRecord, ReadRecord, TypeOK
    <3>3. QED BY <2>6, <3>1, <3>2 DEF ProxyRecord, ReadRecord, TypeOK
  <2>7. CASE NamedRecord(r)
    <3>1. pc' \in [Run -> Location]
      BY <2>7, GotoType DEF NamedRecord, ReadRecord, Location, Stopped, TypeOK
    <3>2. idx' \in [Run -> Nat \ {0}]
      BY <2>7 DEF NamedRecord, ReadRecord, TypeOK
    <3>3. QED BY <2>7, <3>1, <3>2 DEF NamedRecord, ReadRecord, TypeOK
  <2>8. CASE DeployImplementation(r)
    <3>1. TxOf(r, "impl", Now(r)) \in Tx
      BY <2>8, TxType, NowType DEF DeployImplementation, AtName
    <3>2. "building" \in Location
      BY DEF Location, Waiting
    <3>3. QED BY <2>8, <3>1, <3>2, SendType DEF DeployImplementation
  <2>9. CASE FetchNonce(r)
    <3>1. pc' \in [Run -> Location]
      BY <2>9, GotoType DEF FetchNonce, Location, Stopped, TypeOK
    <3>2. QED BY <2>9, <3>1, FactoryConstants DEF FetchNonce, TypeOK
  <2>10. CASE SendDeploy(r)
    <3>1. TxOf(r, "deploy", Now(r)) \in Tx
      BY <2>10, TxType, NowType DEF SendDeploy, AtName
    <3>2. pc' \in [Run -> Location]
      BY <2>10, GotoType DEF SendDeploy, Location, Waiting, Stopped
    <3>3. slot' \in Tx \cup {None}
      BY <2>10, <3>1 DEF SendDeploy, Accepts, Refuses, TypeOK
    <3>4. QED BY <2>10, <3>2, <3>3 DEF SendDeploy, TypeOK
  <2>11. CASE Reread(r)
    <3>1. pc' \in [Run -> Location]
      BY <2>11, GotoType DEF Reread, Location, Stopped, TypeOK
    <3>2. idx' \in [Run -> Nat \ {0}]
      BY <2>11 DEF Reread, TypeOK
    <3>3. QED BY <2>11, <3>1, <3>2 DEF Reread, TypeOK
  <2>12. CASE ConvergeOwner(r)
    <3>1. pc' \in [Run -> Location]
      BY <2>12, GotoType DEF ConvergeOwner, Location, Stopped, TypeOK
    <3>2. QED BY <2>12, <3>1, FactoryConstants DEF ConvergeOwner, TypeOK
  <2>13. CASE ConvergePending(r)
    <3>1. TxOf(r, "transfer", None) \in Tx
      BY <2>13, TxType
    <3>2. "transferring" \in Location
      BY DEF Location, Waiting
    <3>3. ASSUME Goto(r, "dev"), UNCHANGED <<chain, slot, fresh, local, failures, handbacks>>
          PROVE  TypeOK'
      BY <3>3, GotoType DEF TypeOK, Location, Stopped
    <3>4. QED BY <2>13, <3>1, <3>2, <3>3, SendType DEF ConvergePending
  <2>14. CASE DevAccept(r)
    <3>1. pc' \in [Run -> Location]
      BY <2>14, GotoType DEF DevAccept, Location, Stopped, TypeOK
    <3>2. QED BY <2>14, <3>1, FactoryConstants DEF DevAccept, TypeOK
  <2>15. CASE Abort(r)
    <3>1. pc' \in [Run -> Location]
      BY <2>15, GotoType DEF Abort, Location, Stopped, TypeOK
    <3>2. QED BY <2>15, <3>1, FactoryConstants DEF Abort, TypeOK
  <2>16. CASE Timeout(r)
    <3>1. pc' \in [Run -> Location]
      BY <2>16, GotoType DEF Timeout, Location, Stopped, TypeOK
    <3>2. QED BY <2>16, <3>1, FactoryConstants DEF Timeout, TypeOK
  <2>17. CASE Rerun(r)
    <3>1. pc' \in [Run -> Location]
      BY <2>17, GotoType DEF Rerun, Location, Stopped, TypeOK
    <3>2. idx' \in [Run -> Nat \ {0}]
      BY <2>17 DEF Rerun, TypeOK
    <3>3. seen' \in [Run -> SUBSET Name]
      BY <2>17 DEF Rerun, TypeOK
    <3>4. needs' \in [Run -> BOOLEAN]
      BY <2>17 DEF Rerun, TypeOK
    <3>5. QED BY <2>17, <3>1, <3>2, <3>3, <3>4 DEF Rerun, TypeOK
  <2> QED BY <1>6, <2>1, <2>2, <2>3, <2>4, <2>5, <2>6, <2>7, <2>8, <2>9, <2>10, <2>11, <2>12, <2>13, <2>14, <2>15, <2>16, <2>17 DEF Step
<1> QED BY <1>1, <1>2, <1>3, <1>4, <1>5, <1>6 DEF Next

\* Runs keep their place in the order.
LEMMA PositionStep == TypeOK /\ PositionOK /\ SlotOK /\ [Next]_vars => PositionOK'
<1> SUFFICES ASSUME TypeOK, PositionOK, SlotOK, [Next]_vars PROVE PositionOK'
  OBVIOUS
<1> USE DEF chain, local, Goto, PositionOK, AtName, Past
<1>1. CASE UNCHANGED vars
  BY <1>1 DEF vars, AtEnd
<1>2. CASE Mine
  BY <1>2 DEF Mine, SlotOK, Awaits, After, Outcomes, Waiting, TypeOK, Tx, AtEnd
<1>3. CASE Evict
  BY <1>3 DEF Evict, AtEnd
<1>4. CASE OwnerAccepts
  BY <1>4 DEF OwnerAccepts, AtEnd
<1>5. CASE OwnerHandsBack
  BY <1>5 DEF OwnerHandsBack, AtEnd
<1>6. ASSUME NEW r \in Run, Step(r) \/ Abort(r) \/ Timeout(r) \/ Rerun(r)
      PROVE  PositionOK'
  <2>1. CASE Install(r)
    BY <2>1 DEF Install, TypeOK, AtEnd
  <2>2. CASE ReadPresence(r)
    BY <2>2 DEF ReadPresence, TypeOK, AtEnd
  <2>3. CASE EnsureOwner(r)
    BY <2>3 DEF EnsureOwner, TypeOK, AtEnd
  <2>4. CASE EnsurePending(r)
    BY <2>4 DEF EnsurePending, TypeOK, Send, Accepts, Refuses, TxOf, AtEnd
  <2>5. CASE Section(r)
    <3>1. CASE AtEnd(r)
      BY <2>5, <3>1 DEF Section, TypeOK, AtEnd
    <3>2. CASE ~AtEnd(r) /\ UNCHANGED pc
      BY <2>5, <3>2 DEF Section, TypeOK, AtEnd
    <3>3. CASE ~AtEnd(r) /\ UNCHANGED idx
      <4>1. idx[r] \in DOMAIN Order[r]
        BY <3>3, FactoryConstants DEF AtEnd, TypeOK
      <4>2. pc' = [pc EXCEPT ![r] = IF Now(r) \in Bare THEN "named" ELSE "record"]
            \/ UNCHANGED pc
        BY <2>5, <3>3 DEF Section
      <4>3. QED BY <3>3, <4>1, <4>2 DEF TypeOK, AtEnd
    <3>4. QED BY <2>5, <3>1, <3>2, <3>3 DEF Section
  <2>6. CASE ProxyRecord(r)
    BY <2>6 DEF ProxyRecord, TypeOK, ReadRecord, AtEnd
  <2>7. CASE NamedRecord(r)
    BY <2>7 DEF NamedRecord, TypeOK, ReadRecord, AtEnd
  <2>8. CASE DeployImplementation(r)
    BY <2>8 DEF DeployImplementation, TypeOK, Send, Accepts, Refuses, TxOf, AtEnd
  <2>9. CASE FetchNonce(r)
    BY <2>9 DEF FetchNonce, TypeOK, AtEnd
  <2>10. CASE SendDeploy(r)
    BY <2>10 DEF SendDeploy, TypeOK, Accepts, Refuses, TxOf, AtEnd
  <2>11. CASE Reread(r)
    BY <2>11 DEF Reread, TypeOK, AtEnd
  <2>12. CASE ConvergeOwner(r)
    BY <2>12 DEF ConvergeOwner, TypeOK, AtEnd
  <2>13. CASE ConvergePending(r)
    BY <2>13 DEF ConvergePending, TypeOK, Send, Accepts, Refuses, TxOf, AtEnd
  <2>14. CASE DevAccept(r)
    BY <2>14 DEF DevAccept, TypeOK, AtEnd
  <2>15. CASE Abort(r)
    BY <2>15 DEF Abort, TypeOK, AtEnd
  <2>16. CASE Timeout(r)
    BY <2>16 DEF Timeout, TypeOK, AtEnd
  <2>17. CASE Rerun(r)
    BY <2>17 DEF Rerun, TypeOK, AtEnd
  <2> QED BY <1>6, <2>1, <2>2, <2>3, <2>4, <2>5, <2>6, <2>7, <2>8, <2>9, <2>10, <2>11, <2>12, <2>13, <2>14, <2>15, <2>16, <2>17 DEF Step
<1> QED BY <1>1, <1>2, <1>3, <1>4, <1>5, <1>6 DEF Next

\* A step of r that leaves the pool alone and does not make r wait.
LEMMA SlotKept ==
  ASSUME TypeOK, SlotOK, NEW r \in Run, slot' = slot, pc'[r] \notin Waiting,
         \A q \in Run \ {r} : pc'[q] = pc[q] /\ idx'[q] = idx[q]
  PROVE  SlotOK'
<1>1. SUFFICES ASSUME slot # None, pc'[slot.by] \in Waiting
               PROVE  /\ pc'[slot.by] = Awaits(slot.call)
                      /\ slot.call = "impl" => slot.name = Now(slot.by)'
  BY DEF SlotOK, Awaits
<1>2. slot.by \in Run \ {r}
  BY <1>1 DEF TypeOK, Tx
<1>3. QED BY <1>1, <1>2 DEF SlotOK, Now

\* A step of r that pools a call and waits for it.
LEMMA SlotSent ==
  ASSUME TypeOK, SlotOK, NEW r \in Run, NEW call, NEW name, Accepts(TxOf(r, call, name)),
         Goto(r, Awaits(call)), UNCHANGED idx, call = "impl" => name = Now(r)
  PROVE  SlotOK'
<1>1. slot'.by = r /\ slot'.call = call /\ slot'.name = name
  BY DEF Accepts, TxOf
<1>2. pc'[r] = Awaits(call)
  BY DEF Goto, TypeOK
<1>3. Now(r)' = Now(r)
  BY DEF Now
<1>4. QED BY <1>1, <1>2, <1>3 DEF SlotOK, Awaits

\* Runs only wait for the call they sent last.
LEMMA SlotStep == TypeOK /\ SlotOK /\ [Next]_vars => SlotOK'
<1> SUFFICES ASSUME TypeOK, SlotOK, [Next]_vars PROVE SlotOK'
  OBVIOUS
<1> USE DEF chain, local
<1>1. CASE UNCHANGED vars
  BY <1>1 DEF vars, SlotOK, Now, Awaits
<1>2. CASE Mine
  BY <1>2 DEF Mine, SlotOK
<1>3. CASE Evict
  BY <1>3 DEF Evict, SlotOK
<1>4. CASE OwnerAccepts
  BY <1>4 DEF OwnerAccepts, SlotOK, Now, Awaits
<1>5. CASE OwnerHandsBack
  BY <1>5 DEF OwnerHandsBack, SlotOK, Now, Awaits
<1>6. ASSUME NEW r \in Run, Step(r) \/ Abort(r) \/ Timeout(r) \/ Rerun(r)
      PROVE  SlotOK'
  <2>1. CASE Install(r)
    BY <2>1, SlotKept DEF Install, Goto, Waiting, TypeOK
  <2>2. CASE ReadPresence(r)
    BY <2>2, SlotKept DEF ReadPresence, Goto, Waiting, TypeOK
  <2>3. CASE EnsureOwner(r)
    BY <2>3, SlotKept DEF EnsureOwner, Goto, Waiting, TypeOK
  <2>4. CASE EnsurePending(r)
    <3>1. CASE Accepts(TxOf(r, "accept", None)) /\ Goto(r, Awaits("accept"))
      BY <2>4, <3>1, SlotSent DEF EnsurePending, Send
    <3>2. CASE slot' = slot /\ pc'[r] \notin Waiting
      BY <2>4, <3>2, SlotKept DEF EnsurePending, Send, Goto, TypeOK
    <3>3. QED BY <2>4, <3>1, <3>2 DEF EnsurePending, Send, Refuses, Awaits, Goto, Waiting, TypeOK
  <2>5. CASE Section(r)
    BY <2>5, SlotKept DEF Section, Goto, Waiting, TypeOK
  <2>6. CASE ProxyRecord(r)
    BY <2>6, SlotKept DEF ProxyRecord, ReadRecord, Goto, Waiting, TypeOK
  <2>7. CASE NamedRecord(r)
    BY <2>7, SlotKept DEF NamedRecord, ReadRecord, Goto, Waiting, TypeOK
  <2>8. CASE DeployImplementation(r)
    <3>1. CASE Accepts(TxOf(r, "impl", Now(r))) /\ Goto(r, Awaits("impl"))
      BY <2>8, <3>1, SlotSent DEF DeployImplementation, Send
    <3>2. CASE slot' = slot /\ pc'[r] \notin Waiting
      BY <2>8, <3>2, SlotKept DEF DeployImplementation, Send, Goto, TypeOK
    <3>3. QED BY <2>8, <3>1, <3>2 DEF DeployImplementation, Send, Refuses, Awaits, Goto, Waiting, TypeOK
  <2>9. CASE FetchNonce(r)
    BY <2>9, SlotKept DEF FetchNonce, Goto, Waiting, TypeOK
  <2>10. CASE SendDeploy(r)
    <3>1. CASE Accepts(TxOf(r, "deploy", Now(r))) /\ Goto(r, Awaits("deploy"))
      BY <2>10, <3>1, SlotSent DEF SendDeploy
    <3>2. CASE slot' = slot /\ pc'[r] \notin Waiting
      BY <2>10, <3>2, SlotKept DEF SendDeploy, Goto, TypeOK
    <3>3. QED BY <2>10, <3>1, <3>2 DEF SendDeploy, Refuses, Awaits, Goto, Waiting, TypeOK
  <2>11. CASE Reread(r)
    BY <2>11, SlotKept DEF Reread, Goto, Waiting, TypeOK
  <2>12. CASE ConvergeOwner(r)
    BY <2>12, SlotKept DEF ConvergeOwner, Goto, Waiting, TypeOK
  <2>13. CASE ConvergePending(r)
    <3>1. CASE Accepts(TxOf(r, "transfer", None)) /\ Goto(r, Awaits("transfer"))
      BY <2>13, <3>1, SlotSent DEF ConvergePending, Send
    <3>2. CASE slot' = slot /\ pc'[r] \notin Waiting
      BY <2>13, <3>2, SlotKept DEF ConvergePending, Send, Goto, TypeOK
    <3>3. QED BY <2>13, <3>1, <3>2 DEF ConvergePending, Send, Refuses, Awaits, Goto, Waiting, TypeOK
  <2>14. CASE DevAccept(r)
    BY <2>14, SlotKept DEF DevAccept, Goto, Waiting, TypeOK
  <2>15. CASE Abort(r)
    BY <2>15, SlotKept DEF Abort, Goto, Waiting, TypeOK
  <2>16. CASE Timeout(r)
    BY <2>16, SlotKept DEF Timeout, Goto, Waiting, TypeOK
  <2>17. CASE Rerun(r)
    BY <2>17, SlotKept DEF Rerun, Goto, Waiting, TypeOK
  <2> QED BY <1>6, <2>1, <2>2, <2>3, <2>4, <2>5, <2>6, <2>7, <2>8, <2>9, <2>10, <2>11, <2>12, <2>13, <2>14, <2>15, <2>16, <2>17 DEF Step
<1> QED BY <1>1, <1>2, <1>3, <1>4, <1>5, <1>6 DEF Next

\* A step of r over a name that has a record.
LEMMA Advance ==
  ASSUME TypeOK, ProgressOK, NEW r \in Run, pc[r] \in Going, Now(r) \in Deployed,
         idx' = [idx EXCEPT ![r] = @ + 1], UNCHANGED <<record, seen>>,
         \A q \in Run \ {r} : pc'[q] = pc[q]
  PROVE  ProgressOK'
<1>1. Deployed' = Deployed
  BY DEF Deployed
<1>2. SUFFICES ASSUME NEW q \in Run, pc'[q] \in Going,
                      NEW i \in DOMAIN Order[q], i < idx'[q]
               PROVE  Order[q][i] \in Deployed
  BY <1>1 DEF ProgressOK
<1>3. CASE q # r
  BY <1>2, <1>3 DEF ProgressOK, TypeOK
<1>4. CASE q = r
  <2>0. Order[r] \in Seq(Name) /\ i \in DOMAIN Order[r]
    BY <1>2, <1>4, FactoryConstants
  <2>1. i \in Nat /\ idx[r] \in Nat /\ idx'[r] = idx[r] + 1
    BY <2>0 DEF TypeOK
  <2>2. CASE i < idx[r]
    BY <1>4, <2>2 DEF ProgressOK
  <2>3. CASE i = idx[r]
    BY <1>4, <2>3 DEF Now
  <2>4. QED BY <1>2, <1>4, <2>1, <2>2, <2>3
<1>5. QED BY <1>3, <1>4

\* Records are never taken back, so what is behind a run stays deployed.
LEMMA ProgressStep == TypeOK /\ PositionOK /\ SlotOK /\ ProgressOK /\ [Next]_vars => ProgressOK'
<1> SUFFICES ASSUME TypeOK, PositionOK, SlotOK, ProgressOK, [Next]_vars PROVE ProgressOK'
  OBVIOUS
<1> USE DEF chain, local, Goto, ProgressOK, Going, AtName, Past
<1>1. CASE UNCHANGED vars
  BY <1>1 DEF vars, Deployed, Now, AtEnd
<1>2. CASE Mine
  <2>1. Deployed \subseteq Deployed'
    BY <1>2, FactoryConstants DEF Mine, Deployed, TypeOK, Tx
  <2>2. \A q \in Run : pc'[q] \in Going => pc[q] \in Going
    BY <1>2 DEF Mine, SlotOK, Awaits, After, Outcomes, Waiting, TypeOK, Tx
  <2>3. QED BY <1>2, <2>1, <2>2 DEF Mine
<1>3. CASE Evict
  BY <1>3 DEF Evict, Deployed, Now, AtEnd
<1>4. CASE OwnerAccepts
  BY <1>4 DEF OwnerAccepts, Deployed, Now, AtEnd
<1>5. CASE OwnerHandsBack
  BY <1>5 DEF OwnerHandsBack, Deployed, Now, AtEnd
<1>6. ASSUME NEW r \in Run, Step(r) \/ Abort(r) \/ Timeout(r) \/ Rerun(r)
      PROVE  ProgressOK'
  <2>1. CASE Install(r)
    BY <2>1 DEF Install, TypeOK, Deployed, Now, AtEnd
  <2>2. CASE ReadPresence(r)
    <3>1. Deployed' = Deployed
      BY <2>2 DEF ReadPresence, Deployed
    <3>2. \A q \in Run : seen'[q] \subseteq Deployed
      <4>1. CASE AtEnd(r)
        BY <2>2, <4>1 DEF ReadPresence
      <4>2. CASE ~AtEnd(r)
        BY <2>2, <4>2 DEF ReadPresence, TypeOK
      <4>3. QED BY <4>1, <4>2
    <3>3. ASSUME NEW q \in Run, pc'[q] \in Going,
                 NEW i \in DOMAIN Order[q], i < idx'[q]
          PROVE  Order[q][i] \in Deployed
      <4>1. CASE q # r
        <5>1. pc[q] \in Going /\ i < idx[q]
          BY <2>2, <3>3, <4>1 DEF ReadPresence, TypeOK
        <5>2. QED BY <5>1, <3>3
      <4>2. CASE q = r
        <5>1. AtEnd(r) /\ idx'[r] = 1
          BY <2>2, <3>3, <4>2 DEF ReadPresence, TypeOK
        <5>2. i \in Nat \ {0}
          BY <3>3, FactoryConstants
        <5>3. QED BY <3>3, <4>2, <5>1, <5>2
      <4>3. QED BY <4>1, <4>2
    <3>4. QED BY <3>1, <3>2, <3>3
  <2>3. CASE EnsureOwner(r)
    BY <2>3 DEF EnsureOwner, TypeOK, Deployed, Now, AtEnd
  <2>4. CASE EnsurePending(r)
    BY <2>4 DEF EnsurePending, TypeOK, Send, Accepts, Refuses, TxOf, Deployed, Now, AtEnd
  <2>5. CASE Section(r)
    <3>1. CASE UNCHANGED idx
      BY <2>5, <3>1 DEF Section, TypeOK, Deployed
    <3>2. CASE idx' = [idx EXCEPT ![r] = @ + 1]
      <4>1. Now(r) \in Deployed /\ pc' = pc
        BY <2>5, <3>2 DEF Section, TypeOK
      <4>2. QED BY <2>5, <3>2, <4>1, Advance DEF Section
    <3>3. QED BY <2>5, <3>1, <3>2 DEF Section
  <2>6. CASE ProxyRecord(r)
    <3>1. CASE Now(r) \in Deployed
      BY <2>6, <3>1, Advance DEF ProxyRecord, ReadRecord, TypeOK
    <3>2. CASE Now(r) \notin Deployed
      BY <2>6, <3>2 DEF ProxyRecord, ReadRecord, TypeOK, Deployed
    <3>3. QED BY <3>1, <3>2
  <2>7. CASE NamedRecord(r)
    <3>1. CASE Now(r) \in Deployed
      BY <2>7, <3>1, Advance DEF NamedRecord, ReadRecord, TypeOK
    <3>2. CASE Now(r) \notin Deployed
      BY <2>7, <3>2 DEF NamedRecord, ReadRecord, TypeOK, Deployed
    <3>3. QED BY <3>1, <3>2
  <2>8. CASE DeployImplementation(r)
    BY <2>8 DEF DeployImplementation, TypeOK, Send, Accepts, Refuses, TxOf, Deployed, Now, AtEnd
  <2>9. CASE FetchNonce(r)
    BY <2>9 DEF FetchNonce, TypeOK, Deployed, Now, AtEnd
  <2>10. CASE SendDeploy(r)
    BY <2>10 DEF SendDeploy, TypeOK, Accepts, Refuses, TxOf, Deployed, Now, AtEnd
  <2>11. CASE Reread(r)
    <3>1. CASE Now(r) \in Deployed
      BY <2>11, <3>1, Advance DEF Reread, TypeOK
    <3>2. CASE Now(r) \notin Deployed
      BY <2>11, <3>2 DEF Reread, TypeOK, Deployed
    <3>3. QED BY <3>1, <3>2
  <2>12. CASE ConvergeOwner(r)
    BY <2>12 DEF ConvergeOwner, TypeOK, Deployed, Now, AtEnd
  <2>13. CASE ConvergePending(r)
    BY <2>13 DEF ConvergePending, TypeOK, Send, Accepts, Refuses, TxOf, Deployed, Now, AtEnd
  <2>14. CASE DevAccept(r)
    BY <2>14 DEF DevAccept, TypeOK, Deployed, Now, AtEnd
  <2>15. CASE Abort(r)
    BY <2>15 DEF Abort, TypeOK, Deployed, Now, AtEnd
  <2>16. CASE Timeout(r)
    BY <2>16 DEF Timeout, TypeOK, Deployed, Now, AtEnd
  <2>17. CASE Rerun(r)
    BY <2>17 DEF Rerun, TypeOK, Deployed, Now, AtEnd
  <2> QED BY <1>6, <2>1, <2>2, <2>3, <2>4, <2>5, <2>6, <2>7, <2>8, <2>9, <2>10, <2>11, <2>12, <2>13, <2>14, <2>15, <2>16, <2>17 DEF Step
<1> QED BY <1>1, <1>2, <1>3, <1>4, <1>5, <1>6 DEF Next

\* The variables keep their types, for any number of runs and names.
THEOREM TypeCorrect == Spec => []TypeOK
<1>1. IInv /\ [Next]_vars => IInv'
  BY TypeStep, PositionStep, SlotStep, ProgressStep DEF IInv
<1>2. IInv => TypeOK
  BY DEF IInv
<1>3. QED BY InitIInv, <1>1, <1>2, PTL DEF Spec

\* A run ends well only past the last name of its order, and every name
\* behind it has a record although no receipt status was read.
THEOREM Success == Spec => []SuccessMeansDeployed
<1>1. IInv /\ [Next]_vars => IInv'
  BY TypeStep, PositionStep, SlotStep, ProgressStep DEF IInv
<1>2. IInv => SuccessMeansDeployed
  <2>1. SUFFICES ASSUME IInv, NEW r \in Run, pc[r] = "done", NEW i \in DOMAIN Order[r]
                 PROVE  Order[r][i] \in Deployed
    BY DEF SuccessMeansDeployed
  <2>2. i < idx[r]
    BY <2>1, FactoryConstants DEF IInv, PositionOK, Past, AtEnd, TypeOK
  <2>3. QED BY <2>1, <2>2 DEF IInv, ProgressOK, Going, Past
<1>3. QED BY InitIInv, <1>1, <1>2, PTL DEF Spec

-----------------------------------------------------------------------------
(***************************************************************************)
(* What the runs leave on the chain, whatever the pool does to their       *)
(* calls: nothing without the canary, and no proxy without an              *)
(* implementation its deploying run saw confirmed.                         *)
(***************************************************************************)

\* Without the standard derivation no run gets past its installation.
CanaryOK ==
  ~standard => /\ ~installed /\ slot = None /\ Deployed = {}
               /\ \A r \in Run : pc[r] \in {"install", "failed"}

\* A run that is to deploy a proxy has its implementation; so has the
\* sender of a pooled deploy, dead or alive; so has every proxy.
RunBuilt ==
  \A r \in Run : pc[r] \in {"named", "nonce", "send"} /\ Now(r) \notin Bare
                   => <<r, Now(r)>> \in built
SlotBuilt ==
  slot # None /\ slot.call = "deploy" /\ slot.name \notin Bare
    => <<slot.by, slot.name>> \in built
BuiltOK == RunBuilt /\ SlotBuilt /\ ProxyHasImplementation

\* FactoryProofs' invariant is inductive.
LEMMA IInvStep == IInv /\ [Next]_vars => IInv'
BY TypeStep, PositionStep, SlotStep, ProgressStep DEF IInv

\* The canary stays: a run that installs nothing sends nothing.
LEMMA CanaryStep == TypeOK /\ CanaryOK /\ [Next]_vars => CanaryOK'
<1> SUFFICES ASSUME TypeOK, CanaryOK, [Next]_vars, ~standard' PROVE CanaryOK'
  BY DEF CanaryOK
<1> USE DEF chain, local, Goto, TypeOK
<1>0. standard' = standard
  BY DEF Next, Step, vars, Mine, Evict, OwnerAccepts, OwnerHandsBack, Install, ReadPresence,
         EnsureOwner, EnsurePending, Section, ProxyRecord, NamedRecord, ReadRecord,
         DeployImplementation, FetchNonce, SendDeploy, Reread, ConvergeOwner,
         ConvergePending, DevAccept, Abort, Timeout, Rerun, Send
<1>1. /\ ~installed /\ slot = None /\ Deployed = {}
      /\ \A r \in Run : pc[r] \in {"install", "failed"}
  BY <1>0 DEF CanaryOK
<1>2. CASE UNCHANGED vars
  BY <1>1, <1>2 DEF vars, Deployed, CanaryOK
<1>3. CASE OwnerAccepts \/ OwnerHandsBack
  BY <1>1, <1>3 DEF OwnerAccepts, OwnerHandsBack, Deployed, CanaryOK
<1>4. ASSUME NEW r \in Run, Install(r) \/ Abort(r) \/ Rerun(r)
      PROVE  CanaryOK'
  BY <1>0, <1>1, <1>4 DEF Install, Abort, Rerun, Deployed, CanaryOK
<1>5. ~Mine /\ ~Evict
  BY <1>1 DEF Mine, Evict
<1>6. ASSUME NEW r \in Run, Step(r) \/ Timeout(r)
      PROVE  Install(r)
  <2>1. pc[r] \in {"install", "failed"}
    BY <1>1
  <2>2. ~Timeout(r)
    BY <2>1 DEF Timeout, Waiting
  <2>3. QED
    BY <1>6, <2>1, <2>2 DEF Step, ReadPresence, EnsureOwner, EnsurePending, Section,
       ProxyRecord, NamedRecord, ReadRecord, DeployImplementation, FetchNonce, SendDeploy,
       Reread, ConvergeOwner, ConvergePending, DevAccept
<1>7. QED BY <1>2, <1>3, <1>4, <1>5, <1>6 DEF Next

\* A step of r that mines nothing, keeps what is built, and comes to its
\* deploy only for a bare name or from the record before it.
LEMMA BuiltKept ==
  ASSUME TypeOK, BuiltOK, NEW r \in Run, UNCHANGED <<record, built>>,
         \A q \in Run \ {r} : pc'[q] = pc[q] /\ idx'[q] = idx[q],
         slot' = slot \/ slot'.call # "deploy",
         pc'[r] \in {"named", "nonce", "send"} =>
           idx'[r] = idx[r] /\ (Now(r) \in Bare \/ pc[r] \in {"named", "nonce", "send"})
  PROVE  BuiltOK'
<1>1. RunBuilt'
  BY DEF BuiltOK, RunBuilt, Now
<1>2. SlotBuilt'
  BY DEF BuiltOK, SlotBuilt
<1>3. ProxyHasImplementation'
  BY DEF BuiltOK, ProxyHasImplementation, Deployed
<1>4. QED BY <1>1, <1>2, <1>3 DEF BuiltOK

\* Every deploy that lands is of a proxy whose implementation was mined for
\* the run that sent it.
LEMMA BuiltStep == TypeOK /\ SlotOK /\ BuiltOK /\ [Next]_vars => BuiltOK'
<1> SUFFICES ASSUME TypeOK, SlotOK, BuiltOK, [Next]_vars PROVE BuiltOK'
  OBVIOUS
<1> USE DEF chain, local
<1>1. CASE UNCHANGED vars
  BY <1>1 DEF vars, BuiltOK, RunBuilt, SlotBuilt, ProxyHasImplementation, Deployed, Now
<1>2. CASE Mine
  <2>1. /\ slot # None /\ slot.by \in Run /\ slot' = None /\ idx' = idx
        /\ built \subseteq built'
        /\ slot.call = "impl" => <<slot.by, slot.name>> \in built'
    BY <1>2 DEF Mine, TypeOK, Tx
  <2>2. \A q \in Run : /\ pc'[q] = pc[q] \/ (q = slot.by /\ pc[q] = Awaits(slot.call))
                       /\ pc'[q] = "named" /\ pc[q] # "named" => slot.call = "impl"
                       /\ pc'[q] \in {"nonce", "send"} => pc'[q] = pc[q]
    BY <1>2, <2>1 DEF Mine, Goto, Outcomes, After, SlotOK, TypeOK, Tx
  <2>3. RunBuilt'
    <3>1. SUFFICES ASSUME NEW q \in Run, pc'[q] \in {"named", "nonce", "send"},
                          Now(q) \notin Bare
                   PROVE  <<q, Now(q)>> \in built'
      BY <2>1 DEF RunBuilt, Now
    <3>2. CASE pc'[q] = pc[q]
      BY <2>1, <3>1, <3>2 DEF BuiltOK, RunBuilt
    <3>3. CASE pc'[q] # pc[q]
      <4>1. q = slot.by /\ slot.call = "impl" /\ pc[q] = "building"
        BY <2>2, <3>1, <3>3 DEF Awaits
      <4>2. slot.name = Now(q)
        BY <2>1, <4>1 DEF SlotOK, Waiting
      <4>3. QED BY <2>1, <4>1, <4>2
    <3>4. QED BY <3>2, <3>3
  <2>4. ProxyHasImplementation'
    <3>1. SUFFICES ASSUME NEW n \in Name, record'[n] # None, n \notin Bare
                   PROVE  <<record'[n], n>> \in built'
      BY DEF ProxyHasImplementation, Deployed
    <3>2. CASE record'[n] = record[n]
      BY <2>1, <3>1, <3>2 DEF BuiltOK, ProxyHasImplementation, Deployed
    <3>3. CASE record'[n] # record[n]
      <4>1. slot.call = "deploy" /\ slot.name = n /\ record'[n] = slot.by
        BY <1>2, <3>3 DEF Mine, TypeOK
      <4>2. QED BY <2>1, <3>1, <4>1 DEF BuiltOK, SlotBuilt
    <3>4. QED BY <3>2, <3>3
  <2>5. QED BY <2>1, <2>3, <2>4 DEF BuiltOK, SlotBuilt
<1>3. CASE Evict \/ OwnerAccepts \/ OwnerHandsBack
  BY <1>3 DEF Evict, OwnerAccepts, OwnerHandsBack, BuiltOK, RunBuilt, SlotBuilt,
              ProxyHasImplementation, Deployed, Now
<1>4. ASSUME NEW r \in Run, Step(r) \/ Abort(r) \/ Timeout(r) \/ Rerun(r)
      PROVE  BuiltOK'
  <2>1. CASE Install(r)
    BY <2>1, BuiltKept DEF Install, Goto, TypeOK
  <2>2. CASE ReadPresence(r)
    BY <2>2, BuiltKept DEF ReadPresence, Goto, TypeOK
  <2>3. CASE EnsureOwner(r)
    BY <2>3, BuiltKept DEF EnsureOwner, Goto, TypeOK
  <2>4. CASE EnsurePending(r)
    BY <2>4, BuiltKept DEF EnsurePending, Send, Accepts, Refuses, TxOf, Goto, TypeOK
  <2>5. CASE Section(r)
    BY <2>5, BuiltKept DEF Section, Goto, TypeOK
  <2>6. CASE ProxyRecord(r)
    BY <2>6, BuiltKept DEF ProxyRecord, ReadRecord, Goto, TypeOK
  <2>7. CASE NamedRecord(r)
    BY <2>7, BuiltKept DEF NamedRecord, ReadRecord, Goto, TypeOK
  <2>8. CASE DeployImplementation(r)
    BY <2>8, BuiltKept DEF DeployImplementation, Send, Accepts, Refuses, TxOf, Goto, TypeOK
  <2>9. CASE FetchNonce(r)
    BY <2>9, BuiltKept DEF FetchNonce, Goto, TypeOK
  <2>10. CASE SendDeploy(r)
    <3>1. CASE Accepts(TxOf(r, "deploy", Now(r))) /\ Goto(r, "deploying")
      <4>1. slot'.by = r /\ slot'.name = Now(r) /\ UNCHANGED <<record, built, idx>>
        BY <2>10, <3>1 DEF SendDeploy, Accepts, TxOf
      <4>2. \A q \in Run : pc'[q] = IF q = r THEN "deploying" ELSE pc[q]
        BY <3>1 DEF Goto, TypeOK
      <4>3. pc[r] = "send"
        BY <2>10 DEF SendDeploy
      <4>4. RunBuilt'
        BY <4>1, <4>2 DEF BuiltOK, RunBuilt, Now
      <4>5. SlotBuilt'
        BY <4>1, <4>3 DEF BuiltOK, RunBuilt, SlotBuilt
      <4>6. QED BY <4>1, <4>4, <4>5 DEF BuiltOK, ProxyHasImplementation, Deployed
    <3>2. CASE slot' = slot /\ Goto(r, "failed")
      BY <2>10, <3>2, BuiltKept DEF SendDeploy, Goto, TypeOK
    <3>3. QED BY <2>10, <3>1, <3>2 DEF SendDeploy, Refuses
  <2>11. CASE Reread(r)
    BY <2>11, BuiltKept DEF Reread, Goto, TypeOK
  <2>12. CASE ConvergeOwner(r)
    BY <2>12, BuiltKept DEF ConvergeOwner, Goto, TypeOK
  <2>13. CASE ConvergePending(r)
    BY <2>13, BuiltKept DEF ConvergePending, Send, Accepts, Refuses, TxOf, Goto, TypeOK
  <2>14. CASE DevAccept(r)
    BY <2>14, BuiltKept DEF DevAccept, Goto, TypeOK
  <2>15. CASE Abort(r) \/ Timeout(r) \/ Rerun(r)
    BY <2>15, BuiltKept DEF Abort, Timeout, Rerun, Goto, TypeOK
  <2>16. QED
    BY <1>4, <2>1, <2>2, <2>3, <2>4, <2>5, <2>6, <2>7, <2>8, <2>9, <2>10, <2>11, <2>12,
       <2>13, <2>14, <2>15 DEF Step
<1>5. QED BY <1>1, <1>2, <1>3, <1>4 DEF Next

\* On a chain with another CREATE2 derivation no run ever sends a call
\* through the factory, however many times and by whomever apply is run.
THEOREM Canary == Spec => []CanaryHolds
<1>1. Init => CanaryOK
  BY DEF Init, CanaryOK, Deployed
<1>2. IInv /\ CanaryOK /\ [Next]_vars => CanaryOK'
  BY CanaryStep DEF IInv
<1>3. CanaryOK => CanaryHolds
  BY DEF CanaryOK, CanaryHolds
<1>4. QED BY InitIInv, IInvStep, <1>1, <1>2, <1>3, PTL DEF Spec

\* Every entry proxy points at an implementation the run that deployed it
\* saw confirmed, although runs replace, drop and outlive each other's
\* calls.
THEOREM Implementation == Spec => []ProxyHasImplementation
<1>1. Init => BuiltOK
  BY DEF Init, BuiltOK, RunBuilt, SlotBuilt, ProxyHasImplementation, Deployed
<1>2. IInv /\ BuiltOK /\ [Next]_vars => BuiltOK'
  BY BuiltStep DEF IInv
<1>3. BuiltOK => ProxyHasImplementation
  BY DEF BuiltOK
<1>4. QED BY InitIInv, IInvStep, <1>1, <1>2, <1>3, PTL DEF Spec


-----------------------------------------------------------------------------
(***************************************************************************)
(* Who is left with the factory.  No run is done while the factory is the  *)
(* deployer's and no hand-over is under way, as long as no run died.       *)
(***************************************************************************)

Declared == {Desired[r] : r \in Run}

\* As long as no run died and no call was dropped, the sender of the pooled
\* call is alive and waits for it.
AliveOK == failures = 0 /\ slot # None => pc[slot.by] = Awaits(slot.call)

\* Only the deployer and declared owners ever own the factory, or are
\* offered it, and before the installation nobody is.
OwnersOK ==
  /\ installed => owner \in Declared \cup {Deployer}
  /\ pending \in Declared \cup {None, Deployer}
  /\ slot # None => slot.to \in Declared
  /\ ~installed => /\ owner = None /\ pending = None
                   /\ \A r \in Run : pc[r] \in {"install", "failed"}

\* While the deployer has the factory and nobody declared is offered it,
\* some run has its hand-over still before it.
TaskOK ==
  failures = 0 /\ owner = Deployer /\ Deployer \notin Declared /\ pending \notin Declared
    => \E r \in Run : pc[r] \notin {"done", "dev"}

\* A step of r that leaves the pool alone keeps its sender waiting, unless
\* r is that sender.
LEMMA AliveKept ==
  ASSUME TypeOK, AliveOK, NEW r \in Run, slot' = slot, failures' = failures,
         slot # None /\ failures = 0 => pc[r] # Awaits(slot.call) \/ slot.by # r,
         \A q \in Run \ {r} : pc'[q] = pc[q]
  PROVE  AliveOK'
BY DEF AliveOK, TypeOK, Tx

\* A refused call leaves the pool alone, an accepted one has a sender that
\* waits for it.
LEMMA AliveSent ==
  ASSUME TypeOK, AliveOK, NEW r \in Run, NEW t \in Tx, t.by = r,
         pc[r] \notin Waiting, Send(r, t, Awaits(t.call))
  PROVE  AliveOK'
<1>1. CASE slot' = t /\ Goto(r, Awaits(t.call))
  BY <1>1 DEF AliveOK, Goto, TypeOK
<1>2. CASE slot' = slot /\ Goto(r, "failed")
  <2>1. slot # None => Awaits(slot.call) \in Waiting
    BY DEF Awaits, Waiting, Tx, TypeOK
  <2>2. QED BY <1>2, <2>1, AliveKept DEF Send, Goto, TypeOK
<1>3. QED BY <1>1, <1>2 DEF Send, Accepts, Refuses

\* What a step does to the pool and the runs keeps the sender waiting.
LEMMA AliveStep == TypeOK /\ PositionOK /\ AliveOK /\ [Next]_vars => AliveOK'
<1> SUFFICES ASSUME TypeOK, PositionOK, AliveOK, [Next]_vars PROVE AliveOK'
  OBVIOUS
<1> USE DEF chain, local
<1>0. slot # None => Awaits(slot.call) \in Waiting
  BY DEF Awaits, Waiting, Tx, TypeOK
<1>1. CASE UNCHANGED vars
  BY <1>1 DEF vars, AliveOK
<1>2. CASE Mine \/ Evict
  BY <1>2 DEF Mine, Evict, AliveOK
<1>3. CASE OwnerAccepts \/ OwnerHandsBack
  BY <1>3 DEF OwnerAccepts, OwnerHandsBack, AliveOK
<1>4. ASSUME NEW r \in Run, Step(r) \/ Abort(r) \/ Timeout(r) \/ Rerun(r)
      PROVE  AliveOK'
  <2>1. CASE \/ Install(r) \/ ReadPresence(r) \/ EnsureOwner(r) \/ Section(r)
             \/ ProxyRecord(r) \/ NamedRecord(r) \/ FetchNonce(r) \/ Reread(r)
             \/ ConvergeOwner(r) \/ DevAccept(r) \/ Rerun(r)
    <3>1. pc[r] \notin Waiting /\ slot' = slot /\ failures' = failures
      BY <2>1 DEF Install, ReadPresence, EnsureOwner, Section, ProxyRecord, NamedRecord,
         ReadRecord, FetchNonce, Reread, ConvergeOwner, DevAccept, Rerun, Waiting
    <3>2. \A q \in Run \ {r} : pc'[q] = pc[q]
      BY <2>1 DEF Install, ReadPresence, EnsureOwner, Section, ProxyRecord, NamedRecord,
         ReadRecord, FetchNonce, Reread, ConvergeOwner, DevAccept, Rerun, Goto, TypeOK
    <3>3. QED BY <1>0, <3>1, <3>2, AliveKept
  <2>2. CASE EnsurePending(r)
    <3>1. CASE pending = Deployer
      BY <2>2, <3>1, AliveSent, TxType DEF EnsurePending, TxOf, Awaits, Waiting
    <3>2. CASE pending # Deployer
      BY <1>0, <2>2, <3>2, AliveKept DEF EnsurePending, Goto, TypeOK, Waiting
    <3>3. QED BY <3>1, <3>2
  <2>3. CASE DeployImplementation(r)
    BY <2>3, AliveSent, TxType, NowType DEF DeployImplementation, TxOf, Awaits, Waiting, AtName
  <2>4. CASE ConvergePending(r)
    <3>1. CASE pending # Desired[r]
      BY <2>4, <3>1, AliveSent, TxType DEF ConvergePending, TxOf, Awaits, Waiting
    <3>2. CASE pending = Desired[r]
      BY <1>0, <2>4, <3>2, AliveKept DEF ConvergePending, Goto, TypeOK, Waiting
    <3>3. QED BY <3>1, <3>2
  <2>5. CASE SendDeploy(r)
    <3>1. pc[r] \notin Waiting /\ failures' = failures
      BY <2>5 DEF SendDeploy, Waiting
    <3>2. CASE slot' = TxOf(r, "deploy", Now(r)) /\ Goto(r, "deploying")
      BY <3>2 DEF AliveOK, TxOf, Awaits, Goto, TypeOK
    <3>3. CASE slot' = slot /\ Goto(r, "failed")
      BY <1>0, <3>1, <3>3, AliveKept DEF Goto, TypeOK
    <3>4. QED BY <2>5, <3>2, <3>3 DEF SendDeploy, Accepts, Refuses
  <2>6. CASE Abort(r)
    BY <2>6, FactoryConstants DEF Abort, AliveOK, TypeOK
  <2>7. CASE Timeout(r)
    BY <2>7, AliveKept DEF Timeout, Goto, TypeOK, Tx
  <2>8. QED BY <1>4, <2>1, <2>2, <2>3, <2>4, <2>5, <2>6, <2>7 DEF Step
<1>5. QED BY <1>1, <1>2, <1>3, <1>4 DEF Next

\* The factory goes round among the deployer and the declared owners.
LEMMA OwnersStep == TypeOK /\ OwnersOK /\ [Next]_vars => OwnersOK'
<1> SUFFICES ASSUME TypeOK, OwnersOK, [Next]_vars PROVE OwnersOK'
  OBVIOUS
<1> USE DEF chain, local, OwnersOK
<1>0. Deployer # None /\ None \notin Declared
  BY FactoryConstants DEF Declared
<1>1. CASE UNCHANGED vars
  BY <1>1 DEF vars
<1>2. CASE Mine
  BY <1>0, <1>2 DEF Mine, Succeeds, Goto, Outcomes, Waiting, TypeOK, Tx
<1>3. CASE Evict
  BY <1>3 DEF Evict
<1>4. CASE OwnerAccepts \/ OwnerHandsBack
  BY <1>0, <1>4, FactoryConstants DEF OwnerAccepts, OwnerHandsBack, TypeOK
<1>5. ASSUME NEW r \in Run, Step(r) \/ Abort(r) \/ Timeout(r) \/ Rerun(r)
      PROVE  OwnersOK'
  <2>1. Desired[r] \in Declared
    BY DEF Declared
  <2>2. CASE Install(r)
    BY <1>0, <2>2 DEF Install, Goto, TypeOK
  <2>3. CASE DevAccept(r)
    BY <1>0, <2>1, <2>3 DEF DevAccept, Goto, TypeOK
  <2>4. CASE Abort(r) \/ Rerun(r)
    BY <2>4 DEF Abort, Rerun, Goto, TypeOK
  <2>5. CASE ~Install(r) /\ ~DevAccept(r) /\ ~Abort(r) /\ ~Rerun(r)
    <3>1. UNCHANGED <<installed, owner, pending>>
      BY <1>5, <2>5 DEF Step, ReadPresence, EnsureOwner, EnsurePending, Section, ProxyRecord,
         NamedRecord, ReadRecord, DeployImplementation, FetchNonce, SendDeploy, Reread,
         ConvergeOwner, ConvergePending, Timeout, Send
    <3>2. pc[r] \notin {"install", "failed"}
      BY <1>5, <2>5 DEF Step, ReadPresence, EnsureOwner, EnsurePending, Section, ProxyRecord,
         NamedRecord, ReadRecord, DeployImplementation, FetchNonce, SendDeploy, Reread,
         ConvergeOwner, ConvergePending, Timeout, Waiting
    <3>3. slot' = slot \/ slot'.to = Desired[r]
      BY <1>5, <2>5 DEF Step, ReadPresence, EnsureOwner, EnsurePending, Section, ProxyRecord,
         NamedRecord, ReadRecord, DeployImplementation, FetchNonce, SendDeploy, Reread,
         ConvergeOwner, ConvergePending, Timeout, Send, Accepts, Refuses, TxOf
    <3>4. installed
      BY <3>2
    <3>5. QED BY <2>1, <3>1, <3>3, <3>4
  <2>6. QED BY <2>2, <2>3, <2>4, <2>5
<1>6. QED BY <1>1, <1>2, <1>3, <1>4, <1>5 DEF Next

\* A run with the hand-over before it gets behind it only by making it.
LEMMA TaskStep ==
  TypeOK /\ SlotOK /\ AliveOK /\ OwnersOK /\ TaskOK /\ [Next]_vars => TaskOK'
<1> SUFFICES ASSUME TypeOK, SlotOK, AliveOK, OwnersOK, TaskOK, [Next]_vars,
                    failures' = 0, owner' = Deployer, Deployer \notin Declared,
                    pending' \notin Declared
             PROVE  \E r \in Run : pc'[r] \notin {"done", "dev"}
  BY DEF TaskOK
<1> USE DEF chain, local
<1>0. /\ Deployer # None /\ None \notin Declared
      /\ \A r \in Run : Desired[r] \in Declared
  BY FactoryConstants DEF Declared
<1>1. CASE UNCHANGED vars
  BY <1>1 DEF vars, TaskOK
<1>2. CASE Mine
  <2>1. failures = 0 /\ slot # None /\ slot.by \in Run /\ slot.to \in Declared
    BY <1>2 DEF Mine, OwnersOK, TypeOK, Tx
  <2>2. pc[slot.by] = Awaits(slot.call) /\ pc[slot.by] \in Waiting
    BY <2>1 DEF AliveOK, Awaits, Waiting, TypeOK, Tx
  <2>3. CASE slot.call = "transfer"
    <3>1. owner = Deployer
      BY <1>2, <2>3 DEF Mine
    <3>2. pending' = slot.to
      BY <1>2, <2>3, <3>1 DEF Mine, Succeeds
    <3>3. QED BY <2>1, <3>2
  <2>4. CASE slot.call # "transfer"
    <3>1. slot.call \in {"impl", "deploy", "accept"}
      BY <2>1, <2>4 DEF TypeOK, Tx
    <3>2. \E l \in {"named", "reread", "section", "failed"} : Goto(slot.by, l)
      BY <1>2, <2>2, <3>1 DEF Mine, Outcomes, After
    <3>3. pc'[slot.by] \in {"named", "reread", "section", "failed"}
      BY <2>1, <3>2 DEF Goto, TypeOK
    <3>4. QED BY <2>1, <3>3
  <2>5. QED BY <2>3, <2>4
<1>3. CASE Evict
  BY <1>3, FactoryConstants DEF Evict, TypeOK
<1>4. CASE OwnerAccepts
  BY <1>4 DEF OwnerAccepts
<1>5. CASE OwnerHandsBack
  BY <1>5 DEF OwnerHandsBack
<1>6. ASSUME NEW r \in Run, Step(r) \/ Abort(r) \/ Timeout(r) \/ Rerun(r)
      PROVE  \E q \in Run : pc'[q] \notin {"done", "dev"}
  <2>1. SUFFICES ASSUME pc'[r] \in {"done", "dev"}
                 PROVE  \E q \in Run : pc'[q] \notin {"done", "dev"}
    BY <1>6
  <2>2. ~Abort(r) /\ ~Timeout(r) /\ ~Rerun(r)
    BY <2>1 DEF Abort, Timeout, Rerun, Goto, TypeOK
  <2>3. CASE DevAccept(r)
    <3>1. owner' = owner /\ pending' = pending /\ failures' = failures /\ pc[r] = "dev"
      BY <1>0, <2>3 DEF DevAccept
    <3>2. \A q \in Run \ {r} : pc'[q] = pc[q]
      BY <2>3 DEF DevAccept, Goto, TypeOK
    <3>3. QED BY <3>1, <3>2 DEF TaskOK
  <2>4. CASE ConvergeOwner(r)
    <3>1. owner = Deployer
      BY <2>4 DEF ConvergeOwner
    <3>2. Goto(r, "convergePending")
      BY <1>0, <2>4, <3>1 DEF ConvergeOwner
    <3>3. QED BY <2>1, <3>2 DEF Goto, TypeOK
  <2>5. CASE ConvergePending(r)
    <3>1. pending # Desired[r]
      BY <1>0, <2>5 DEF ConvergePending, Send, Goto
    <3>2. QED BY <2>1, <2>5, <3>1 DEF ConvergePending, Send, Goto, TypeOK
  <2>6. CASE ReadPresence(r)
    BY <2>1, <2>6 DEF ReadPresence, Goto, TypeOK
  <2>7. CASE Section(r)
    BY <2>1, <2>7 DEF Section, Goto, TypeOK
  <2>8. CASE Install(r) \/ EnsureOwner(r) \/ FetchNonce(r) \/ SendDeploy(r)
    BY <2>1, <2>8 DEF Install, EnsureOwner, FetchNonce, SendDeploy, Goto, TypeOK
  <2>9. CASE EnsurePending(r) \/ DeployImplementation(r)
    BY <2>1, <2>9 DEF EnsurePending, DeployImplementation, Send, Goto, TypeOK
  <2>10. CASE ProxyRecord(r) \/ NamedRecord(r) \/ Reread(r)
    BY <2>1, <2>10 DEF ProxyRecord, NamedRecord, ReadRecord, Reread, Goto, TypeOK
  <2>11. QED
    BY <1>6, <2>2, <2>3, <2>4, <2>5, <2>6, <2>7, <2>8, <2>9, <2>10 DEF Step
<1>7. QED BY <1>1, <1>2, <1>3, <1>4, <1>5, <1>6 DEF Next

\* However the runs take the factory over from each other and whoever hands
\* it back in between, once all have ended well and none of them died it
\* is not left with the deployer when a declared owner awaits it.
THEOREM HandOver == ASSUME Run # {} PROVE Spec => []HandedOver
<1> DEFINE Hands == AliveOK /\ OwnersOK /\ TaskOK
<1>1. Init => Hands
  BY FactoryConstants DEF Init, AliveOK, OwnersOK, TaskOK
<1>2. IInv /\ Hands /\ [Next]_vars => Hands'
  BY AliveStep, OwnersStep, TaskStep DEF IInv
<1>3. Hands => HandedOver
  <2>1. SUFFICES ASSUME Hands, failures = 0, slot = None, \A r \in Run : pc[r] = "done"
                 PROVE  \E r \in Run : OwnerLine(Desired[r]) = "ok" \/ pending = Desired[r]
    BY DEF HandedOver
  <2>2. installed
    BY <2>1 DEF OwnersOK
  <2>3. CASE owner \in Declared
    BY <2>3 DEF Declared, OwnerLine
  <2>4. CASE owner \notin Declared
    <3>1. owner = Deployer
      BY <2>1, <2>2, <2>4 DEF OwnersOK
    <3>2. pending \in Declared
      BY <2>1, <2>4, <3>1 DEF TaskOK
    <3>3. QED BY <3>2 DEF Declared
  <2>5. QED BY <2>3, <2>4
<1> HIDE DEF Hands
<1>4. QED BY InitIInv, IInvStep, <1>1, <1>2, <1>3, PTL DEF Spec
=============================================================================
