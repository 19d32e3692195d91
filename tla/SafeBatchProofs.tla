--------------------------- MODULE SafeBatchProofs ---------------------------
(***************************************************************************)
(* The batch on its own list, for any owners, starts and declared sets.    *)
(***************************************************************************)
EXTENDS SafeBatch, OwnersProofs

\* The calls still to run lead from the Safe's set to the declared one.
OnTheWay == Leads(set, calls, target)

IInv == target \in ValidSet /\ OnTheWay /\ refused = FALSE

\* calls_to leads from the set it read.
LEMMA InitIInv == Init => IInv
<1> SUFFICES ASSUME Init PROVE IInv
  OBVIOUS
<1>1. Proper(target) /\ Proper(set)
  BY StartsValid, Valid DEF Init
<1>2. QED BY <1>1, CallsLead DEF Init, IInv, OnTheWay

\* What the invariant says of the calls still to run.
LEMMA Facts ==
  ASSUME IInv
  PROVE  /\ Proper(target) /\ Proper(set)
         /\ calls \in Seq(CallType)
         /\ calls = <<>> <=> SameAs(set, target)
         /\ Len(calls) <= Left(set, target)
         /\ calls # <<>> => /\ Moves(set, Head(calls), target)
                            /\ Leads(Run(set, Head(calls)), Tail(calls), target)
<1>1. Proper(target) /\ Leads(set, calls, target)
  BY Valid DEF IInv, OnTheWay
<1>2. QED BY <1>1, LeadsOn

\* A call is taken, and moves the set on.
LEMMA Taken ==
  ASSUME IInv, Execute
  PROVE  /\ calls # <<>>
         /\ Moves(set, Head(calls), target)
         /\ Leads(Run(set, Head(calls)), Tail(calls), target)
         /\ set' = Run(set, Head(calls)) /\ calls' = Tail(calls)
         /\ UNCHANGED <<refused, target>>
<1>1. calls # <<>>
  BY DEF Execute
<1>2. /\ Moves(set, Head(calls), target)
      /\ Leads(Run(set, Head(calls)), Tail(calls), target)
  BY <1>1, Facts
<1>3. Takes(set, Head(calls))
  BY <1>2 DEF Moves
<1>4. QED BY <1>1, <1>2, <1>3 DEF Execute

\* A call that runs leaves the rest leading on.
LEMMA StepIInv == IInv /\ [Next]_vars => IInv'
<1> SUFFICES ASSUME IInv, [Next]_vars PROVE IInv'
  OBVIOUS
<1>1. CASE Next
  <2>1. /\ Leads(Run(set, Head(calls)), Tail(calls), target)
        /\ set' = Run(set, Head(calls)) /\ calls' = Tail(calls)
        /\ UNCHANGED <<refused, target>>
    BY <1>1, Taken DEF Next
  <2>2. Leads(set', calls', target')
    BY <2>1
  <2>3. QED BY <2>1, <2>2 DEF IInv, OnTheWay
<1>2. CASE UNCHANGED vars
  BY <1>2 DEF vars, IInv, OnTheWay
<1>3. QED BY <1>1, <1>2

\* So it holds in every reachable state.
LEMMA Inductive == Spec => []IInv
BY InitIInv, StepIInv, PTL DEF Spec

\* The batch runs over sets a Safe may hold, with calls of the three kinds
\* under thresholds that some set can meet.
THEOREM TypeCorrect == Spec => []TypeOK
<1>1. IInv => TypeOK
  BY Facts DEF IInv, TypeOK, Proper
<1>2. QED BY <1>1, Inductive, PTL

\* No call that calls_to builds is refused: not by the owner it adds or
\* removes, not by the one it names before that, not by its threshold.
THEOREM OrderIsRight == Spec => []NeverRefused
<1>1. IInv => NeverRefused
  BY DEF IInv, NeverRefused
<1>2. QED BY <1>1, Inductive, PTL

\* The batch is through exactly where the Safe holds what the file declares.
THEOREM Converges == Spec => []BatchConverges
<1>1. IInv => BatchConverges
  BY Facts DEF BatchConverges
<1>2. QED BY <1>1, Inductive, PTL

\* It needs no more calls than owners that differ, and one.
THEOREM NoneWasted == Spec => []NoWastedCall
<1>1. IInv => NoWastedCall
  <2> SUFFICES ASSUME IInv PROVE NoWastedCall
    OBVIOUS
  <2> DEFINE n == Len(calls)
             most == Len(set.owners) + Len(target.owners)
                     - 2 * Cardinality(ToSet(set.owners) \cap ToSet(target.owners)) + 1
  <2>1. n <= Left(set, target) /\ n \in Nat
    BY Facts, LenProperties
  <2>2. Left(set, target) <= most /\ Left(set, target) \in Nat
    BY Facts, LeftNat
  <2>3. most \in Int
    <3> DEFINE a == Len(set.owners)
               b == Len(target.owners)
               c == Cardinality(ToSet(set.owners) \cap ToSet(target.owners))
    <3>1. a \in Nat /\ b \in Nat
      BY Facts, Bounds
    <3>2. IsFiniteSet(ToSet(set.owners))
      BY Facts, Counted DEF Proper, OwnerSet
    <3>3. c \in Nat
      BY <3>2, FS_Intersection, FS_CardinalityType
    <3> HIDE DEF a, b, c
    <3>4. a + b - 2 * c + 1 \in Int
      BY <3>1, <3>3
    <3>5. QED BY <3>4 DEF a, b, c
  <2> HIDE DEF n, most
  <2>4. n <= most
    BY <2>1, <2>2, <2>3
  <2>5. QED BY <2>4 DEF n, most, NoWastedCall
<1>2. QED BY <1>1, Inductive, PTL

\* No owner that stays is taken out on the way.
THEOREM Shared == Spec => KeepsShared
<1>1. IInv /\ [Next]_vars
        => [ToSet(set.owners) \cap ToSet(target.owners) \subseteq ToSet(set'.owners)]_vars
  BY Taken DEF Next, Moves
<1>2. QED BY <1>1, Inductive, PTL DEF Spec, KeepsShared
=============================================================================
