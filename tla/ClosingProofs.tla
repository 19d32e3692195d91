--------------------------- MODULE ClosingProofs ---------------------------
(***************************************************************************)
(* One declared Safe and what the file names it for, for any runs, owners  *)
(* and files, and any number of runs that die and changes of its owners.   *)
(***************************************************************************)
EXTENDS Closing, OwnersProofs

\* The Safe holds what the file declares.
Given == safe # None /\ SameAs(safe, declared)

\* What a run may assemble from two reads: owners of one set, the threshold
\* of another.
Torn(c) == c \in OwnerSet /\ IsInjective(c.owners) /\ Len(c.owners) >= 1

There   == {"owners", "threshold", "decide", "exec", "ownersAgain", "thresholdAgain",
            "compare", "same", "reported", "set"}
Between == {"threshold", "thresholdAgain"}
Through == {"same", "reported", "set"}

\* What a run knows of the Safe.  Unless its owners changed it, that is the
\* set the Safe was created with, or the Safe holds the declared one by now.
ProcOK(r) ==
  /\ pc[r] \notin {"contracts", "failed"} => canonical
  /\ pc[r] \in There => safe # None
  /\ pc[r] \in Between =>
       first[r] \in ValidSet /\ (changes = 0 => first[r] = Bootstrap \/ Given)
  /\ pc[r] \in {"decide", "exec", "compare"} =>
       Torn(current[r]) /\ (changes = 0 => current[r] = Bootstrap \/ Given)
  /\ pc[r] = "exec" =>
       ~SameAs(current[r], declared) /\ SignsAlone(current[r], Deployer)
  /\ pc[r] \in Through => (changes = 0 => Given)

Typed == TypeOK /\ current \in [Proc -> OwnerSet \cup {None}]

SafeInv == Typed /\ HandedOverWhole /\ \A r \in Proc : ProcOK(r)

\* A run that dies of its own transaction.
GivesUp(r) == /\ pc' = [pc EXCEPT ![r] = "failed"]
              /\ UNCHANGED <<canonical, declared, safe, first, current, aborts, changes>>

\* The set a Safe is created with is one the deployer signs alone.
LEMMA Created == Proper(Bootstrap) /\ Bootstrap # None /\ SignsAlone(Bootstrap, Deployer)
<1>1. /\ <<Deployer>> \in Seq(Owner) /\ Len(<<Deployer>>) = 1
      /\ DOMAIN <<Deployer>> = 1 .. 1 /\ <<Deployer>>[1] = Deployer
  BY SafeConstants
<1>2. IsInjective(<<Deployer>>) /\ Deployer \in ToSet(<<Deployer>>)
  BY <1>1 DEF IsInjective, ToSet
<1>3. Bootstrap \in OwnerSet
  BY <1>1 DEF Bootstrap, OwnerSet
<1>4. QED BY <1>1, <1>2, <1>3, SafeConstants DEF Bootstrap, Proper, SignsAlone

\* What a file declares is a set a Safe may hold.
LEMMA Declared == TypeOK => Proper(declared)
BY SafeConstants, Valid DEF TypeOK

\* Such a set is read from a Safe that is there.
LEMMA Holds == \A s \in ValidSet : s \in OwnerSet /\ s # None /\ Torn(s)
<1>1. TAKE s \in ValidSet
<1>2. Proper(s)
  BY Valid
<1>3. QED BY <1>2, Bounds, SafeConstants DEF Proper, Torn

\* The batch a run sends takes effect only on a set the deployer signs
\* alone and the file does not declare; from the set the run read it leaves
\* the declared one.
LEMMA ExecEffect ==
  ASSUME SafeInv, NEW r \in Proc, Exec(r), safe' # safe
  PROVE  /\ safe' \in ValidSet
         /\ canonical /\ safe # None
         /\ SignsAlone(safe, Deployer)
         /\ ~SameAs(safe, declared)
         /\ changes = 0 => SameAs(safe', declared)
<1> DEFINE c == current[r]
           calls == CallsTo(c, declared)
<1>1. /\ pc[r] = "exec"
      /\ SignsAlone(safe, Deployer) /\ safe' \in Batch(safe, calls)
  BY DEF Exec, Move
<1>2. /\ canonical /\ safe # None
      /\ Torn(c) /\ (changes = 0 => c = Bootstrap \/ Given)
      /\ ~SameAs(c, declared) /\ SignsAlone(c, Deployer)
  BY <1>1 DEF SafeInv, ProcOK, There
<1>3. Proper(safe) /\ Proper(declared)
  BY <1>2, Declared, Valid DEF SafeInv, Typed, TypeOK
<1>4. Proper(c) /\ c.threshold = 1 /\ safe.threshold = 1
  <2>1. Len(c.owners) \in Nat
    BY <1>2, LenProperties DEF Torn, OwnerSet
  <2>2. QED BY <2>1, <1>1, <1>2 DEF Torn, Proper, SignsAlone
<1>5. Leads(c, calls, declared)
  BY <1>3, <1>4, CallsLead
<1>6. ~SameAs(safe, declared)
  BY <1>1, <1>2, <1>3, <1>4, SecondRefused
<1>7. safe' \in ValidSet
  <2>1. calls \in Seq(CallType)
    BY <1>3, <1>5, LeadsOn
  <2> HIDE DEF calls
  <2>2. QED BY <2>1, <1>1, <1>3, BatchValid
<1>8. ASSUME changes = 0 PROVE SameAs(safe', declared)
  <2>1. c = Bootstrap
    BY <1>2, <1>6, <1>8 DEF Given
  <2>2. safe = Bootstrap
    BY <1>2, <1>6, <1>8 DEF SafeInv, HandedOverWhole
  <2>3. safe' \in Batch(c, calls)
    BY <1>1, <2>1, <2>2
  <2> HIDE DEF c, calls
  <2>4. QED BY <2>3, <1>3, <1>5, BatchLeads
<1>9. QED BY <1>1, <1>2, <1>6, <1>7, <1>8

\* A run that does not move knows what it knew.
LEMMA Kept ==
  ASSUME NEW q \in Proc, ProcOK(q),
         pc'[q] = pc[q], first'[q] = first[q], current'[q] = current[q],
         UNCHANGED <<canonical, declared>>,
         safe # None => safe' # None,
         changes' = 0 => changes = 0 /\ (Given => Given')
  PROVE  ProcOK(q)'
BY DEF ProcOK, Bootstrap

\* What a step does to the Safe.
Onward == /\ UNCHANGED <<canonical, declared>>
          /\ safe # None => safe' # None
          /\ changes' = 0 => changes = 0 /\ (Given => Given')

\* A step of r that goes on leaves what other runs know as it is.
LEMMA OthersKept ==
  ASSUME NEW r \in Proc, \A q \in Proc : ProcOK(q), Onward, Typed,
         \E l : pc' = [pc EXCEPT ![r] = l],
         \/ first' = first
         \/ \E l : first' = [first EXCEPT ![r] = l],
         \/ current' = current
         \/ \E l : current' = [current EXCEPT ![r] = l],
         ProcOK(r)'
  PROVE  \A q \in Proc : ProcOK(q)'
<1> SUFFICES ASSUME NEW q \in Proc, q # r PROVE ProcOK(q)'
  OBVIOUS
<1>1. pc'[q] = pc[q] /\ first'[q] = first[q] /\ current'[q] = current[q]
  BY DEF Typed, TypeOK
<1>2. QED BY <1>1, Kept DEF Onward

-----------------------------------------------------------------------------
\* Steps that leave the Safe alone.
LEMMA Still ==
  ASSUME SafeInv, UNCHANGED <<canonical, declared, safe, aborts, changes>>
  PROVE  Onward /\ HandedOverWhole'
BY DEF SafeInv, HandedOverWhole, Onward, Given, Bootstrap

\* A step of r that leaves the Safe alone.
LEMMA StillStep ==
  ASSUME SafeInv, NEW r \in Proc,
         UNCHANGED <<canonical, declared, safe, aborts, changes>>,
         NEW l \in Location, pc' = [pc EXCEPT ![r] = l],
         \/ first' = first
         \/ \E v \in ValidSet \cup {None} : first' = [first EXCEPT ![r] = v],
         \/ current' = current
         \/ \E v \in OwnerSet \cup {None} : current' = [current EXCEPT ![r] = v],
         ProcOK(r)'
  PROVE  SafeInv'
<1>1. Onward /\ HandedOverWhole'
  BY Still
<1>2. /\ pc' \in [Proc -> Location]
      /\ first' \in [Proc -> ValidSet \cup {None}]
      /\ current' \in [Proc -> OwnerSet \cup {None}]
  BY DEF SafeInv, Typed, TypeOK
<1>3. Typed'
  BY <1>2 DEF SafeInv, Typed, TypeOK, OwnerSet
<1>4. \A q \in Proc : ProcOK(q)'
  <2>1. Typed /\ \A q \in Proc : ProcOK(q)
    BY DEF SafeInv
  <2>2. QED BY <1>1, <2>1, OthersKept
<1>5. QED BY <1>1, <1>3, <1>4 DEF SafeInv

\* The steps of a run that read only code, or nothing.
LEMMA LocalSteps ==
  ASSUME SafeInv, NEW r \in Proc,
         CheckContracts(r) \/ ReadCode(r) \/ Decide(r) \/ Compare(r) \/ GivesUp(r)
  PROVE  SafeInv' /\ Onward
<1> DEFINE l == pc'[r]
<1>1. pc \in [Proc -> Location]
  BY DEF SafeInv, Typed, TypeOK
<1>2. /\ UNCHANGED <<canonical, declared, safe, first, current, aborts, changes>>
      /\ l \in Location /\ pc' = [pc EXCEPT ![r] = l]
  BY <1>1 DEF CheckContracts, ReadCode, Decide, Compare, GivesUp, Move, Constant, Location
<1>3. ProcOK(r)'
  <2>1. ProcOK(r) /\ HandedOverWhole
    BY DEF SafeInv
  <2>2. (Given <=> Given') /\ Bootstrap' = Bootstrap
    BY <1>2 DEF Given, Bootstrap
  <2>3. CASE CheckContracts(r)
    BY <2>1, <2>3, <1>1, <1>2 DEF CheckContracts, Move, ProcOK, There, Between, Through
  <2>4. CASE ReadCode(r)
    BY <2>1, <2>4, <1>1, <1>2 DEF ReadCode, Move, ProcOK, There, Between, Through
  <2>5. CASE Decide(r)
    <3>1. /\ pc[r] = "decide" /\ canonical /\ safe # None /\ Torn(current[r])
          /\ changes = 0 => current[r] = Bootstrap \/ Given
      BY <2>1, <2>5 DEF Decide, Move, ProcOK, There
    <3>2. CASE SameAs(current[r], declared)
      <4>1. l = "same"
        BY <2>5, <3>2, <1>1 DEF Decide, Move
      <4>2. changes = 0 => Given
        BY <2>1, <3>1, <3>2 DEF HandedOverWhole, Given
      <4>3. QED BY <4>1, <4>2, <3>1, <2>2, <1>2 DEF ProcOK, There, Between, Through
    <3>3. CASE ~SameAs(current[r], declared) /\ ~SignsAlone(current[r], Deployer)
      <4>1. l = "reported"
        BY <2>5, <3>3, <1>1 DEF Decide, Move
      <4>2. changes = 0 => Given
        BY <3>1, <3>3, Created
      <4>3. QED BY <4>1, <4>2, <3>1, <2>2, <1>2 DEF ProcOK, There, Between, Through
    <3>4. CASE ~SameAs(current[r], declared) /\ SignsAlone(current[r], Deployer)
      <4>1. l = "exec"
        BY <2>5, <3>4, <1>1 DEF Decide, Move
      <4>2. QED BY <4>1, <3>1, <3>4, <2>2, <1>2 DEF ProcOK, There, Between, Through
    <3>5. QED BY <3>2, <3>3, <3>4
  <2>6. CASE Compare(r)
    <3>1. /\ pc[r] = "compare" /\ canonical /\ safe # None
          /\ changes = 0 => current[r] = Bootstrap \/ Given
      BY <2>1, <2>6 DEF Compare, Move, ProcOK, There
    <3>2. CASE SameAs(current[r], declared)
      <4>1. l = "set"
        BY <2>6, <3>2, <1>1 DEF Compare, Move
      <4>2. changes = 0 => Given
        BY <2>1, <3>1, <3>2 DEF HandedOverWhole, Given
      <4>3. QED BY <4>1, <4>2, <3>1, <2>2, <1>2 DEF ProcOK, There, Between, Through
    <3>3. CASE ~SameAs(current[r], declared)
      <4>1. l = "failed"
        BY <2>6, <3>3, <1>1 DEF Compare, Move
      <4>2. QED BY <4>1 DEF ProcOK, There, Between, Through
    <3>4. QED BY <3>2, <3>3
  <2>7. CASE GivesUp(r)
    <3>1. l = "failed"
      BY <2>7, <1>1 DEF GivesUp
    <3>2. QED BY <3>1 DEF ProcOK, There, Between, Through
  <2>8. QED BY <2>3, <2>4, <2>5, <2>6, <2>7
<1> HIDE DEF l
<1>4. SafeInv'
  BY <1>2, <1>3, StillStep
<1>5. QED BY <1>2, <1>4, Still

\* The two reads of owner_set: the second may be of another set.
LEMMA ReadSteps ==
  ASSUME SafeInv, NEW r \in Proc, ReadOwners(r) \/ ReadThreshold(r)
  PROVE  SafeInv' /\ Onward
<1> DEFINE l == pc'[r]
<1>1. /\ pc \in [Proc -> Location] /\ safe \in ValidSet \cup {None}
      /\ first \in [Proc -> ValidSet \cup {None}]
      /\ current \in [Proc -> OwnerSet \cup {None}]
  BY DEF SafeInv, Typed, TypeOK
<1>2. /\ UNCHANGED <<canonical, declared, safe, aborts, changes>>
      /\ l \in Location /\ pc' = [pc EXCEPT ![r] = l]
  BY <1>1 DEF ReadOwners, ReadThreshold, Move, Constant, Location
<1>3. ProcOK(r) /\ HandedOverWhole
  BY DEF SafeInv
<1>4. (Given <=> Given') /\ Bootstrap' = Bootstrap
  BY <1>2 DEF Given, Bootstrap
<1>5. CASE ReadOwners(r)
  <2>1. /\ canonical /\ safe # None /\ safe \in ValidSet
        /\ l \in Between
        /\ first' = [first EXCEPT ![r] = safe] /\ first'[r] = safe /\ current' = current
    BY <1>1, <1>3, <1>5 DEF ReadOwners, Move, ProcOK, There, Between
  <2>2. changes = 0 => safe = Bootstrap \/ Given
    BY <1>3, <2>1 DEF HandedOverWhole, Given
  <2>3. ProcOK(r)'
    BY <2>1, <2>2, <1>2, <1>4 DEF ProcOK, There, Between, Through
  <2> HIDE DEF l
  <2>4. SafeInv'
    BY <2>1, <2>3, <1>2, StillStep
  <2>5. QED BY <2>4, <1>2, Still
<1>6. CASE ReadThreshold(r)
  <2> DEFINE c == [owners |-> first[r].owners, threshold |-> safe.threshold]
  <2>1. /\ canonical /\ safe # None /\ safe \in ValidSet
        /\ l \in {"decide", "compare"}
        /\ first[r] \in ValidSet /\ (changes = 0 => first[r] = Bootstrap \/ Given)
        /\ current' = [current EXCEPT ![r] = c] /\ current'[r] = c /\ first' = first
    BY <1>1, <1>3, <1>6 DEF ReadThreshold, Move, ProcOK, There, Between
  <2>2. Torn(c)
    BY <2>1, Holds, Bounds, Valid DEF Torn, OwnerSet
  <2>3. changes = 0 => c = Bootstrap \/ Given
    <3>1. SUFFICES ASSUME changes = 0, ~Given PROVE c = Bootstrap
      OBVIOUS
    <3>2. first[r] = Bootstrap /\ safe = Bootstrap
      BY <2>1, <3>1, <1>3 DEF HandedOverWhole, Given
    <3>3. QED BY <3>2 DEF Bootstrap
  <2>4. ProcOK(r)'
    BY <2>1, <2>2, <2>3, <1>2, <1>4 DEF ProcOK, There, Between, Through
  <2>5. c \in OwnerSet
    BY <2>2 DEF Torn
  <2> HIDE DEF l, c
  <2>6. SafeInv'
    BY <2>1, <2>4, <2>5, <1>2, StillStep
  <2>7. QED BY <2>6, <1>2, Still
<1>7. QED BY <1>5, <1>6

\* A run begins anew and knows nothing.
LEMMA RerunStep ==
  ASSUME SafeInv, NEW r \in Proc, Rerun(r)
  PROVE  SafeInv' /\ Onward
<1>1. /\ UNCHANGED <<canonical, declared, safe, aborts, changes>>
      /\ pc' = [pc EXCEPT ![r] = "contracts"]
      /\ first' = [first EXCEPT ![r] = None]
      /\ current' = [current EXCEPT ![r] = None]
  BY DEF Rerun, Constant
<1>2. pc'[r] = "contracts"
  BY <1>1 DEF SafeInv, Typed, TypeOK
<1>3. ProcOK(r)'
  BY <1>2 DEF ProcOK, There, Between, Through
<1>4. SafeInv'
  BY <1>1, <1>3, StillStep DEF Location
<1>5. QED BY <1>1, <1>4, Still

-----------------------------------------------------------------------------
\* Steps that may change the Safe.
LEMMA CreateStep ==
  ASSUME SafeInv, NEW r \in Proc, Create(r)
  PROVE  SafeInv' /\ Onward
<1>1. CASE safe # None
  <2>1. GivesUp(r)
    BY <1>1 DEF Create, Move, GivesUp, Constant
  <2>2. QED BY <2>1, LocalSteps
<1>2. CASE safe = None
  <2>1. /\ pc[r] = "create" /\ pc' = [pc EXCEPT ![r] = "owners"]
        /\ safe' = Bootstrap
        /\ UNCHANGED <<first, current, canonical, declared, aborts, changes>>
    BY <1>2 DEF Create, Move, Constant
  <2>2. safe' \in ValidSet /\ safe' # None
    BY <2>1, Created, Valid
  <2>3. Onward
    BY <1>2, <2>1, <2>2 DEF Onward, Given
  <2>4. Typed /\ pc' \in [Proc -> Location] /\ pc'[r] = "owners"
    BY <2>1 DEF SafeInv, Typed, TypeOK, Location
  <2>5. Typed'
    BY <2>1, <2>2, <2>4 DEF Typed, TypeOK
  <2>6. ProcOK(r)'
    BY <2>1, <2>2, <2>4 DEF SafeInv, ProcOK, There, Between, Through
  <2>7. HandedOverWhole'
    BY <2>1 DEF HandedOverWhole, Bootstrap
  <2>8. \A q \in Proc : ProcOK(q)'
    BY <2>1, <2>3, <2>4, <2>6, OthersKept DEF SafeInv
  <2>9. QED BY <2>3, <2>5, <2>7, <2>8 DEF SafeInv
<1>3. QED BY <1>1, <1>2

\* A batch hands the Safe over as declared, or is refused.
LEMMA ExecStep ==
  ASSUME SafeInv, NEW r \in Proc, Exec(r)
  PROVE  SafeInv' /\ Onward
<1>1. /\ pc[r] = "exec"
      /\ \E l \in {"ownersAgain", "failed"} : pc' = [pc EXCEPT ![r] = l]
      /\ UNCHANGED <<first, current, canonical, declared, aborts, changes>>
  BY DEF Exec, Move, Constant
<1>2. ProcOK(r) /\ Typed /\ HandedOverWhole /\ \A q \in Proc : ProcOK(q)
  BY DEF SafeInv
<1>3. canonical /\ safe # None
  BY <1>1, <1>2 DEF ProcOK, There
<1>4. safe' \in ValidSet /\ (changes = 0 => safe' = safe \/ SameAs(safe', declared))
  BY <1>2, <1>3, ExecEffect DEF Typed, TypeOK
<1>5. safe' # None
  BY <1>4, Holds
<1>6. Onward
  BY <1>1, <1>4, <1>5 DEF Onward, Given
<1>7. pc' \in [Proc -> Location] /\ pc'[r] \in {"ownersAgain", "failed"}
  BY <1>1, <1>2 DEF Typed, TypeOK, Location
<1>8. Typed'
  BY <1>1, <1>2, <1>4, <1>7 DEF Typed, TypeOK
<1>9. ProcOK(r)'
  BY <1>1, <1>3, <1>5, <1>7 DEF ProcOK, There, Between, Through
<1>10. HandedOverWhole'
  BY <1>1, <1>2, <1>3, <1>4 DEF HandedOverWhole, Bootstrap
<1>11. \A q \in Proc : ProcOK(q)'
  BY <1>1, <1>2, <1>6, <1>9, OthersKept
<1>12. QED BY <1>6, <1>8, <1>10, <1>11 DEF SafeInv

\* What a run that died knew is not used any more.
LEMMA AbortStep ==
  ASSUME SafeInv, NEW r \in Proc, Abort(r)
  PROVE  SafeInv' /\ Onward
<1>1. /\ pc' = [pc EXCEPT ![r] = "failed"]
      /\ aborts' \in 0 .. MaxAborts
      /\ UNCHANGED <<canonical, declared, safe, first, current, changes>>
  BY SafeConstants DEF Abort, SafeInv, Typed, TypeOK
<1>2. Typed /\ HandedOverWhole /\ \A q \in Proc : ProcOK(q)
  BY DEF SafeInv
<1>3. Onward
  BY <1>1 DEF Onward, Given
<1>4. pc' \in [Proc -> Location] /\ pc'[r] = "failed"
  BY <1>1, <1>2 DEF Typed, TypeOK, Location
<1>5. Typed'
  BY <1>1, <1>2, <1>4 DEF Typed, TypeOK
<1>6. ProcOK(r)'
  BY <1>4 DEF ProcOK, There, Between, Through
<1>7. HandedOverWhole'
  BY <1>1, <1>2 DEF HandedOverWhole, Bootstrap
<1>8. \A q \in Proc : ProcOK(q)'
  BY <1>1, <1>2, <1>3, <1>6, OthersKept
<1>9. QED BY <1>3, <1>5, <1>7, <1>8 DEF SafeInv

\* A stranger creates the Safe just as a run does.
LEMMA AnyoneStep ==
  ASSUME SafeInv, AnyoneCreates
  PROVE  SafeInv' /\ Onward
<1>1. /\ safe = None /\ safe' = Bootstrap
      /\ UNCHANGED <<canonical, declared, pc, first, current, aborts, changes>>
  BY DEF AnyoneCreates
<1>2. safe' \in ValidSet /\ safe' # None
  BY <1>1, Created, Valid
<1>3. Typed /\ \A q \in Proc : ProcOK(q)
  BY DEF SafeInv
<1>4. Onward
  BY <1>1, <1>2 DEF Onward, Given
<1>5. Typed'
  BY <1>1, <1>2, <1>3 DEF Typed, TypeOK
<1>6. HandedOverWhole'
  BY <1>1 DEF HandedOverWhole, Bootstrap
<1>7. \A q \in Proc : ProcOK(q)'
  BY <1>1, <1>3, <1>4, Kept DEF Onward
<1>8. QED BY <1>4, <1>5, <1>6, <1>7 DEF SafeInv

\* Once its owners have changed the Safe, nobody counts on its set.
LEMMA OwnersStep ==
  ASSUME SafeInv, OwnersChange
  PROVE  SafeInv' /\ Onward
<1>1. /\ safe # None /\ changes < MaxChanges /\ changes' = changes + 1
      /\ safe' \in {Run(safe, c) : c \in {d \in CallType : Takes(safe, d)}}
      /\ UNCHANGED <<canonical, declared, pc, first, current, aborts>>
  BY DEF OwnersChange
<1>2. Typed /\ \A q \in Proc : ProcOK(q)
  BY DEF SafeInv
<1>3. changes \in Nat /\ MaxChanges \in Nat /\ changes' \in 0 .. MaxChanges /\ changes' # 0
  BY <1>1, <1>2, SafeConstants DEF Typed, TypeOK
<1>4. PICK c \in CallType : Takes(safe, c) /\ safe' = Run(safe, c)
  BY <1>1
<1>5. Proper(safe) /\ c \in CallUnder(Nat)
  <2>1. Cardinality(Owner) \in Nat
    BY FS_CardinalityType, OwnerConstants
  <2>2. c \in CallUnder(Nat)
    BY <2>1 DEF CallType, CallUnder
  <2>3. QED BY <2>2, <1>1, <1>2, Valid DEF Typed, TypeOK
<1>6. safe' \in ValidSet
  BY <1>4, <1>5, RunValid, Valid
<1>7. safe' # None
  BY <1>6, Holds
<1>8. Onward
  BY <1>1, <1>3, <1>7 DEF Onward
<1>9. Typed'
  BY <1>1, <1>2, <1>3, <1>6 DEF Typed, TypeOK
<1>10. HandedOverWhole'
  BY <1>3 DEF HandedOverWhole
<1>11. \A q \in Proc : ProcOK(q)'
  BY <1>1, <1>2, <1>8, Kept DEF Onward
<1>12. QED BY <1>8, <1>9, <1>10, <1>11 DEF SafeInv

\* Every step of module Safe.
LEMMA SafeSteps ==
  ASSUME SafeInv
  PROVE  /\ \A r \in Proc : Step(r) \/ Abort(r) \/ Rerun(r) \/ GivesUp(r) => SafeInv' /\ Onward
         /\ AnyoneCreates \/ OwnersChange => SafeInv' /\ Onward
         /\ UNCHANGED vars => SafeInv' /\ Onward
<1>1. ASSUME NEW r \in Proc, Step(r) \/ Abort(r) \/ Rerun(r) \/ GivesUp(r)
      PROVE  SafeInv' /\ Onward
  BY <1>1, LocalSteps, ReadSteps, RerunStep, CreateStep, ExecStep, AbortStep DEF Step
<1>2. ASSUME UNCHANGED vars PROVE SafeInv' /\ Onward
  <2>1. UNCHANGED <<canonical, declared, safe, pc, first, current, aborts, changes>>
    BY <1>2 DEF vars
  <2>2. Typed /\ \A q \in Proc : ProcOK(q)
    BY DEF SafeInv
  <2>3. Onward /\ HandedOverWhole'
    BY <2>1, Still
  <2>4. Typed'
    BY <2>1, <2>2 DEF Typed, TypeOK
  <2>5. \A q \in Proc : ProcOK(q)'
    BY <2>1, <2>2, <2>3, Kept DEF Onward
  <2>6. QED BY <2>3, <2>4, <2>5 DEF SafeInv
<1>3. QED BY <1>1, <1>2, AnyoneStep, OwnersStep

-----------------------------------------------------------------------------
AuthorityTyped ==
  /\ dev \in BOOLEAN
  /\ recipient \in {None, TheSafe}
  /\ owner \in {Deployer, TheSafe}
  /\ pending \in {None, TheSafe}
  /\ phase \in [Proc -> Phase]

\* What the phases behind a run have given the Safe.
PhaseOK(r) ==
  /\ phase[r] # "safes" => pc[r] \in {"contracts", "failed"}
  /\ phase[r] \notin {"recipient", "setRecipient"} => recipient = TheSafe
  /\ phase[r] \in {"dev", "safes"} => TheSafe \in {owner, pending}

IInv == /\ SafeInv /\ AuthorityTyped /\ StaysReachable
        /\ \A r \in Proc : PhaseOK(r)

Distinct == TheSafe # None /\ TheSafe # Deployer /\ Deployer \in Owner

\* The Safe's address is neither the deployer's nor a mark.
LEMMA Apart == Distinct
BY ClosingConstants, SafeConstants DEF Distinct

\* Nothing a step does takes fees or factory from the Safe again.
KeepsGiven ==
  /\ recipient = TheSafe => recipient' = TheSafe
  /\ TheSafe \in {owner, pending} => TheSafe \in {owner', pending'}

\* A step of r that takes nothing from the Safe keeps other runs' phases.
LEMMA OthersPhase ==
  ASSUME NEW r \in Proc, \A q \in Proc : PhaseOK(q), KeepsGiven, Typed, AuthorityTyped,
         \/ pc' = pc
         \/ \E l : pc' = [pc EXCEPT ![r] = l],
         \/ phase' = phase
         \/ \E l : phase' = [phase EXCEPT ![r] = l],
         PhaseOK(r)'
  PROVE  \A q \in Proc : PhaseOK(q)'
<1> SUFFICES ASSUME NEW q \in Proc, q # r PROVE PhaseOK(q)'
  OBVIOUS
<1>1. pc'[q] = pc[q] /\ phase'[q] = phase[q]
  BY DEF Typed, TypeOK, AuthorityTyped
<1>2. QED BY <1>1 DEF PhaseOK, KeepsGiven

\* The factory starts with the deployer, the Safe without code.
LEMMA InitIInv == ClosingInit => IInv
<1> SUFFICES ASSUME ClosingInit PROVE IInv
  OBVIOUS
<1>1. Typed /\ HandedOverWhole
  BY SafeConstants DEF ClosingInit, Init, Typed, TypeOK, HandedOverWhole, Location
<1>2. \A r \in Proc : ProcOK(r)
  BY DEF ClosingInit, Init, ProcOK, There, Between, Through
<1>3. AuthorityTyped /\ StaysReachable
  BY Apart DEF ClosingInit, AuthorityTyped, StaysReachable, Phase, Distinct
<1>4. \A r \in Proc : PhaseOK(r)
  BY DEF ClosingInit, Init, PhaseOK
<1>5. QED BY <1>1, <1>2, <1>3, <1>4 DEF IInv, SafeInv

\* A run goes from phase to phase, or fails between them.
LEMMA PhaseSteps ==
  ASSUME IInv, NEW r \in Proc,
         \/ ReadRecipient(r) \/ SetRecipient(r) \/ ReadOwner(r) \/ ReadPending(r)
         \/ Transfer(r) \/ Impersonate(r)
  PROVE  IInv'
<1>1. /\ AuthorityTyped /\ StaysReachable /\ PhaseOK(r) /\ SafeInv /\ Typed
      /\ pc[r] \notin Ended
      /\ \A q \in Proc : PhaseOK(q)
  BY DEF IInv, SafeInv, ReadRecipient, SetRecipient, ReadOwner, ReadPending, Transfer,
         Impersonate, Pass, Fails
<1>2. /\ phase \in [Proc -> Phase] /\ pc \in [Proc -> Location]
      /\ Distinct
  BY <1>1, Apart DEF AuthorityTyped, Typed, TypeOK
<1>3. \/ UNCHANGED vars
      \/ GivesUp(r) /\ phase' = phase /\ UNCHANGED authority
  BY DEF ReadRecipient, SetRecipient, ReadOwner, ReadPending, Transfer,
         Impersonate, Pass, Fails, GivesUp
<1>4. SafeInv' /\ Onward
  BY <1>1, <1>3, SafeSteps
<1>5. \/ phase' = phase
      \/ \E l \in Phase : phase' = [phase EXCEPT ![r] = l]
  BY DEF ReadRecipient, SetRecipient, ReadOwner, ReadPending, Transfer,
         Impersonate, Pass, Fails, Phase
<1>6. AuthorityTyped' /\ KeepsGiven
  <2>1. phase' \in [Proc -> Phase]
    BY <1>2, <1>5
  <2>2. CASE ReadRecipient(r) \/ ReadOwner(r) \/ ReadPending(r)
    BY <2>1, <2>2, <1>1 DEF ReadRecipient, ReadOwner, ReadPending, authority,
                            AuthorityTyped, KeepsGiven
  <2>3. CASE SetRecipient(r)
    BY <2>1, <2>3, <1>1 DEF SetRecipient, AuthorityTyped, KeepsGiven
  <2>4. CASE Transfer(r)
    BY <2>1, <2>4, <1>1 DEF Transfer, authority, AuthorityTyped, KeepsGiven
  <2>5. CASE Impersonate(r)
    BY <2>1, <2>5, <1>1 DEF Impersonate, authority, AuthorityTyped, KeepsGiven
  <2>6. QED BY <2>2, <2>3, <2>4, <2>5
<1>7. PhaseOK(r)'
  <2>1. CASE UNCHANGED vars
    <3>1. pc' = pc /\ pc[r] \in {"contracts", "failed"}
      BY <2>1, <1>1, <1>2 DEF vars, PhaseOK, ReadRecipient, SetRecipient, ReadOwner,
                              ReadPending, Transfer, Impersonate, Pass, Fails
    <3>2. CASE ReadRecipient(r)
      BY <3>1, <3>2, <1>1, <1>2 DEF ReadRecipient, Pass, PhaseOK, authority
    <3>3. CASE SetRecipient(r)
      BY <3>1, <3>3, <1>1, <1>2 DEF SetRecipient, Pass, PhaseOK
    <3>4. CASE ReadOwner(r)
      BY <3>1, <3>4, <1>1, <1>2 DEF ReadOwner, Pass, PhaseOK, authority
    <3>5. CASE ReadPending(r)
      BY <3>1, <3>5, <1>1, <1>2 DEF ReadPending, Pass, PhaseOK, authority
    <3>6. CASE Transfer(r)
      BY <3>1, <3>6, <1>1, <1>2 DEF Transfer, Pass, Fails, PhaseOK, authority
    <3>7. CASE Impersonate(r)
      BY <3>1, <3>7, <1>1, <1>2 DEF Impersonate, Pass, Fails, PhaseOK, authority
    <3>8. QED BY <3>2, <3>3, <3>4, <3>5, <3>6, <3>7
  <2>2. CASE GivesUp(r) /\ phase' = phase /\ UNCHANGED authority
    <3>1. pc'[r] = "failed"
      BY <2>2, <1>2 DEF GivesUp
    <3>2. QED BY <2>2, <3>1, <1>1 DEF PhaseOK, authority
  <2>3. QED BY <2>1, <2>2, <1>3
<1>8. \A q \in Proc : PhaseOK(q)'
  <2>1. pc' = pc \/ \E l : pc' = [pc EXCEPT ![r] = l]
    BY <1>3 DEF vars, GivesUp
  <2>2. QED BY <2>1, <1>1, <1>5, <1>6, <1>7, OthersPhase
<1>9. StaysReachable'
  <2>1. safe' = safe
    BY <1>3 DEF vars, GivesUp
  <2>2. dev' = dev /\ (owner' = owner \/ dev)
    BY DEF ReadRecipient, SetRecipient, ReadOwner, ReadPending, Transfer, Impersonate, authority
  <2>3. QED BY <2>1, <2>2, <1>1 DEF StaysReachable
<1>10. QED BY <1>4, <1>6, <1>8, <1>9 DEF IInv

\* The steps of module Safe leave fees and factory alone.
LEMMA InnerSteps ==
  ASSUME IInv, NEW r \in Proc,
         \/ phase[r] = "safes" /\ Step(r) /\ UNCHANGED <<authority, phase>>
         \/ Abort(r) /\ UNCHANGED <<authority, phase>>
  PROVE  IInv'
<1>1. /\ AuthorityTyped /\ StaysReachable /\ SafeInv /\ Typed
      /\ \A q \in Proc : PhaseOK(q)
  BY DEF IInv, SafeInv
<1>2. SafeInv' /\ Onward
  BY <1>1, SafeSteps
<1>3. /\ dev' = dev /\ recipient' = recipient /\ owner' = owner /\ pending' = pending
      /\ phase' = phase
  BY DEF authority
<1>4. AuthorityTyped' /\ StaysReachable' /\ KeepsGiven
  BY <1>1, <1>2, <1>3 DEF AuthorityTyped, StaysReachable, Onward, KeepsGiven
<1>5. \E l : pc' = [pc EXCEPT ![r] = l] /\ (phase[r] = "safes" \/ l = "failed")
  BY DEF Step, CheckContracts, ReadCode, Create, ReadOwners, ReadThreshold, Decide, Exec,
         Compare, Abort, Move
<1>6. phase[r] = "safes" \/ pc'[r] = "failed"
  BY <1>1, <1>5 DEF Typed, TypeOK
<1>7. PhaseOK(r)'
  BY <1>1, <1>3, <1>6 DEF PhaseOK
<1>8. \A q \in Proc : PhaseOK(q)'
  BY <1>1, <1>3, <1>4, <1>5, <1>7, OthersPhase
<1>9. QED BY <1>2, <1>4, <1>8 DEF IInv

\* A run begins anew ahead of fees and factory.
LEMMA RerunInv ==
  ASSUME IInv, NEW r \in Proc, ClosingRerun(r)
  PROVE  IInv'
<1>1. /\ AuthorityTyped /\ StaysReachable /\ SafeInv /\ Typed
      /\ \A q \in Proc : PhaseOK(q)
  BY DEF IInv, SafeInv
<1>2. SafeInv' /\ Onward
  BY <1>1, SafeSteps DEF ClosingRerun
<1>3. /\ dev' = dev /\ recipient' = recipient /\ owner' = owner /\ pending' = pending
      /\ phase' = [phase EXCEPT ![r] = "recipient"]
      /\ pc' = [pc EXCEPT ![r] = "contracts"]
  BY DEF ClosingRerun, Rerun, authority
<1>4. AuthorityTyped' /\ StaysReachable' /\ KeepsGiven
  BY <1>1, <1>2, <1>3 DEF AuthorityTyped, StaysReachable, Onward, KeepsGiven, Phase
<1>5. phase'[r] = "recipient" /\ pc'[r] = "contracts"
  BY <1>1, <1>3 DEF AuthorityTyped, Typed, TypeOK
<1>6. PhaseOK(r)'
  BY <1>5 DEF PhaseOK
<1>7. \A q \in Proc : PhaseOK(q)'
  BY <1>1, <1>3, <1>4, <1>6, OthersPhase
<1>8. QED BY <1>2, <1>4, <1>7 DEF IInv

\* Steps of nobody's run.
LEMMA OuterSteps ==
  ASSUME IInv,
         \/ AnyoneCreates /\ UNCHANGED <<authority, phase>>
         \/ OwnersChange /\ UNCHANGED <<authority, phase>>
         \/ SafeAccepts
         \/ UNCHANGED closingVars
  PROVE  IInv'
<1>1. /\ AuthorityTyped /\ StaysReachable /\ SafeInv
      /\ \A q \in Proc : PhaseOK(q)
  BY DEF IInv, SafeInv
<1>2. SafeInv' /\ Onward
  BY <1>1, SafeSteps DEF SafeAccepts, closingVars
<1>3. pc' = pc /\ phase' = phase /\ dev' = dev /\ recipient' = recipient
  BY DEF AnyoneCreates, OwnersChange, SafeAccepts, closingVars, vars, authority
<1>4. \/ owner' = owner /\ pending' = pending
      \/ owner' = TheSafe /\ pending' = None /\ safe # None
  BY DEF AnyoneCreates, OwnersChange, SafeAccepts, closingVars, vars, authority
<1>5. AuthorityTyped' /\ StaysReachable'
  BY <1>1, <1>2, <1>3, <1>4 DEF AuthorityTyped, StaysReachable, Onward
<1>6. \A q \in Proc : PhaseOK(q)'
  BY <1>1, <1>3, <1>4 DEF PhaseOK
<1>7. QED BY <1>2, <1>5, <1>6 DEF IInv

\* Every step keeps the invariant.
LEMMA StepIInv == IInv /\ [ClosingNext]_closingVars => IInv'
<1> SUFFICES ASSUME IInv, [ClosingNext]_closingVars PROVE IInv'
  OBVIOUS
<1>1. ASSUME NEW r \in Proc, ClosingStep(r) PROVE IInv'
  BY <1>1, PhaseSteps, InnerSteps DEF ClosingStep
<1>2. ASSUME NEW r \in Proc, ClosingRerun(r) PROVE IInv'
  BY <1>2, RerunInv
<1>3. ASSUME NEW r \in Proc, Abort(r) /\ UNCHANGED <<authority, phase>> PROVE IInv'
  BY <1>3, InnerSteps
<1>4. QED BY <1>1, <1>2, <1>3, OuterSteps DEF ClosingNext

\* So it holds in every reachable state.
LEMMA Inductive == ClosingSpec => []IInv
BY InitIInv, StepIInv, PTL DEF ClosingSpec

-----------------------------------------------------------------------------
\* Whatever the runs, the owners and the chain do, the Safe holds a set its
\* contracts allow, and a run that reads its threshold has read its owners.
THEOREM TypeCorrect == ClosingSpec => []ClosingTypeOK
<1>1. IInv => ClosingTypeOK
  BY DEF IInv, SafeInv, Typed, AuthorityTyped, PhaseOK, ClosingTypeOK
<1>2. QED BY <1>1, Inductive, PTL

\* Until its owners change it, the Safe is the deployer's own or exactly as
\* declared, whatever runs die or hand it over at the same time.
THEOREM Whole == ClosingSpec => []HandedOverWhole
<1>1. IInv => HandedOverWhole
  BY DEF IInv, SafeInv
<1>2. QED BY <1>1, Inductive, PTL

\* A run that ends well leaves fees and factory with a Safe that stands.
THEOREM Authority == ClosingSpec => []AuthorityStands
<1>1. IInv => AuthorityStands
  <2> SUFFICES ASSUME IInv, NEW r \in Proc, pc[r] \in Through
               PROVE  Stands /\ recipient = TheSafe /\ TheSafe \in {owner, pending}
    BY DEF AuthorityStands, Through
  <2>1. ProcOK(r) /\ PhaseOK(r)
    BY DEF IInv, SafeInv
  <2>2. safe # None /\ (changes = 0 => Given)
    BY <2>1 DEF ProcOK, There, Through
  <2>3. phase[r] = "safes"
    BY <2>1 DEF PhaseOK, Through
  <2>4. recipient = TheSafe /\ TheSafe \in {owner, pending}
    BY <2>1, <2>3 DEF PhaseOK
  <2>5. QED BY <2>2, <2>4 DEF Stands, Given
<1>2. QED BY <1>1, Inductive, PTL

\* Off a dev chain an address without code never owns the factory.
THEOREM Reachable == ClosingSpec => []StaysReachable
<1>1. IInv => StaysReachable
  BY DEF IInv
<1>2. QED BY <1>1, Inductive, PTL

\* Where plan's line is ok or a warning, no run changes the Safe.
THEOREM SendsNothing == ClosingSpec => OkOrWarnSendsNothing
<1>1. ASSUME IInv, [ClosingNext]_closingVars,
             changes' = changes, SafeLine \in {"ok", "warn"}
      PROVE  UNCHANGED safe
  <2>1. SafeInv /\ changes \in Nat
    BY <1>1 DEF IInv, SafeInv, Typed, TypeOK
  <2>2. ASSUME canonical, safe = None PROVE FALSE
    BY <1>1, <2>2 DEF SafeLine
  <2>3. ASSUME canonical, safe # None, SignsAlone(safe, Deployer), ~SameAs(safe, declared)
        PROVE  FALSE
    BY <1>1, <2>3 DEF SafeLine
  <2>4. ASSUME NEW r \in Proc, Step(r) PROVE UNCHANGED safe
    <3>1. CASE Create(r)
      <4>1. canonical
        BY <2>1, <3>1 DEF SafeInv, ProcOK, Create, Move
      <4>2. safe # None
        BY <2>2, <4>1
      <4>3. QED BY <3>1, <4>2 DEF Create
    <3>2. CASE Exec(r)
      BY <2>1, <2>3, <3>2, ExecEffect
    <3>3. QED BY <2>4, <3>1, <3>2 DEF Step, CheckContracts, ReadCode, ReadOwners,
                                      ReadThreshold, Decide, Compare
  <2>5. CASE AnyoneCreates
    BY <2>2, <2>5 DEF AnyoneCreates
  <2>6. CASE OwnersChange
    BY <1>1, <2>1, <2>6 DEF OwnersChange
  <2>7. CASE SafeAccepts \/ UNCHANGED closingVars
    BY <2>7 DEF SafeAccepts, closingVars, vars
  <2>8. ASSUME NEW r \in Proc, ClosingStep(r) \/ ClosingRerun(r) \/ Abort(r)
        PROVE  UNCHANGED safe
    BY <2>4, <2>8 DEF ClosingStep, ClosingRerun, Rerun, Abort, ReadRecipient, SetRecipient,
                      ReadOwner, ReadPending, Transfer, Impersonate, Pass, Fails, vars
  <2>9. QED BY <1>1, <2>5, <2>6, <2>7, <2>8 DEF ClosingNext
<1>2. IInv /\ [ClosingNext]_closingVars
        => [changes' = changes /\ SafeLine \in {"ok", "warn"} => UNCHANGED safe]_vars
  BY <1>1
<1>3. QED BY <1>2, Inductive, PTL DEF ClosingSpec, OkOrWarnSendsNothing
=============================================================================
