------------------------------ MODULE SafeBatch ------------------------------
(* The batch calls_to builds, run call by call on the list it was built    *)
(* from: every start the chain may hold, every set a file may declare.     *)
EXTENDS SafeOwners

CONSTANT Start  \* the sets the Safe may hold before the batch

ASSUME StartsValid == Start \subseteq ValidSet

VARIABLES
  target,  \* the declared set
  set,     \* the Safe's set
  calls,   \* the calls still to run
  refused  \* the OwnerManager reverted one

vars == <<target, set, calls, refused>>

TypeOK ==
  /\ target \in ValidSet
  /\ set \in OwnerSet
  /\ refused \in BOOLEAN
  /\ calls \in Seq(CallType)

Init ==
  /\ target \in ValidSet
  /\ set \in Start
  /\ calls = CallsTo(set, target)
  /\ refused = FALSE

Execute ==
  /\ calls # <<>> /\ ~refused
  /\ IF Takes(set, Head(calls))
     THEN set' = Run(set, Head(calls)) /\ calls' = Tail(calls) /\ UNCHANGED refused
     ELSE refused' = TRUE /\ UNCHANGED <<set, calls>>
  /\ UNCHANGED target

Next == Execute

Spec == Init /\ [][Next]_vars
-----------------------------------------------------------------------------
\* No call of the batch is refused by the order the batch runs in: every
\* intermediate threshold is between one and the owners there are, no owner
\* is added twice, every removal names the owner before it.
NeverRefused == ~refused

\* The batch is through exactly where the Safe holds the declared owners
\* and threshold: not a call earlier, none for a set that already matches.
BatchConverges == calls = <<>> <=> SameAs(set, target)

\* No call touches an owner that stays, and the set never falls below what
\* both sides share: nobody who keeps signing is removed on the way.
KeepsShared ==
  [][ToSet(set.owners) \cap ToSet(target.owners) \subseteq ToSet(set'.owners)]_vars

\* The batch needs no more calls than owners that differ, and one.
NoWastedCall ==
  Len(calls) <= Len(set.owners) + Len(target.owners)
                - 2 * Cardinality(ToSet(set.owners) \cap ToSet(target.owners)) + 1
=============================================================================
