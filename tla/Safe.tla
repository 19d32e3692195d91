-------------------------------- MODULE Safe --------------------------------
(***************************************************************************)
(* One declared Safe: created as the deployer's 1-of-1, handed to the      *)
(* declared owners in one Safe transaction, then left to them.  Runs of    *)
(* apply overlap, die and are run again; the Safe's other owners change it *)
(* whenever they have the signatures; anybody may create it.               *)
(***************************************************************************)
EXTENDS SafeOwners

CONSTANTS
  Proc,        \* the apply runs, all signing with the deployer key
  Deployer,
  Declarable,  \* the sets a file may declare for the Safe
  None,
  MaxAborts,   \* bound: runs that die half way
  MaxChanges   \* bound: changes the other owners make

ASSUME SafeConstants ==
  /\ Deployer \in Owner
  /\ Declarable \subseteq ValidSet
  /\ None \notin OwnerSet
  /\ {MaxAborts, MaxChanges} \subseteq Nat

VARIABLES
  canonical,  \* the four Safe v1.4.1 contracts hold the release's code
  declared,   \* what the file declares
  safe,       \* the Safe's set on-chain, None without code
  pc,
  first,      \* the set on-chain when a run read getOwners
  current,    \* the set a run assembled from getOwners and getThreshold
  aborts, changes

vars == <<canonical, declared, safe, pc, first, current, aborts, changes>>

\* Fault: created without a threshold.
BootstrapOpen == [owners |-> <<Deployer>>, threshold |-> 0]

Bootstrap == [owners |-> <<Deployer>>, threshold |-> 1]

Location == {"contracts", "code", "create", "owners", "threshold", "decide", "exec",
             "ownersAgain", "thresholdAgain", "compare",
             "same", "reported", "set", "failed"}
Ended    == {"same", "reported", "set", "failed"}

TypeOK ==
  /\ canonical \in BOOLEAN
  /\ declared \in Declarable
  /\ safe \in ValidSet \cup {None}
  /\ pc \in [Proc -> Location]
  /\ first \in [Proc -> ValidSet \cup {None}]
  /\ \A r \in Proc : current[r] = None \/ current[r].threshold \in Nat
  /\ aborts \in 0 .. MaxAborts
  /\ changes \in 0 .. MaxChanges

Init ==
  /\ canonical \in BOOLEAN
  /\ declared \in Declarable
  /\ safe = None
  /\ pc = [r \in Proc |-> "contracts"]
  /\ first = [r \in Proc |-> None]
  /\ current = [r \in Proc |-> None]
  /\ aborts = 0
  /\ changes = 0

Move(r, from, to) == pc[r] = from /\ pc' = [pc EXCEPT ![r] = to]
Constant == UNCHANGED <<canonical, declared, aborts, changes>>
-----------------------------------------------------------------------------
\* Fault: a chain without the Safe contracts is taken for one without Safes.
ContractsSkipped(r) ==
  /\ Move(r, "contracts", IF canonical THEN "code" ELSE "same")
  /\ UNCHANGED <<safe, first, current>> /\ Constant

\* safes: the code hashes of the Safe contracts, before any declared Safe.
CheckContracts(r) ==
  /\ Move(r, "contracts", IF canonical THEN "code" ELSE "failed")
  /\ UNCHANGED <<safe, first, current>> /\ Constant

ReadCode(r) ==
  /\ Move(r, "code", IF safe = None THEN "create" ELSE "owners")
  /\ UNCHANGED <<safe, first, current>> /\ Constant

\* Fault: created again whatever is there.
CreateAnew(r) ==
  /\ Move(r, "create", "owners")
  /\ safe' = Bootstrap
  /\ UNCHANGED <<first, current>> /\ Constant

\* createProxyWithNonce, which reverts when the address has code, and the
\* check that the address has code now.
Create(r) ==
  /\ Move(r, "create", IF safe = None THEN "owners" ELSE "failed")
  /\ safe' = IF safe = None THEN Bootstrap ELSE safe
  /\ UNCHANGED <<first, current>> /\ Constant

\* owner_set: getOwners, then getThreshold, two calls.
ReadOwners(r) ==
  /\ \/ Move(r, "owners", "threshold")
     \/ Move(r, "ownersAgain", "thresholdAgain")
  /\ first' = [first EXCEPT ![r] = safe]
  /\ UNCHANGED <<safe, current>> /\ Constant

ReadThreshold(r) ==
  /\ \/ Move(r, "threshold", "decide")
     \/ Move(r, "thresholdAgain", "compare")
  /\ current' = [current EXCEPT ![r] = [owners    |-> first[r].owners,
                                        threshold |-> safe.threshold]]
  /\ UNCHANGED <<safe, first>> /\ Constant

\* Fault: the deployer's own Safe is the one reported.
DecideInverted(r) ==
  /\ Move(r, "decide",
          CASE SameAs(current[r], declared) -> "same"
            [] ~SameAs(current[r], declared) /\ SignsAlone(current[r], Deployer) -> "reported"
            [] OTHER -> "exec")
  /\ UNCHANGED <<safe, first, current>> /\ Constant

\* safe: nothing to do, nothing this key can do, or the batch.
Decide(r) ==
  /\ Move(r, "decide",
          CASE SameAs(current[r], declared) -> "same"
            [] ~SameAs(current[r], declared) /\ ~SignsAlone(current[r], Deployer) -> "reported"
            [] OTHER -> "exec")
  /\ UNCHANGED <<safe, first, current>> /\ Constant

\* Fault: one transaction per call, the first of them here.
ExecOneCall(r) ==
  LET calls == CallsTo(current[r], declared)
      after == IF SignsAlone(safe, Deployer) /\ calls # <<>>
               THEN Batch(safe, <<Head(calls)>>) ELSE {}
  IN /\ \/ Move(r, "exec", "ownersAgain") /\ safe' \in after
        \/ Move(r, "exec", "failed") /\ after = {} /\ UNCHANGED safe
     /\ UNCHANGED <<first, current>> /\ Constant

\* execTransaction of the batch, built from what was read, on what is there.
Exec(r) ==
  LET after == IF SignsAlone(safe, Deployer)
               THEN Batch(safe, CallsTo(current[r], declared)) ELSE {}
  IN /\ \/ Move(r, "exec", "ownersAgain") /\ safe' \in after
        \/ Move(r, "exec", "failed") /\ after = {} /\ UNCHANGED safe
     /\ UNCHANGED <<first, current>> /\ Constant

Compare(r) ==
  /\ Move(r, "compare", IF SameAs(current[r], declared) THEN "set" ELSE "failed")
  /\ UNCHANGED <<safe, first, current>> /\ Constant
-----------------------------------------------------------------------------
\* The line plan prints: SafeContractCode, then Code and SafeOwners.
SafeLine ==
  CASE ~canonical                 -> "warn"
    [] canonical /\ safe = None   -> "deploy"
    [] OTHER -> CASE SameAs(safe, declared)     -> "ok"
                  [] ~SameAs(safe, declared) /\ SignsAlone(safe, Deployer) -> "configure"
                  [] OTHER -> "warn"
-----------------------------------------------------------------------------
Abort(r) ==
  /\ pc[r] \notin Ended
  /\ aborts < MaxAborts
  /\ aborts' = aborts + 1
  /\ pc' = [pc EXCEPT ![r] = "failed"]
  /\ UNCHANGED <<canonical, declared, safe, first, current, changes>>

\* apply again, whatever the last run came to.
Rerun(r) ==
  /\ pc[r] \in Ended
  /\ pc' = [pc EXCEPT ![r] = "contracts"]
  /\ first' = [first EXCEPT ![r] = None]
  /\ current' = [current EXCEPT ![r] = None]
  /\ UNCHANGED safe /\ Constant

\* The proxy factory creates for anybody.
AnyoneCreates ==
  /\ canonical /\ safe = None
  /\ safe' = Bootstrap
  /\ UNCHANGED <<canonical, declared, pc, first, current, aborts, changes>>

\* The owners besides the deployer run one call of their own.
OwnersChange ==
  /\ safe # None /\ changes < MaxChanges
  /\ Cardinality(ToSet(safe.owners) \ {Deployer}) >= safe.threshold
  /\ safe' \in {Run(safe, c) : c \in {d \in CallType : Takes(safe, d)}}
  /\ changes' = changes + 1
  /\ UNCHANGED <<canonical, declared, pc, first, current, aborts>>

Step(r) == \/ CheckContracts(r) \/ ReadCode(r) \/ Create(r) \/ ReadOwners(r)
           \/ ReadThreshold(r) \/ Decide(r) \/ Exec(r) \/ Compare(r)

Next == \/ \E r \in Proc : Step(r) \/ Abort(r) \/ Rerun(r)
        \/ AnyoneCreates \/ OwnersChange

Spec == Init /\ [][Next]_vars
-----------------------------------------------------------------------------
\* Until its owners change it, the Safe is the deployer's 1-of-1 or exactly
\* what the file declares: no run that dies and no second run that hands it
\* over at the same time leaves a set in between.
HandedOverWhole ==
  changes = 0 /\ safe # None => safe = Bootstrap \/ SameAs(safe, declared)

\* "apply sends nothing": where plan's line is ok or a warning, nothing a
\* run does takes effect, not what an overlapping run prepared before it
\* either; only the Safe's owners change it from there.
OkOrWarnSendsNothing ==
  [][changes' = changes /\ SafeLine \in {"ok", "warn"} => UNCHANGED safe]_vars
=============================================================================
