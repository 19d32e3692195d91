------------------------------- MODULE Factory -------------------------------
(***************************************************************************)
(* How `apply` runs share one LibidFactory.  Several runs of the binary (a *)
(* workflow job and a host, a run and its rerun) sign with the same key:   *)
(* each installs the factory, reads which names have code, makes sure it   *)
(* owns the factory, deploys the names it found missing and hands the      *)
(* factory over to the declared owner.  Every RPC the code awaits is a     *)
(* step of its own; between two of them another run, the other owner or    *)
(* the end of the run may come.                                            *)
(*                                                                         *)
(* The chain (LibidFactory, Ownable2Step, the transaction pool) is not     *)
(* under src/: it is modelled from what apply.rs expects of it.            *)
(***************************************************************************)
EXTENDS Naturals, Sequences

CONSTANTS
  Run,          \* the apply processes signing with the deployer key
  Name,         \* factory names: proxies and circuit verifiers
  Bare,         \* names deployed from code alone (circuit verifiers)
  Late,         \* names whose presence the section reads again
  Order,        \* Order[r]: the names run r deploys, in section order
  Account,      \* keys that may own the factory
  Deployer,     \* accounts.deployer, the signer of every run
  Desired,      \* Desired[r]: the operational owner run r's file declares
  Confirm,      \* the runs started with --confirm-fresh-deploy
  None,         \* no owner, no record, an empty pool
  MaxFailures,  \* bound: runs that die half way, transactions dropped
  MaxHandbacks  \* bound: times an owner hands the factory back

ASSUME FactoryConstants ==
  /\ Bare \subseteq Late
  /\ Late \subseteq Name
  /\ Order \in [Run -> Seq(Name)]
  /\ Deployer \in Account
  /\ Desired \in [Run -> Account]
  /\ Confirm \subseteq Run
  /\ None \notin Account \cup Run
  /\ MaxFailures \in Nat
  /\ MaxHandbacks \in Nat

VARIABLES
  standard,   \* the chain derives CREATE2 addresses the standard way
  dev,        \* web3_clientVersion reports anvil or hardhat
  installed,  \* the factory has code at its canonical address
  owner,      \* Ownable2Step.owner
  pending,    \* Ownable2Step.pendingOwner
  record,     \* record[n]: the run whose call deployed n, None before it
  built,      \* <<r, n>>: the implementation run r deployed for name n
  slot,       \* the pooled transaction with the account's next nonce
  fresh,      \* runs whose fetched nonce is still the account's next one
  pc,         \* where each run is
  idx,        \* the position in Order[r] a run is at
  seen,       \* the presence flags a run read, once, at its start
  needs,      \* needs_factory_deploy
  failures, handbacks

chain == <<standard, dev, installed, owner, pending, record, built>>
local == <<idx, seen, needs>>
vars  == <<chain, slot, fresh, pc, local, failures, handbacks>>

\* A run that has sent a transaction and awaits its receipt.
Waiting == {"accepting", "building", "deploying", "transferring"}
Stopped == {"done", "failed", "broken"}
Location ==
  Waiting \cup Stopped \cup
  {"install", "presence", "ensure", "ensurePending", "section", "record",
   "impl", "named", "nonce", "send", "reread", "converge", "convergePending",
   "dev"}

Tx == [by : Run, call : {"impl", "deploy"}, name : Name, to : Account]
      \cup [by : Run, call : {"accept", "transfer"}, name : {None}, to : Account]

Now(r)     == Order[r][idx[r]]
AtEnd(r)   == idx[r] > Len(Order[r])
Deployed   == {n \in Name : record[n] # None}

TypeOK ==
  /\ standard \in BOOLEAN
  /\ dev \in BOOLEAN
  /\ installed \in BOOLEAN
  /\ owner \in Account \cup {None}
  /\ pending \in Account \cup {None}
  /\ record \in [Name -> Run \cup {None}]
  /\ built \subseteq Run \X Name
  /\ slot \in Tx \cup {None}
  /\ fresh \subseteq Run
  /\ pc \in [Run -> Location]
  /\ idx \in [Run -> Nat \ {0}]
  /\ seen \in [Run -> SUBSET Name]
  /\ needs \in [Run -> BOOLEAN]
  /\ failures \in 0 .. MaxFailures
  /\ handbacks \in 0 .. MaxHandbacks

Init ==
  /\ standard \in BOOLEAN
  /\ dev \in BOOLEAN
  /\ installed = FALSE
  /\ owner = None
  /\ pending = None
  /\ record = [n \in Name |-> None]
  /\ built = {}
  /\ slot = None
  /\ fresh = {}
  /\ pc = [r \in Run |-> "install"]
  /\ idx = [r \in Run |-> 1]
  /\ seen = [r \in Run |-> {}]
  /\ needs = [r \in Run |-> FALSE]
  /\ failures = 0
  /\ handbacks = 0

Goto(r, l) == pc' = [pc EXCEPT ![r] = l]
-----------------------------------------------------------------------------
(* Transactions.  Every sender fetches the latest nonce, so the pool holds *)
(* at most one transaction with it: a second one replaces it or is refused.*)

\* Whether the call succeeds on the chain as it is.
Succeeds(t) ==
  CASE t.call = "impl"     -> TRUE
    [] t.call = "deploy"   -> owner = Deployer /\ record[t.name] = None
    [] t.call = "accept"   -> pending = Deployer
    [] t.call = "transfer" -> owner = Deployer

\* Gas estimation refuses a call that would revert; the node may refuse a
\* second transaction with a pooled nonce.
Accepts(t) == /\ Succeeds(t)
              /\ slot' = t

Refuses(t) == /\ ~Succeeds(t) \/ slot # None
              /\ UNCHANGED slot

TxOf(r, call, name) == [by |-> r, call |-> call, name |-> name, to |-> Desired[r]]

\* send_with_nonce_retry! and deploy_contract_from fetch the nonce
\* themselves and retry a stale one, so only a refusal is an error.
Send(r, t, await) ==
  /\ \/ Accepts(t) /\ Goto(r, await)
     \/ Refuses(t) /\ Goto(r, "failed")
  /\ UNCHANGED <<chain, fresh, local, failures, handbacks>>

\* Where a run goes on once the receipt of its call arrives.
After(call) ==
  CASE call = "impl"     -> "named"
    [] call = "deploy"   -> "reread"
    [] call = "accept"   -> "section"
    [] call = "transfer" -> "dev"

\* The deploy's receipt status is not read (apply.rs:1047-1050); a reverted
\* configuration call may or may not stop the run.
Outcomes(t, ok) ==
  IF ok \/ t.call = "deploy" THEN {After(t.call)} ELSE {After(t.call), "failed"}

Mine ==
  /\ slot # None
  /\ LET t  == slot
         ok == Succeeds(t)
     IN /\ record' = IF ok /\ t.call = "deploy"
                     THEN [record EXCEPT ![t.name] = t.by] ELSE record
        /\ built' = IF t.call = "impl"
                    THEN built \cup {<<t.by, t.name>>} ELSE built
        /\ owner' = IF ok /\ t.call = "accept" THEN Deployer ELSE owner
        /\ pending' = CASE ok /\ t.call = "accept"   -> None
                        [] ok /\ t.call = "transfer" -> t.to
                        [] OTHER -> pending
        /\ IF pc[t.by] \in Waiting
           THEN \E l \in Outcomes(t, ok) : Goto(t.by, l)
           ELSE UNCHANGED pc
  /\ slot' = None
  /\ fresh' = {}
  /\ UNCHANGED <<standard, dev, installed, local, failures, handbacks>>

\* The node drops a pooled transaction.
Evict ==
  /\ slot # None
  /\ failures < MaxFailures
  /\ failures' = failures + 1
  /\ slot' = None
  /\ UNCHANGED <<chain, fresh, pc, local, handbacks>>
-----------------------------------------------------------------------------
(* One run of apply.                                                       *)

\* Fault: the canary is not checked.
InstallNoCanary(r) ==
  /\ pc[r] = "install"
  /\ IF installed \/ r \in Confirm
     THEN /\ installed' = TRUE
          /\ owner' = IF installed THEN owner ELSE Deployer
          /\ Goto(r, "presence")
     ELSE Goto(r, "failed") /\ UNCHANGED <<installed, owner>>
  /\ UNCHANGED <<standard, dev, pending, record, built, slot, fresh, local,
                 failures, handbacks>>

\* Fault: a factory found installed is a failed install.
InstallNotIdempotent(r) ==
  /\ pc[r] = "install"
  /\ IF ~installed /\ r \in Confirm /\ standard
     THEN installed' = TRUE /\ owner' = Deployer /\ Goto(r, "presence")
     ELSE Goto(r, "failed") /\ UNCHANGED <<installed, owner>>
  /\ UNCHANGED <<standard, dev, pending, record, built, slot, fresh, local,
                 failures, handbacks>>

\* install_factory: the guard, the CREATE2 gate, FactoryGenesis::ensure and
\* the canary.  The factory's genesis owner is the deployer.
Install(r) ==
  /\ pc[r] = "install"
  /\ IF installed \/ (r \in Confirm /\ standard)
     THEN /\ installed' = TRUE
          /\ owner' = IF installed THEN owner ELSE Deployer
          /\ Goto(r, "presence")
     ELSE Goto(r, "failed") /\ UNCHANGED <<installed, owner>>
  /\ UNCHANGED <<standard, dev, pending, record, built, slot, fresh, local,
                 failures, handbacks>>

\* Fault: a presence read that finds nothing counts as well.
ReadPresenceBlind(r) ==
  /\ pc[r] = "presence"
  /\ IF AtEnd(r)
     THEN /\ idx' = [idx EXCEPT ![r] = 1]
          /\ Goto(r, IF needs[r] THEN "ensure" ELSE "section")
          /\ UNCHANGED <<seen, needs>>
     ELSE /\ seen' = [seen EXCEPT ![r] = @ \cup {Now(r)}]
          /\ needs' = [needs EXCEPT ![r] = @ \/ Now(r) \notin Deployed]
          /\ idx' = [idx EXCEPT ![r] = @ + 1]
          /\ UNCHANGED pc
  /\ UNCHANGED <<chain, slot, fresh, failures, handbacks>>

\* One presence read of run: the flags are read once, before any section.
\* The code reads the entry contracts, the Platform Verifiers and then the
\* circuits; the order of the sections stands for it, since of the last two
\* kinds only needs_factory_deploy is kept.
ReadPresence(r) ==
  /\ pc[r] = "presence"
  /\ IF AtEnd(r)
     THEN /\ idx' = [idx EXCEPT ![r] = 1]
          /\ Goto(r, IF needs[r] THEN "ensure" ELSE "section")
          /\ UNCHANGED <<seen, needs>>
     ELSE LET there == Now(r) \in Deployed
          IN /\ seen' = [seen EXCEPT ![r] = IF there THEN @ \cup {Now(r)} ELSE @]
             /\ needs' = [needs EXCEPT ![r] = @ \/ ~there]
             /\ idx' = [idx EXCEPT ![r] = @ + 1]
             /\ UNCHANGED pc
  /\ UNCHANGED <<chain, slot, fresh, failures, handbacks>>

\* ensure_factory_ownership, its owner read.
EnsureOwner(r) ==
  /\ pc[r] = "ensure"
  /\ Goto(r, IF owner = Deployer THEN "section" ELSE "ensurePending")
  /\ UNCHANGED <<chain, slot, fresh, local, failures, handbacks>>

\* Fault: a factory owned elsewhere is polled instead of refused.
EnsurePolls(r) ==
  /\ pc[r] = "ensurePending"
  /\ IF pending = Deployer
     THEN Send(r, TxOf(r, "accept", None), "accepting")
     ELSE /\ Goto(r, "ensure")
          /\ UNCHANGED <<chain, slot, fresh, local, failures, handbacks>>

\* ensure_factory_ownership, its pendingOwner read and acceptOwnership.
EnsurePending(r) ==
  /\ pc[r] = "ensurePending"
  /\ IF pending = Deployer
     THEN Send(r, TxOf(r, "accept", None), "accepting")
     ELSE /\ Goto(r, "failed")
          /\ UNCHANGED <<chain, slot, fresh, local, failures, handbacks>>

\* A component's section: the cached flag for the five entry contracts, a
\* fresh read for circuit verifiers and Platform Verifiers.
Section(r) ==
  /\ pc[r] = "section"
  /\ CASE AtEnd(r) -> Goto(r, "converge") /\ UNCHANGED idx
       [] ~AtEnd(r) /\ Now(r) \in (IF Now(r) \in Late THEN Deployed ELSE seen[r]) ->
            idx' = [idx EXCEPT ![r] = @ + 1] /\ UNCHANGED pc
       [] OTHER -> /\ Goto(r, IF Now(r) \in Bare THEN "named" ELSE "record")
                   /\ UNCHANGED idx
  /\ UNCHANGED <<chain, slot, fresh, seen, needs, failures, handbacks>>

\* deployedAt before paying for an implementation (deploy_named_proxy), and
\* again before the deploy (factory_deploy_named).  With a record both go on
\* to the next section; on a standard chain the record is the prediction.
ReadRecord(r, l, absent) ==
  /\ pc[r] = l
  /\ IF Now(r) \in Deployed
     THEN Goto(r, "section") /\ idx' = [idx EXCEPT ![r] = @ + 1]
     ELSE Goto(r, absent) /\ UNCHANGED idx
  /\ UNCHANGED <<chain, slot, fresh, seen, needs, failures, handbacks>>

ProxyRecord(r) == ReadRecord(r, "record", "impl")
NamedRecord(r) == ReadRecord(r, "named", "nonce")

\* Fault: the implementation's confirmation is not awaited.
ImplementationUnawaited(r) ==
  /\ pc[r] = "impl"
  /\ Send(r, TxOf(r, "impl", Now(r)), "named")

DeployImplementation(r) ==
  /\ pc[r] = "impl"
  /\ Send(r, TxOf(r, "impl", Now(r)), "building")

FetchNonce(r) ==
  /\ pc[r] = "nonce"
  /\ fresh' = fresh \cup {r}
  /\ Goto(r, "send")
  /\ UNCHANGED <<chain, slot, local, failures, handbacks>>

\* factory.deploy under the nonce fetched before: no retry here.
SendDeploy(r) ==
  /\ pc[r] = "send"
  /\ LET t == TxOf(r, "deploy", Now(r))
     IN \/ r \in fresh /\ Accepts(t) /\ Goto(r, "deploying")
        \/ r \in fresh /\ Refuses(t) /\ Goto(r, "failed")
        \/ r \notin fresh /\ UNCHANGED slot /\ Goto(r, "failed")
  /\ fresh' = fresh \ {r}
  /\ UNCHANGED <<chain, local, failures, handbacks>>

\* Fault: a confirmed deploy is taken for a record.
RereadSkipped(r) ==
  /\ pc[r] = "reread"
  /\ Goto(r, "section") /\ idx' = [idx EXCEPT ![r] = @ + 1]
  /\ UNCHANGED <<chain, slot, fresh, seen, needs, failures, handbacks>>

\* The re-read of deployedAt: anything but the prediction stops the run.
Reread(r) ==
  /\ pc[r] = "reread"
  /\ IF Now(r) \in Deployed
     THEN Goto(r, "section") /\ idx' = [idx EXCEPT ![r] = @ + 1]
     ELSE Goto(r, "broken") /\ UNCHANGED idx
  /\ UNCHANGED <<chain, slot, fresh, seen, needs, failures, handbacks>>

\* Fault: the comparison with the declared owner is the wrong way round.
ConvergeInverted(r) ==
  /\ pc[r] = "converge"
  /\ Goto(r, IF owner = Desired[r] /\ owner = Deployer
             THEN "convergePending" ELSE "done")
  /\ UNCHANGED <<chain, slot, fresh, local, failures, handbacks>>

\* converge_factory_owner, its owner read.  A factory owned by a third key
\* is reported and the run goes on.
ConvergeOwner(r) ==
  /\ pc[r] = "converge"
  /\ Goto(r, IF owner # Desired[r] /\ owner = Deployer
             THEN "convergePending" ELSE "done")
  /\ UNCHANGED <<chain, slot, fresh, local, failures, handbacks>>

\* converge_factory_owner, its pendingOwner read and transferOwnership.
ConvergePending(r) ==
  /\ pc[r] = "convergePending"
  /\ IF pending # Desired[r]
     THEN Send(r, TxOf(r, "transfer", None), "transferring")
     ELSE /\ Goto(r, "dev")
          /\ UNCHANGED <<chain, slot, fresh, local, failures, handbacks>>

\* On a dev chain the run accepts for the new owner by impersonation; the
\* node may refuse an acceptance that would revert.
DevAccept(r) ==
  /\ pc[r] = "dev"
  /\ \/ /\ dev /\ pending = Desired[r]
        /\ owner' = Desired[r] /\ pending' = None /\ Goto(r, "done")
     \/ /\ ~dev \/ pending # Desired[r]
        /\ UNCHANGED <<owner, pending>> /\ Goto(r, "done")
     \/ /\ dev /\ pending # Desired[r]
        /\ UNCHANGED <<owner, pending>> /\ Goto(r, "failed")
  /\ UNCHANGED <<standard, dev, installed, record, built, slot, fresh, local,
                 failures, handbacks>>
-----------------------------------------------------------------------------
(* The end of a run, and the environment.                                  *)

\* A crash, a failed RPC or a lost confirmation at any await.
Abort(r) ==
  /\ pc[r] \notin Stopped
  /\ failures < MaxFailures
  /\ failures' = failures + 1
  /\ fresh' = fresh \ {r}
  /\ Goto(r, "failed")
  /\ UNCHANGED <<chain, slot, local, handbacks>>

\* A run whose transaction was replaced or dropped waits for a receipt that
\* never comes, until the job's timeout or its operator ends it.
Timeout(r) ==
  /\ pc[r] \in Waiting
  /\ slot \notin {t \in Tx : t.by = r}
  /\ Goto(r, "failed")
  /\ UNCHANGED <<chain, slot, fresh, local, failures, handbacks>>

\* Fault: the position starts before the first name.
RerunFromZero(r) ==
  /\ pc[r] \in {"failed", "broken"}
  /\ Goto(r, "install")
  /\ idx' = [idx EXCEPT ![r] = 0]
  /\ seen' = [seen EXCEPT ![r] = {}]
  /\ needs' = [needs EXCEPT ![r] = FALSE]
  /\ UNCHANGED <<chain, slot, fresh, failures, handbacks>>

\* The operator runs apply again.
Rerun(r) ==
  /\ pc[r] \in {"failed", "broken"}
  /\ Goto(r, "install")
  /\ idx' = [idx EXCEPT ![r] = 1]
  /\ seen' = [seen EXCEPT ![r] = {}]
  /\ needs' = [needs EXCEPT ![r] = FALSE]
  /\ UNCHANGED <<chain, slot, fresh, failures, handbacks>>

OwnerAccepts ==
  /\ pending \in Account \ {Deployer}
  /\ owner' = pending
  /\ pending' = None
  /\ UNCHANGED <<standard, dev, installed, record, built, slot, fresh, pc, local,
                 failures, handbacks>>

OwnerHandsBack ==
  /\ owner \in Account \ {Deployer}
  /\ handbacks < MaxHandbacks
  /\ handbacks' = handbacks + 1
  /\ pending' = Deployer
  /\ UNCHANGED <<standard, dev, installed, owner, record, built, slot, fresh, pc,
                 local, failures>>

Step(r) ==
  \/ Install(r) \/ ReadPresence(r) \/ EnsureOwner(r) \/ EnsurePending(r)
  \/ Section(r) \/ ProxyRecord(r) \/ NamedRecord(r) \/ DeployImplementation(r)
  \/ FetchNonce(r) \/ SendDeploy(r) \/ Reread(r)
  \/ ConvergeOwner(r) \/ ConvergePending(r) \/ DevAccept(r)

Next ==
  \/ Mine
  \/ Evict
  \/ OwnerAccepts
  \/ OwnerHandsBack
  \/ \E r \in Run : Step(r) \/ Abort(r) \/ Timeout(r) \/ Rerun(r)

Spec == Init /\ [][Next]_vars

\* A run takes its next step, the chain mines, a hung job times out.
FairSpec ==
  /\ Spec
  /\ WF_vars(Mine)
  /\ \A r \in Run : WF_vars(Step(r)) /\ WF_vars(Timeout(r))

\* Besides, a failed run is run again and a pending owner accepts.
RerunSpec ==
  /\ FairSpec
  /\ WF_vars(OwnerAccepts)
  /\ \A r \in Run : WF_vars(Rerun(r))
-----------------------------------------------------------------------------
(* The lines plan prints about the same chain.                             *)

CodeLine(n)   == IF n \in Deployed THEN "ok" ELSE "deploy"
RecordLine(n) == IF n \in Deployed THEN "ok" ELSE "skipped"

\* Against the declared owner d, None when the file leaves it empty.
OwnerLine(d) ==
  IF d # None /\ d # owner THEN "configure" ELSE "ok"
-----------------------------------------------------------------------------
(* Properties.                                                             *)

\* What a run knows to be deployed: its presence flags, and the names whose
\* sections are behind it.
Known(r) ==
  CASE pc[r] \in {"failed", "broken"} -> {}
    [] pc[r] \in {"install", "presence"} -> seen[r]
    [] OTHER -> seen[r] \cup {Order[r][i] : i \in {j \in DOMAIN Order[r] : j < idx[r]}}

Progress(r) ==
  CASE pc[r] = "done"                -> "done"
    [] pc[r] \in {"failed", "broken"} -> "stopped"
    [] OTHER                         -> "running"

Promise == INSTANCE Convergence WITH
  Run    <- Run,
  Fact   <- Name,
  Wanted <- [r \in Run |-> {Order[r][i] : i \in DOMAIN Order[r]}],
  true   <- Deployed,
  found  <- [r \in Run |-> Known(r)],
  state  <- [r \in Run |-> Progress(r)],
  undone <- 0

\* No run takes a name for deployed that neither it nor another run got a
\* record for, no step of one takes a name away that another one counts
\* on, and only one that has come past every name of its file ends well:
\* whatever becomes of the calls in the pool.
KeepsPromise == Promise!Spec

\* A run that ends well leaves every name of its file deployed, whichever
\* run deployed it and although no receipt status is read.
SuccessMeansDeployed ==
  \A r \in Run : pc[r] = "done" =>
    \A i \in DOMAIN Order[r] : Order[r][i] \in Deployed

\* An entry proxy points at an implementation its deploying run saw
\* confirmed, even when the pool replaced or dropped that run's calls.
ProxyHasImplementation ==
  \A n \in Deployed \ Bare : <<record[n], n>> \in built

\* On a chain with another CREATE2 derivation no call is ever sent through
\* the factory: the canary stops the run first.
CanaryHolds == ~standard => slot = None /\ Deployed = {}

\* Once every run has ended well and the pool is empty, the factory is not
\* left with the deployer when a declared owner awaits it, whatever runs
\* took it back in between to deploy, as long as none of them died: the
\* call of a dead one may still be mined behind them.
HandedOver ==
  (failures = 0 /\ slot = None /\ \A r \in Run : pc[r] = "done") =>
    \E r \in Run : OwnerLine(Desired[r]) = "ok" \/ pending = Desired[r]

\* A run that stops because "the deterministic invariant is broken" saw a
\* record that is not the prediction, never a name without a record.
BrokenMeansMismatch == \A r \in Run : pc[r] # "broken"

\* Every run ends: a replaced or dropped call hangs it only until the
\* timeout, and two runs sharing the key never wait on each other.
EveryRunEnds == \A r \in Run : []<>(pc[r] \in Stopped)

\* Reruns converge: every name is deployed for good and the factory ends
\* with the declared owner, although each rerun starts from what the
\* interrupted one left.
RerunsConverge ==
  standard => \A r \in Confirm :
    <>[](pc[r] = "done" /\ owner = Desired[r])
=============================================================================
