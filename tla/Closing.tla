------------------------------- MODULE Closing -------------------------------
(***************************************************************************)
(* The Safe of module Safe as what the file names owner of the factory and *)
(* recipient of the notary fees.  A run gives it both before it creates    *)
(* the Safe: setFeeRecipient in its first section, the hand-over of the    *)
(* factory behind its last one, the Safes at its very end.  On a dev chain *)
(* the run accepts the factory in the Safe's name.  Runs overlap and die   *)
(* in between; a chain without the Safe contracts stops each at the end.   *)
(*                                                                         *)
(* Every name of the file is deployed here; Factory has the runs that      *)
(* still need the factory.                                                 *)
(***************************************************************************)
EXTENDS Safe

CONSTANT TheSafe   \* the Safe's address

ASSUME ClosingConstants == TheSafe \notin Owner \cup {None}

VARIABLES
  dev,        \* web3_clientVersion reports anvil or hardhat
  recipient,  \* NotaryService.feeRecipient
  owner,      \* LibidFactory.owner
  pending,    \* LibidFactory.pendingOwner
  phase       \* phase[r]: how far r is, ahead of its Safes

authority   == <<dev, recipient, owner, pending>>
closingVars == <<vars, authority, phase>>

Phase == {"recipient", "setRecipient", "owner", "pending", "transfer", "dev", "safes"}

ClosingTypeOK ==
  /\ TypeOK
  /\ dev \in BOOLEAN
  /\ recipient \in {None, TheSafe}
  /\ owner \in {Deployer, TheSafe}
  /\ pending \in {None, TheSafe}
  /\ phase \in [Proc -> Phase]
  /\ \A r \in Proc : phase[r] # "safes" => pc[r] \in {"contracts", "failed"}

ClosingInit ==
  /\ Init
  /\ dev \in BOOLEAN
  /\ recipient = None
  /\ owner = Deployer
  /\ pending = None
  /\ phase = [r \in Proc |-> "recipient"]

\* A run that has not failed goes from one phase to another.
Pass(r, from, to) ==
  /\ pc[r] \notin Ended
  /\ phase[r] = from
  /\ phase' = [phase EXCEPT ![r] = to]
  /\ UNCHANGED vars

\* Nothing but the run itself: its transaction reverted.
Fails(r, from) ==
  /\ pc[r] \notin Ended
  /\ phase[r] = from
  /\ pc' = [pc EXCEPT ![r] = "failed"]
  /\ UNCHANGED <<canonical, declared, safe, first, current, aborts, changes, phase>>
-----------------------------------------------------------------------------
\* notary_service, its last setting.
ReadRecipient(r) ==
  /\ Pass(r, "recipient", IF recipient = TheSafe THEN "owner" ELSE "setRecipient")
  /\ UNCHANGED authority

SetRecipient(r) ==
  /\ Pass(r, "setRecipient", "owner")
  /\ recipient' = TheSafe
  /\ UNCHANGED <<dev, owner, pending>>

\* converge_factory_owner, its two reads.
ReadOwner(r) ==
  /\ Pass(r, "owner", IF owner = TheSafe THEN "safes" ELSE "pending")
  /\ UNCHANGED authority

ReadPending(r) ==
  /\ Pass(r, "pending", IF pending = TheSafe THEN "dev" ELSE "transfer")
  /\ UNCHANGED authority

\* transferOwnership reverts once the factory has a new owner.
Transfer(r) ==
  \/ /\ owner = Deployer
     /\ Pass(r, "transfer", "dev")
     /\ pending' = TheSafe
     /\ UNCHANGED <<dev, recipient, owner>>
  \/ /\ owner = TheSafe
     /\ Fails(r, "transfer")
     /\ UNCHANGED authority

\* Fault: the node's client is not asked.
ImpersonateAnywhere(r) ==
  /\ Pass(r, "dev", "safes")
  /\ IF pending = TheSafe THEN owner' = TheSafe /\ pending' = None
                          ELSE UNCHANGED <<owner, pending>>
  /\ UNCHANGED <<dev, recipient>>

\* On a dev chain the run impersonates the new owner, code or none; the
\* node may refuse an acceptance that has been made before.
Impersonate(r) ==
  \/ /\ dev /\ pending = TheSafe
     /\ Pass(r, "dev", "safes")
     /\ owner' = TheSafe /\ pending' = None
     /\ UNCHANGED <<dev, recipient>>
  \/ /\ ~dev \/ pending # TheSafe
     /\ Pass(r, "dev", "safes")
     /\ UNCHANGED authority
  \/ /\ dev /\ pending # TheSafe
     /\ Fails(r, "dev")
     /\ UNCHANGED authority

ClosingStep(r) ==
  \/ ReadRecipient(r) \/ SetRecipient(r) \/ ReadOwner(r) \/ ReadPending(r)
  \/ Transfer(r) \/ Impersonate(r)
  \/ phase[r] = "safes" /\ Step(r) /\ UNCHANGED <<authority, phase>>

\* apply again, from its first section.
ClosingRerun(r) ==
  /\ Rerun(r)
  /\ phase' = [phase EXCEPT ![r] = "recipient"]
  /\ UNCHANGED authority

\* The Safe's owners sign acceptOwnership.
SafeAccepts ==
  /\ safe # None /\ pending = TheSafe
  /\ owner' = TheSafe /\ pending' = None
  /\ UNCHANGED <<vars, dev, recipient, phase>>

ClosingNext ==
  \/ \E r \in Proc : ClosingStep(r) \/ ClosingRerun(r)
  \/ \E r \in Proc : Abort(r) /\ UNCHANGED <<authority, phase>>
  \/ AnyoneCreates /\ UNCHANGED <<authority, phase>>
  \/ OwnersChange /\ UNCHANGED <<authority, phase>>
  \/ SafeAccepts

\* Every run goes on, apply is run again, and the Safe's owners accept.
ClosingSpec ==
  /\ ClosingInit
  /\ [][ClosingNext]_closingVars
  /\ WF_closingVars(SafeAccepts)
  /\ \A r \in Proc : WF_closingVars(ClosingStep(r)) /\ WF_closingVars(ClosingRerun(r))
-----------------------------------------------------------------------------
\* The Safe exists and, unless its owners changed it since, is as declared
\* or out of the deployer's sole control.
Stands ==
  /\ safe # None
  /\ changes = 0 => SameAs(safe, declared) \/ ~SignsAlone(safe, Deployer)

\* What a run that ends well leaves with the Safe, the fees and the
\* factory, is with a Safe that stands, although it was given away before
\* the Safe was there and whatever run created it.
AuthorityStands ==
  \A r \in Proc : pc[r] \in {"same", "reported", "set"} =>
    /\ Stands
    /\ recipient = TheSafe
    /\ TheSafe \in {owner, pending}

\* Off a dev chain the factory is never owned by an address without code:
\* while the Safe does not exist the hand-over stays pending and the
\* deployer can still hand it to another.
StaysReachable == owner = TheSafe => safe # None \/ dev

\* Reruns settle all three although each may stop another one's transaction
\* half way: the Safe handed over, fees and factory with it.
RerunsSettle ==
  canonical => <>[](/\ safe # None
                    /\ SameAs(safe, declared) \/ ~SignsAlone(safe, Deployer)
                    /\ recipient = TheSafe /\ owner = TheSafe)
=============================================================================
