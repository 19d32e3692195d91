------------------------------ MODULE MCFactory ------------------------------
(* Two runs share the factory: a host run with an older binary and a       *)
(* workflow run whose binary adds a circuit verifier and its proxy.        *)
EXTENDS Factory

CONSTANTS host, ci, notary, circuit, platform, deployer, safe

RunVal     == {host, ci}
NameVal    == {notary, circuit, platform}
OrderVal   == [r \in RunVal |-> IF r = host THEN <<notary>>
                                ELSE <<notary, circuit, platform>>]
AccountVal == {deployer, safe}
DesiredVal == [r \in RunVal |-> safe]

\* One run at a time, rerun until it succeeds.
SoloRun     == {ci}
SoloOrder   == [r \in SoloRun |-> OrderVal[ci]]
SoloDesired == [r \in SoloRun |-> safe]

\* The workflow's queue: ci starts once host is through.  In between the
\* file stopped declaring an owner, so ci's falls back to the deployer.
QueuedSpec  == Init /\ [][Next /\ (pc'[ci] # pc[ci] => pc[host] = "done")]_vars
DesiredEdit == [r \in RunVal |-> IF r = host THEN safe ELSE deployer]

\* "At the end of every run it converges ownership onto `owner`": a last
\* run that ends with the factory at its file's owner leaves no hand-over
\* to the owner of an earlier file behind.
LastFileWins == pc[ci] = "done" /\ slot = None /\ owner = Desired[ci]
                  => pending \in {None, Desired[ci]}

\* "Missing; `apply` would deploy it": a run nobody interrupts or outruns
\* does not end with a name of its file still missing.
DeployLineDeploys ==
  pc[ci] \in Stopped => \A n \in Name : CodeLine(n) # "deploy"
=============================================================================
