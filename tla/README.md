# TLA+ models of libid-deploy

`libid-deploy` (under `bin/libid-deploy/`) is a command line program that
brings a chain to what a declarative network file says: `validate` checks the
file, `plan` prints what differs, `apply` deploys and configures until nothing
does. One run is sequential, but it awaits an RPC answer at every step, it can
die at each of them, it is repeated by hand or by the workflow, and it is never
alone: a host run and a workflow run share one deployer key, owners hand the
factory over, accept and hand back, somebody rotates a proxy by hand, a Safe's
owners change it, and builds with another circuits release come before and
after. What a test on one anvil reaches is the run alone on a chain; these
models are about the rest.

Paths below are relative to `bin/libid-deploy/src/` unless they say otherwise.

## The system

| Component | State | Operations | What makes it correct |
|---|---|---|---|
| Factory and ownership (`apply.rs`) | on-chain: factory code, owner, pending owner, `deployedAt` records, implementations; in the run: presence flags, `needs_factory_deploy`, a fetched nonce | `install_factory`, presence reads in `run`, `ensure_factory_ownership`, `deploy_named_proxy`, `factory_deploy_named`, `converge_factory_owner` | a successful run leaves its names deployed, proxies point at confirmed implementations, the factory ends with the declared owner, reruns converge, no run hangs for good |
| Circuit and Platform Verifiers (`apply.rs`, `circuits.rs`, `platforms.rs`) | on-chain: verifier code, each proxy's pinned code hash and verifier, registrations; in the run: `Applier.circuits` | `Verifiers::site`, `circuit_verifier`, `platform_verifier`, `upgrade_proxy`, `converge_trust_roots`, `register_verifier`, `check_accepts_bindings` | a platform's proofs go on verifying, vendored code is never replaced, an upgrade left half done is visible and repaired |
| Entry contracts (`apply.rs`) | on-chain: implementation, signers, fee, recipient, pointers | `notary_service` ... `jwt_roots`, `converge_jwt_roots`, `upgrade_if_requested` | success means the file holds, pointers never dangle |
| Safes (`safes.rs`, `apply/safes.rs`) | on-chain: owners in list order, threshold | `calls_to`, `owner_set`, `safes`, `safe` | the batch is never refused, the hand-over is whole or nothing, a Safe that was handed over is left alone, what it is given before it exists does not get lost |
| `plan` (`plan.rs`, `plan/checks.rs`, `plan/safes.rs`) | none | one status line per fact | it tells what apply will send and how it ends |
| Network file, endpoint, signer, CLI (`config.rs`, `rpc.rs`, `signer.rs`, `main.rs`) | none | parse, validate, resolve | no mix of flag, secret, file and signer sends to another chain or from another key |
| Names (`names.rs`) | none | a table and a CREATE3 hash | compared with vectors by the tests |
| Workflow (`.github/workflows/apply.yml`) | the queue of one network's jobs, one running and one waiting | dispatch, preflight, plan, apply, timeout | one job at a time, each plan true until its apply, every dispatch ends; a host run is outside of it |

They interact through the chain alone: every component reads it, decides and
sends; nothing is kept between two runs, so what a run that died leaves behind
is exactly the chain's state (and what is still in the transaction pool).

## Modules

| Module | What it models | Properties |
|---|---|---|
| `Convergence` | what every run promises, whatever it converges: the abstract specification | `Factory` and `Stack` implement it (`KeepsPromise`) |
| `Factory` | several runs on one factory, an action per awaited call; the pool's slot for the account's next nonce; owners; crash, drop, timeout, rerun; `plan`'s lines about it | `SuccessMeansDeployed`, `ProxyHasImplementation`, `CanaryHolds`, `HandedOver`, `KeepsPromise`, `EveryRunEnds`, `RerunsConverge` |
| `Circuits` | step 6 by builds of several releases, upgrades, drift, crash; `plan`'s lines about it | `OkPlanMeansUsable`, `SuccessMeansUsable`, `KeepsVendored`, `StaysVendored`, `OkPlanSendsNothing`, `AdviceConverges` |
| `Stack` | steps 1 to 5 and the Google verifier's root list, over implementations of older releases; the `--upgrade` list and its count; `plan`'s lines about it | `DoneMeansConverged`, `PlanForetellsSends`, `PlanForetellsTheEnd`, `NoDanglingPointer`, `EveryUpgradeHasItsSection`, `KeepsPromise`, `AdviceConverges` |
| `SafeOwners` | owner sets, `calls_to`, Safe's OwnerManager as the tests replay it: operators only | used by the next two |
| `SafeBatch` | one batch, call by call | `NeverRefused`, `BatchConverges`, `NoWastedCall`, `KeepsShared` |
| `Safe` | one declared Safe under overlapping runs, its owners and strangers; `plan`'s line | `HandedOverWhole`, `OkOrWarnSendsNothing` |
| `Closing` | extends `Safe`: that Safe as owner of the factory and recipient of the fees, which a run names before it creates it; the dev chain's acceptance | `AuthorityStands`, `StaysReachable`, `RerunsSettle` |
| `Invocation` | what one call makes of flag, file and signer before it sends: operators only | used by the next one |
| `Workflow` | the jobs of one network, the queue, the timeout, host runs, new versions of the file | `RightChain`, `PlanStaysTrue`, `DoneMeansItsFile`, `EveryDispatchEnds` |
| `FactoryProofs`, `FactoryPromiseProofs` | theorems about `Factory` | see below |
| `CircuitsProofs`, `StackProofs`, `WorkflowProofs` | theorems about `Circuits`, `Stack` and `Workflow` | see below |
| `OwnersProofs` | lemmas about `SafeOwners`, for the next two | |
| `SafeBatchProofs`, `ClosingProofs` | theorems about `SafeBatch` and about `Closing` and `Safe` | see below |
| `MC*` | constants for TLC; the two properties of `Factory` that a doc states and the code does not keep | |

Operators named in a comment that begins `Fault:` are what a plausible mistake
would make of the definition after them. No specification uses them; they
document, one per property, a mistake the property catches.

### How state and actions correspond to the code

*Factory.* A run is a `pc` per process. `Install` is `install_factory` (its guard, the
CREATE2 gate, `FactoryGenesis::ensure` and the canary in one step: `standard`
says whether the chain derives addresses the way the canary wants).
`ReadPresence` is one `code_present` of `run`; the flags end in `seen[r]` and
stay as they are, as in the code. The code reads entry contracts, Platform
Verifiers and circuits in this order (`apply.rs:386-417`), the model in the order
of the sections; of the last two kinds only `needs_factory_deploy` is kept. `Section` decides with `seen` for the entry
contracts and with a fresh read for the names in `Late` (circuit and Platform
Verifiers), as their sections do. `ProxyRecord`, `DeployImplementation`,
`NamedRecord`, `FetchNonce`, `SendDeploy` and `Reread` are the awaited calls of
`deploy_named_proxy` and `factory_deploy_named`; the names in `Bare` enter at
`NamedRecord`. `ConvergeOwner`, `ConvergePending` and `DevAccept` are
`converge_factory_owner`. Sends put a call into `slot`; `Mine` executes it and
hands the receipt to its sender. The slot holds one transaction, because every
sender uses the latest nonce: a second one replaces the first or is refused. A
call that gas estimation would see revert is refused when it is sent; one that
reverts later does so in the block. `send_with_nonce_retry!` retries a stale
nonce, `SendDeploy` does not.

*Circuits.* `code` is the code hash at an address, `proxy[p]` what platform
`p`'s proxy pins and points at. `Locate` fills `site` (`Applier.circuits`) in
any order, for a set of platforms whose read fails. Each later action is one
function of step 6. `Named(b, c)` is `factory_name`: circuit and release.

*Stack.* `holds[s]` is the set of values of setting `s` on-chain: a set
because signers are several. `SettingsOf` lists what each section reads, in
order; `Read` is one getter and its comparison, `Send` the setter. `impl` says
whether a proxy runs this release's implementation or an older one, `lacks`
what getters the older ones do not answer. The presence flags are not here:
behind a stale one `deploy_named_proxy` finds the record and takes the proxy
as it is, which `Factory` shows call by call. `foreseen`, `warned` and
`touched` are history variables that only properties read. `Foreseen` is what
`plan` has a line for: of a proxy it does not find it says `deploy`, and of that
proxy's settings nothing (`plan.rs:281-310`). `Advised` follows the warnings that
name `--upgrade` as the remedy; the others (`Advises`) do not.

*Safes.* On-chain owners are a sequence (Safe's linked list), declared ones
too. `Round` is one round of `calls_to`'s loops on its variables, the list and
threshold its calls so far come to, and the calls: the last declared owner that
is missing is added (the code goes through them from the back), then the first
extra one is removed, then the threshold set. `Loop` is what the variables are
after each round, for as many rounds as the two lists can need. `Takes` and `Run` are the OwnerManager of the tests'
`replay`, `Batch` the multiSend: all calls or none. In `Safe` every read and
every transaction of `Applier::safe` is a step, `owner_set` two of them.

*Closing.* `phase[r]` is where a run is before its Safes: the read of
`feeRecipient` and its setter (`notary_service`'s last setting), the two reads
of `converge_factory_owner`, `transferOwnership`, and the dev chain's
impersonated acceptance (one step; a second acceptance may be refused by the
node). With `phase[r] = "safes"` the run takes the steps of `Safe`. The factory
starts with the deployer and every name is deployed: what a run does to deploy
through a factory it no longer owns is in `Factory`.

*Convergence.* A run has facts it has `found` and facts that are `true`. It may
find any fact that is true after its step, may end well only with all it wants,
and may take no fact away; others may, or may ask for something else. Under
`Factory`'s mapping a fact is a name with a record, and a run has found what it
saw present and what its sections are past (`Known`). Under `Stack`'s a fact is
a proxy with code or a setting at its declared value, and the run has found what
is `Behind` it. The two are as different as the code gets: several runs, a pool
and no interference there, one run, any order of interference and a changing
file here.

*Invocation.* An endpoint that parses is a member of `Url`, one that does not is
`Garbage`; a signer specification is known by its `Shape` (hex of 64 digits, hex
of another length, something else, blank), a key by the account it signs as.
`Named` and `Resolve` are `RpcEndpoint`'s functions, `Valid` is
`NetworkConfig::validate`, `Asks` what `main` checks before the prompt,
`Connects` what `Applier::connect` and the head of `run` check before the first
read. An unset secret is an empty flag to the binary, which is garbage; the
workflow stops before that.

*Workflow.* `run[r]` is one record per dispatch and per host run. `Start` is the
concurrency group: one job that is `Busy`, one that waits, and a third takes the
place of the waiting one, as GitHub documents `concurrency` with
`cancel-in-progress: false`. `PlanStep` is the preflight and the always-run plan,
which only read; its reading of the chain is one step. What an apply converges
is two halves of the chain's content, each the number of the version it was set
from: two, so that a job can be cut or overtaken in between. `Timeout` ends a job
anywhere and may leave the call it has sent, which `Land` executes later.
`Dispatch` takes any version there is: the dispatcher picks the ref, and a job that
is re-run keeps its commit. `Invoke`, `Confirm` and `Interrupt` are a run from a
host, with any version of the file checked out there. `planned` is a history
variable: the chain as the job's plan read it, given up when somebody outside of
the queue changes it.

## Runs

| Run | Shows | Distinct states |
|---|---|---|
| `Factory` | two overlapping runs (one with an older list of names), one failure, two hand-backs; any chain, dev or not, standard or not; the refinement of `Convergence` | 308,000 |
| `FactoryRerun` | one run, three failures, repeated: liveness | 2,600 |
| `Circuits` | two platforms on one circuit, three builds (one with the same code as another under a new release), three runs, two failures, one step of drift | 315,000 |
| `SafeBatch` | four owners: every start and every declarable set | 4,400 |
| `Closing` | three owners, three declared sets, two processes, one crash, one change by the owners; dev chain or not, Safe contracts or none | 130,000 |
| `Stack` | every prefix of the stack from an older release, two files, a pointer off, a list that names a component twice, one crash, one interference, one list of the operator's own or one change of the file; the refinement of `Convergence` | 1,015,000 |
| `Workflow` | three dispatches and a host run, three versions of the file, four values of the secret and the flag, four signers, two chains | 306,000 |
| `FactoryBroken`, `FactoryQueue`, `FactoryDeployLine`, `CircuitsNeedsUpgrade`, `StackOkPlan` | what a doc says and the code does otherwise (below) | |

Deadlock checking is off everywhere: runs end, and a system whose runs have all
ended may stop.

### Why the bounds are enough

* `MaxFailures`, `MaxAborts`, `MaxDrift`, `MaxHandbacks`, `MaxChanges`,
  `MaxRuns`, `MaxTurns` bound how often the environment acts. One failure at
  any step, before or after any step of the other run, makes each half-made
  state; a second and third one, where a run allows them, make half-made repairs
  of it. In `Factory` `Rerun` is not bounded at all.
* Two processes give every pairwise race; the code has no interaction of three.
* Three names: one entry contract (cached flag), one circuit verifier (no
  implementation, fresh read), one Platform Verifier (implementation and fresh
  read) are the three paths through the code. The theorems hold for any number.
* Three builds: a pair with equal code under two releases, a pair with
  different code. Two platforms on one circuit: what one platform's step does
  to the location the other shares.
* Four owners: a removal at the head, in the middle and at the tail of a list
  that keeps one. Owners' names do not matter to `calls_to`, so the Safe's own
  list is taken to be a prefix of one order.

* Three dispatches: one that runs, one that waits, one that displaces it. Three
  versions of the file: one without an endpoint, as a real network's, one that
  names its own, and one whose key is not its deployer's. Every pair of them can
  meet on the one chain.
* Three older releases in `Stack`: one that lacks the getters whose warnings
  advise an upgrade, one that lacks what `plan` does not read, one that lacks a
  getter whose warning names no remedy.
* `Stack` repeats one component in the list and leaves the others out; a
  component has one section, so a second repeated one would go the same way.

### Fairness

`Factory!FairSpec` has weak fairness of each run's next step, of `Mine` and of
`Timeout`. A process that awaits an RPC goes on when it answers; a chain mines
what is pooled; the workflow's job has `timeout-minutes: 45`
(`.github/workflows/apply.yml:80`). The code itself has no timeout: for a host
run `Timeout` is its operator, and without it `EveryRunEnds` fails, as it
should, at a replaced transaction. `RerunSpec` adds that a failed run is run
again and that a pending owner accepts. `Circuits`, `Stack` and `Closing` assume
that a run goes on and that the operator repeats it (`Settle`, `Rerun`) while
`plan` has an open line; failures are bounded, so finally a run gets through.
`Closing` adds that the Safe's owners sign the acceptance the run's summary asks
them for. `Workflow` assumes of the runner alone: what waits is started when the
group is free, and `timeout-minutes` holds. No step of a job is fair there, so
`EveryDispatchEnds` holds also behind a job that hangs.

## Findings

1. **`FactoryBroken`.** `factory_deploy_named` reads no receipt status
   (`apply.rs:1047-1050`). When the pending owner accepts the factory between
   the send and the block, the deploy reverts, `deployedAt` is zero, and the
   run stops with "the deterministic invariant is broken"
   (`apply.rs:1058-1061`), which it is not.
2. **`FactoryQueue`.** README.md:250-251 says every run ends by converging
   ownership, "Empty `owner` = the deployer, exact". `converge_factory_owner`
   returns when `owner()` matches (`apply.rs:864-866`), before it reads
   `pendingOwner`: a hand-over to the owner of an earlier file stays pending.
3. **`CircuitsNeedsUpgrade`.** `plan` says "apply needs --upgrade"
   (`plan/checks.rs:443-445`) where `apply` ends well without
   (`apply.rs:1195-1197`). In the trace a newer build dies between upgrade and
   rotation; an older build's run then succeeds while the platform verifies
   nothing. `plan`, by any build, warns of it (`OkPlanMeansUsable`).
4. **`StackOkPlan`.** `plan` never reads the Google verifier's `jwtRoots`
   (`plan.rs:485-531`), which `apply` converges (`apply.rs:1236-1257`): all
   lines ok, and a transaction.
5. **`FactoryDeployLine`.** `plan` says of a missing name "`apply` would deploy
   it" (`plan.rs:89`) after a hand-over too, when `ensure_factory_ownership`
   stops the run (`apply.rs:983-987`) and every other line of the plan, the
   factory's owner among them, is ok. README.md:220 names the condition; the
   plan does not.

More observations are not runs. A killed run's `acceptOwnership`
(`apply.rs:973-982`) stays in the pool and can be mined after every run has ended,
reruns of the dead one included, which leaves the factory with the deployer until
some later run. No property excludes that: `HandedOver` is stated of executions
without a dead run, and in `RerunsConverge` the only process owns the factory from
its install on and never pools an `acceptOwnership`. Where the workflow's queue is
kept, a rerun of the dead run usually repairs it, since it still needs the factory.
It does not when the name it was short of has landed meanwhile: a run is killed
behind its last deploy; its rerun reads presence before that deploy lands, accepts a
factory it does not need any more and is killed too; the third needs nothing, finds
the declared owner in place, ends well (`apply.rs:864-866`), and then the call is
mined.

`HandleEscrow.initialize` refuses a registry without `nodeKeyed`
(`apply.rs:692-694`), of which `plan` reads nothing: it says of the missing escrow that
`apply` would deploy it, and warns of nothing. `PlanForetellsTheEnd` names this as the
refusal no warning tells of, and `Stack!AdviceConverges` has to exclude the
release that lacks `nodeKeyed` and nothing `plan` reads; it also excludes those whose
warning names no remedy. Of a proxy it does not find `plan` prints the deploy and
not the two settings that follow it, `setProofVerifier` and `setFeeRecipient`:
`PlanForetellsSends` says so and bounds what goes unmentioned to these two. On a dev chain the run accepts the
factory for a declared Safe that has no code yet, and a run that dies before it
creates the Safe leaves it there until the next one (`StaysReachable` excepts dev
chains; `RerunsSettle` does not). In the workflow, a plan dispatched while an
apply waits takes its place, and the apply never runs. The comment over
`concurrency` says cancelling mid-flight is not safe and in-progress runs are
allowed to finish (`apply.yml:62-64`); the timeout ends them all the same, and
its last call may land behind the next job's plan, which is what `PlanStaysTrue`
and `DoneMeansItsFile` except. A host run does the same to both. And nothing in the
workflow compares a dispatch with the ones before it: a dispatch on an older ref
takes the chain back to an older file, and no property here says otherwise.

## Proofs

| Theorem | Module | States |
|---|---|---|
| `TypeCorrect` | `FactoryProofs` | `Spec => []TypeOK` |
| `Success` | `FactoryProofs` | `Spec => []SuccessMeansDeployed` |
| `Canary` | `FactoryProofs` | `Spec => []CanaryHolds` |
| `Implementation` | `FactoryProofs` | `Spec => []ProxyHasImplementation` |
| `HandOver` | `FactoryProofs` | `Spec => []HandedOver`, where there is a run at all |
| `KeepsIt` | `FactoryPromiseProofs` | `Spec => KeepsPromise`: `Factory` implements `Convergence` |
| `TypeCorrect` | `CircuitsProofs` | `Spec => []TypeOK` |
| `PlanIsRight` | `CircuitsProofs` | `Spec => []OkPlanMeansUsable` |
| `Success` | `CircuitsProofs` | `Spec => []SuccessMeansUsable` |
| `Stays`, `Keeps` | `CircuitsProofs` | `Spec => StaysVendored`, `Spec => KeepsVendored` |
| `OkSendsNothing` | `CircuitsProofs` | `Spec => OkPlanSendsNothing` |
| `TypeCorrect` | `StackProofs` | `Spec => []TypeOK` |
| `NothingDangles` | `StackProofs` | `Spec => []NoDanglingPointer` |
| `DoneIsConverged` | `StackProofs` | `Spec => []DoneMeansConverged` |
| `UpgradesCounted` | `StackProofs` | `Spec => []EveryUpgradeHasItsSection` |
| `PlanTellsSends`, `PlanTellsTheEnd` | `StackProofs` | `Spec => []PlanForetellsSends`, `Spec => []PlanForetellsTheEnd` |
| `KeepsIt` | `StackProofs` | `Spec => KeepsPromise`: `Stack` implements `Convergence` |
| `TypeCorrect` | `SafeBatchProofs` | `Spec => []TypeOK` |
| `OrderIsRight` | `SafeBatchProofs` | `Spec => []NeverRefused` |
| `Converges` | `SafeBatchProofs` | `Spec => []BatchConverges` |
| `NoneWasted`, `Shared` | `SafeBatchProofs` | `Spec => []NoWastedCall`, `Spec => KeepsShared` |
| `TypeCorrect` | `ClosingProofs` | `ClosingSpec => []ClosingTypeOK` |
| `Whole` | `ClosingProofs` | `ClosingSpec => []HandedOverWhole` |
| `Authority`, `Reachable` | `ClosingProofs` | `ClosingSpec => []AuthorityStands`, `ClosingSpec => []StaysReachable` |
| `SendsNothing` | `ClosingProofs` | `ClosingSpec => OkOrWarnSendsNothing` |
| `SendsRight` | `WorkflowProofs` | `Spec => []RightChain` |
| `TypeCorrect` | `WorkflowProofs` | `Spec => []TypeOK` |
| `StillTrue` | `WorkflowProofs` | `Spec => []PlanStaysTrue` |
| `ItsFile` | `WorkflowProofs` | `Spec => DoneMeansItsFile` |

They hold for every value of the constants that satisfies the named assumption of
the module, and TLC evaluates each of those in a run. The assumptions are about
what the constants are for: lists are lists of what they name, bounds are
naturals, `None` and the other marks are not values they stand beside
(`FactoryConstants`, `CircuitConstants`, `StackConstants`, `SafeConstants`,
`ClosingConstants`, `InvocationConstants`, `WorkflowConstants`). Four say something
of the code: `NamesFollowCode`, that a circuits release with new code has a new
name (`circuits.rs`); in `CircuitConstants`, that the launch list names every
platform and that nobody else's verifier has an address of a release's name;
`OwnerConstants`, that nobody declares Safe's sentinel as an owner and that keys
are finitely many; and in `SafeConstants`, that what a file declares has passed
`validate_safes`.

### Factory

None of the safety properties is inductive. `SuccessMeansDeployed` speaks of the end of a
run; the strengthening says of every point of it that the names behind are recorded:

* `PositionOK`: a run at a name is inside its order, one past the sections is
  past its end;
* `SlotOK`: when the sender of the pooled call waits for a receipt, it waits for
  that very call. Without it a receipt could release a run from another call's
  wait: a dead run's transaction, its rerun under the same key. It holds because a run can only
  wait after a send of its own, which replaced what it had left in the pool;
* `ProgressOK`: what is behind `idx[r]`, and what the cached flags say, is
  recorded. Records are never removed, so other runs cannot spoil it.

`IInv` is their conjunction with `TypeOK`, proved in one lemma per part
(`TypeStep`, `PositionStep`, `SlotStep`, `ProgressStep`) with one step per
action. `Canary` needs only that on a chain with another derivation every run
is at the install or has failed (`CanaryOK`). `Implementation` adds
`BuiltOK`: a run at or behind the record read has had the receipt of its
implementation, and so has the sender of a pooled deploy; `SlotOK` is what
makes the receipt that of the implementation.

`HandOver` is about the end of all runs; what holds before it is `TaskOK`: while
the deployer owns the factory and no declared owner is offered it, some run has
its hand-over still before it. A run that takes the factory back is itself that
run, and one at its hand-over gets behind it only by making it. `OwnersOK` says
who can own the factory or be offered it at all, and `AliveOK` where the absence
of failures comes in: the sender of a pooled `acceptOwnership` is alive, so that
when the call is mined there is a run to hand the factory over.

`KeepsIt` rests on the same invariant. `Knowledge` shows that what a run takes
for deployed (`Known`) is recorded, and at its end all of its file;
`RecordsStay` that no step takes a record away, whichever run, owner or pooled
call makes it; `RunStep` that a run's own step adds to what it knows only names
that are recorded after it (`Moves`), by one case per action; `Onwards` and
`Halts` that it touches no other run's knowledge; and `StepMaps` puts them
together: every step of `Factory` is a step of `Convergence` or a stutter.

### Circuits

`OkPlanMeansUsable` needs no history at all: it holds in every well-typed state
(`OkPlan`), because the plan's lines read the very facts that make a platform
usable. That is the theorem's content: no state, however it came about, lets a
build's plan be ok while a platform does not answer. The others are about runs:

* `SitesOK`: a located circuit is in use where this build's code is, or at this
  build's name for it, from the one time it was located to the end of the run;
* `NamesOK`: under a release's name there is that release's code or none, which
  is what makes `circuit_verifier`'s deploy safe to repeat, and why
  `NamesFollowCode` is assumed;
* `AtHandOK`: behind `circuit_verifier` the located address has this build's code;
* `BehindOK`: every platform behind the run answers if it runs this build's
  implementation (`Good`), except one the launch list names a second time while it is
  worked on again;
* `RotationOK`: when `setTrustRoots` is sent and the owner did not come between,
  the proxy was off the vendored code.

`StepKeeps` is the action property behind `Stays` and `Keeps`.

### Stack

A run is in one place of a list of lists: section `sec`, setting `pos`. `PlaceIs`
and `Everywhere` say that every setting has exactly one place, `PastIs` and
`BehindIs` what is `Behind` a run by comparing places, `Moves` and `Ahead` how one
step changes it. On these rest the parts of `IInv`:

* `InOrder`: proxies are deployed from the first section on, so that what a
  pointer is meant for is there before the proxy that holds the pointer; a proxy
  without code holds nothing. `NothingDangles` follows with one look at the order of the
  sections;
* `BehindOK`: what is behind is as the file says unless the owner set it since;
* `CountOK`: `upgraded` is the number of entries of the `--upgrade` list whose
  component is behind; at the end all components are, so the count is the
  list's length, however often it repeats one;
* `AtSetting`: what is about to be sent was asked for and read as different;
* `Told`: of everything ahead, the plan before the run says what there is; of
  everything behind, what was sent; of the settings of a proxy it told the deploy of,
  nothing, and behind the run only those `initialize` does not take (`Unwritten`) were
  sent. `PlanTellsSends` is `Told` where nothing is
  ahead; `PlanTellsTheEnd` is inductive beside it, as the warnings at the places a
  run refuses to pass.

For the refinement, `RunKeepsTrue` shows that no step of a run makes a fact
untrue, `RunFinds` that what gets behind is true, and `StepMaps` maps each
action to its step of `Convergence`: the drift to `Interfere`, a change of the file
to `Redeclare`.

### Owner sets, batches and the hand-over

`OwnersProofs` holds the argument about `calls_to` that its doc comment makes in a
sentence, "the batch never reverts on its own ordering" (`safes.rs:211-212`).
`Left(s, t)` counts the owners that differ and whether the thresholds do. `AddMoves`,
`RemoveMoves` and `ChangeMoves` show of each of the three calls, when a round makes
it, that the OwnerManager takes it, that it leaves a set a Safe may hold and
every shared owner in it, and that less is left (`Moves`); `RoundMoves` that a
round makes one of them until nothing is left. `LoopRounds` shows that the
recursive function `Loop` satisfies its equation, `CallsLead` that the calls it has collected
lead (`Leads`) from the first set to the declared one: there is a history of sets with a call between
each two. What would be an induction over the rounds is done with a least
element of a set of naturals (`LeastOf`): the first round at which a claim failed.
The same way `RanCalls` and `BatchLeads` follow the batch as the Safe runs it.

In `SafeBatch` the invariant is then that the calls still to run lead from the
Safe's set to the declared one (`OnTheWay`): `LeadsOn` takes one call off.

In `Closing` several runs hold what they read of a Safe that others change. `ProcOK`
says what a run may know: the Safe it has read is there; its first read was of a
set a Safe held, but what it assembled of two reads may be torn, owners of one
set under the threshold of another (`Torn`), which only has to be a list without
repetition; and unless the owners changed the Safe, what it knows is the
bootstrap's set, or the Safe is as declared by now (`Given`). The step that
matters is `Exec`: `ExecEffect` shows that a batch built on the bootstrap's set leaves the declared
one, and that a batch prepared before another run handed the Safe over is
refused where it still could be executed (`SecondRefused`): its first call adds
an owner the Safe has by now, or removes one it has no more; that it changes
a threshold is excluded, because the deployer signs alone before and after. `Authority` adds what the phases behind a run have given the Safe
(`PhaseOK`, `KeepsGiven`), `Reachable` is inductive beside it. The theorems about `Safe`
are proved of `ClosingSpec`, the specification its run checks.

### Workflow

`RightChain` speaks of runs that send; its
strengthening (`IInv`) says what each has been through by then:
one at the prompt was asked about its file (`Asks`), one between the halves has
also connected (`Connects`), both with the flag, the version and the signer it
still has, and a job never has a signer of its own (`Given`). `Reaches` then is the
argument of `rpc.rs` and `main.rs`: asked and connected means the declared chain
and the key of the addresses.

The queue needs more (`QInv`): one job at most works and one at
most waits (`OneAtATime`); what the job at work has read, and what its first half
has set, is still so (`StillSo`). `StillSo` is what the concurrency group buys: without
`OneAtATime` another job's `Converge` would break it, and with a host run or a late
transaction the job's `planned` is given up instead. `Quiet` is the frame lemma (a
step that starts no work and sets no chain keeps both), `DispatchQueues`,
`WorksOn` and `Sends` are the three steps that do more.

### Only model-checked

The liveness properties: `EveryRunEnds`, `RerunsConverge`, `AdviceConverges` (two),
`RerunsSettle`, `EveryDispatchEnds`. The prover has no rule for fairness and
ENABLED. The five runs that find a disagreement show a trace, and need no
proof.

## Not modelled

* TOML parsing, prediction of addresses, redaction, rendering, the lines of the
  CREATE2 deployer and the chain id in `plan`, and `plan`'s and `validate`'s
  options (`--json`, `--print-addresses`, `--check-rpc`): pure functions, or
  reads that send nothing, with tests of their own.
* The contracts are those of another repository: their steps are what this code
  expects of them, marked external in `PROJECT.json`.
* Amounts, gas, balances (a key is funded), AWS roles, and where the workflow's
  binary comes from: that builds differ is in `Circuits` and `Factory`.
* `RootsRotation`: a keeper's business, as its line says. `AcceptsBindings` and
  `check_accepts_bindings`' message: they follow the registration.
* The chain's reorganisations: `apply` takes a receipt for final, and so do the models.

## Plan

Done, in the order of what a failure would cost: `Factory` and its theorems,
`SafeOwners`, `SafeBatch`, `Safe`, `Circuits`, `Stack`; then the abstract
specification with its two refinements; the Safe in
authority (`Closing`); the command's own checks and the workflow (`Invocation`,
`Workflow`); then the proofs, module by module.

The proofs now cover every invariant and every action property that a run
checks, and both refinements. Next:

1. What the liveness properties rest on and the prover can reach: for
   `AdviceConverges` (`Stack`, `Circuits`) and `RerunsSettle` a measure that every
   undisturbed step of a run takes down, as an action property of its own.
2. `RootsRotation` and the trust list's keeper, if `apply` takes its job over.
