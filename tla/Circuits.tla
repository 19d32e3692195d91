------------------------------ MODULE Circuits ------------------------------
(***************************************************************************)
(* Circuit verifiers and Platform Verifiers: step 6 of apply, from the     *)
(* location of each circuit's verifier to the registration of each         *)
(* platform, by binaries that vendor different circuits releases, with and *)
(* without --upgrade, interrupted anywhere and run again by any of them.   *)
(* And the lines plan prints about the same state.                         *)
(*                                                                         *)
(* One run at a time; Factory has the runs that overlap.                   *)
(***************************************************************************)
EXTENDS Naturals, Sequences

CONSTANTS
  Platform,   \* the launch platforms
  Launch,     \* platforms::LAUNCH, a sequence of them
  Circuit,
  CircuitOf,  \* CircuitOf[p]: the circuit p's proofs are made under
  Binary,     \* builds of libid-deploy
  Release,    \* circuits releases
  Version,    \* Version[b]: the release build b vendors
  Code,       \* runtime code hashes
  Vendored,   \* Vendored[b][c]: the code hash build b vendors for circuit c
  Foreign,    \* verifiers that are not under a factory name of ours
  ForeignCode,
  Target,     \* the build the operator converges the chain with
  None,
  MaxRuns,    \* bound: runs of any build, before the operator settles
  MaxAborts,  \* bound: runs that fail half way
  MaxDrift    \* bound: steps of whoever else holds the owner key

Named(b, c) == <<c, Version[b]>>
Addr        == (Circuit \X Release) \cup Foreign

\* What an implementation accepts and what its trust roots hold.
Proxy == [pin : Code, wired : Addr]
Site  == [inUse : BOOLEAN, at : Addr]

ASSUME CircuitConstants ==
  /\ Launch \in Seq(Platform) \ {<<>>} /\ \A p \in Platform : \E i \in DOMAIN Launch : Launch[i] = p
  /\ CircuitOf \in [Platform -> Circuit]
  /\ Version \in [Binary -> Release]
  /\ Vendored \in [Binary -> [Circuit -> Code]]
  /\ ForeignCode \in [Foreign -> Code]
  /\ Target \in Binary
  /\ Foreign \cap (Circuit \X Release) = {}
  /\ None \notin Code \cup Addr \cup Proxy \cup Site
  /\ {MaxRuns, MaxAborts, MaxDrift} \subseteq Nat

\* circuits.rs: a release with new code is a new name.
ASSUME NamesFollowCode ==
  \A b1, b2 \in Binary : Version[b1] = Version[b2] => Vendored[b1] = Vendored[b2]

VARIABLES
  code,        \* code[a]: the code hash at address a, None without code
  proxy,       \* proxy[p]: what p's proxy runs and points at, None before it
  registered,  \* platforms the Supported Version Set routes to their proxy
  pc,          \* where the run is
  bin,         \* its build
  ups,         \* the platforms it was asked to --upgrade
  site,        \* Applier.circuits, located once
  pos,         \* the circuit or platform it is at
  runs, aborts, drift

chain  == <<code, proxy, registered>>
bounds == <<runs, aborts, drift>>
vars   == <<chain, pc, bin, ups, site, pos, bounds>>

Stopped  == {"idle", "done", "failed"}
Location == Stopped \cup {"locate", "circuit", "proxy", "upgrade", "roots",
                          "setRoots", "register", "accepts"}

TypeOK ==
  /\ code \in [Addr -> Code \cup {None}]
  /\ proxy \in [Platform -> Proxy \cup {None}]
  /\ registered \subseteq Platform
  /\ pc \in Location
  /\ bin \in Binary
  /\ ups \subseteq Platform
  /\ site \in [Circuit -> Site \cup {None}]
  /\ pos \in 1 .. Len(Launch) + 1
  /\ runs \in 0 .. MaxRuns
  /\ aborts \in 0 .. MaxAborts
  /\ drift \in 0 .. MaxDrift

Has(p)        == proxy[p] # None
Mine(b, p)    == Vendored[b][CircuitOf[p]]
Holds(b, p)   == code[proxy[p].wired] = Mine(b, p)
\* verify answers: the implementation accepts the code its verifier holds.
Usable(p)     == Has(p) /\ code[proxy[p].wired] = proxy[p].pin

\* Verifiers::site, when the honkVerifier reads of the platforms in `unread`
\* fail: the first platform of the circuit using the vendored code.
Users(b, c, unread) ==
  {i \in DOMAIN Launch : /\ CircuitOf[Launch[i]] = c
                         /\ Launch[i] \notin unread
                         /\ Has(Launch[i]) /\ Holds(b, Launch[i])}
SiteOf(b, c, unread) ==
  LET users == Users(b, c, unread)
  IN IF users = {} THEN [inUse |-> FALSE, at |-> Named(b, c)]
     ELSE [inUse |-> TRUE,
           at |-> proxy[Launch[CHOOSE i \in users : \A j \in users : i <= j]].wired]
-----------------------------------------------------------------------------
(* The lines plan prints, by any build.                                    *)

\* checks.rs, CircuitVerifier.
CircuitLine(b, c) ==
  LET s == SiteOf(b, c, {})
  IN CASE s.inUse                          -> "ok"
       [] ~s.inUse /\ code[s.at] = None    -> "deploy"
       [] ~s.inUse /\ code[s.at] = Vendored[b][c] -> "ok"
       [] OTHER                            -> "warn"

\* Fault: what the implementation pins is not compared.
RootsLineUnpinned(b, p) ==
  CASE ~Has(p) -> "deploy"
    [] OTHER   -> IF \/ proxy[p].wired = SiteOf(b, CircuitOf[p], {}).at
                     \/ Holds(b, p)
                  THEN "ok" ELSE "configure"

\* checks.rs, TrustRoots; and the Code line of a proxy there is not.
RootsLine(b, p) ==
  CASE ~Has(p)                               -> "deploy"
    [] Has(p) /\ proxy[p].pin # Mine(b, p)   -> "warn"
    [] Has(p) /\ proxy[p].pin = Mine(b, p)   ->
         IF \/ proxy[p].wired = SiteOf(b, CircuitOf[p], {}).at
            \/ Holds(b, p)
         THEN "ok" ELSE "configure"

\* checks.rs, Registration.
RegistrationLine(p) == IF p \in registered THEN "ok" ELSE "configure"

AllOk(b) == /\ \A c \in Circuit : CircuitLine(b, c) = "ok"
            /\ \A p \in Platform : RootsLine(b, p) = "ok" /\ RegistrationLine(p) = "ok"

\* The platforms plan tells the operator to --upgrade.
Advised(b) == {p \in Platform : Has(p) /\ RootsLine(b, p) = "warn"}
-----------------------------------------------------------------------------
Init ==
  /\ code = [a \in Addr |-> IF a \in Foreign THEN ForeignCode[a] ELSE None]
  /\ proxy = [p \in Platform |-> None]
  /\ registered = {}
  /\ pc = "idle"
  /\ bin = Target
  /\ ups = {}
  /\ site = [c \in Circuit |-> None]
  /\ pos = 1
  /\ runs = 0 /\ aborts = 0 /\ drift = 0
-----------------------------------------------------------------------------
(* A run.                                                                  *)

\* Fault: positions counted from zero.
BeginAtZero(b, u) ==
  /\ bin' = b
  /\ ups' = u
  /\ site' = [c \in Circuit |-> None]
  /\ pos' = 0
  /\ pc' = "locate"
  /\ UNCHANGED <<chain, aborts, drift>>

Begin(b, u) ==
  /\ bin' = b
  /\ ups' = u
  /\ site' = [c \in Circuit |-> None]
  /\ pos' = 1
  /\ pc' = "locate"
  /\ UNCHANGED <<chain, aborts, drift>>

\* Any build, any --upgrade list naming proxies: a host, a branch build, an
\* older release.  An upgrade of a proxy the same run deploys is legal.
Start ==
  /\ pc \in Stopped
  /\ runs < MaxRuns
  /\ runs' = runs + 1
  /\ \E b \in Binary, u \in SUBSET Platform : Begin(b, u)

\* The operator runs the target build, with the upgrades its plan advises,
\* while that plan has an open line.
Settle ==
  /\ pc \in Stopped /\ ~AllOk(Target)
  /\ Begin(Target, Advised(Target))
  /\ UNCHANGED runs

At(l)   == pc = l
Goto(l) == pc' = l
P       == Launch[pos]
C       == CircuitOf[P]
Fixed   == UNCHANGED <<bin, ups, bounds>>

\* run: every circuit is located before anything is deployed or rotated.
\* One that no read answers falls back to the factory name.
Locate ==
  /\ At("locate")
  /\ \E c \in Circuit, unread \in SUBSET Platform :
       /\ site[c] = None
       /\ site' = [site EXCEPT ![c] = SiteOf(bin, c, unread)]
       /\ Goto(IF \E d \in Circuit \ {c} : site[d] = None THEN "locate" ELSE "circuit")
  /\ UNCHANGED <<chain, pos>> /\ Fixed

\* Fault: this release's verifier is deployed although one is in use.
CircuitVerifierAnew ==
  /\ At("circuit")
  /\ code' = IF code[Named(bin, C)] = None
             THEN [code EXCEPT ![Named(bin, C)] = Mine(bin, P)] ELSE code
  /\ Goto("proxy")
  /\ UNCHANGED <<proxy, registered, site, pos>> /\ Fixed

\* circuit_verifier: code at the named address is taken as it is.
CircuitVerifier ==
  /\ At("circuit")
  /\ IF site[C].inUse \/ code[site[C].at] # None
     THEN UNCHANGED code
     ELSE code' = [code EXCEPT ![site[C].at] = Mine(bin, P)]
  /\ Goto("proxy")
  /\ UNCHANGED <<proxy, registered, site, pos>> /\ Fixed

\* platform_verifier: circuit_codehash_at, then the implementation and proxy.
DeployProxy ==
  /\ At("proxy")
  /\ \/ Has(P) /\ Goto("upgrade") /\ UNCHANGED proxy
     \/ /\ ~Has(P)
        /\ code[site[C].at] = Mine(bin, P)
        /\ proxy' = [proxy EXCEPT ![P] = [pin |-> Mine(bin, P), wired |-> site[C].at]]
        /\ Goto("upgrade")
     \/ /\ ~Has(P)
        /\ code[site[C].at] # Mine(bin, P)
        /\ Goto("failed") /\ UNCHANGED proxy
  /\ UNCHANGED <<code, registered, site, pos>> /\ Fixed

\* Fault: the upgrade initializes the proxy again.
UpgradeReinitializes ==
  /\ At("upgrade")
  /\ proxy' = IF P \in ups
              THEN [proxy EXCEPT ![P] = [pin |-> Mine(bin, P), wired |-> Named(bin, C)]]
              ELSE proxy
  /\ Goto("roots")
  /\ UNCHANGED <<code, registered, site, pos>> /\ Fixed

\* Fault: the requested upgrade is dropped.
UpgradeDropped ==
  /\ At("upgrade")
  /\ Goto("roots")
  /\ UNCHANGED <<chain, site, pos>> /\ Fixed

\* upgrade_if_requested: a new implementation, which pins this build's code.
UpgradeProxy ==
  /\ At("upgrade")
  /\ proxy' = IF P \in ups THEN [proxy EXCEPT ![P].pin = Mine(bin, P)] ELSE proxy
  /\ Goto("roots")
  /\ UNCHANGED <<code, registered, site, pos>> /\ Fixed

\* Fault: an implementation of this build is taken for converged.
ReadRootsByPin ==
  /\ At("roots")
  /\ Goto(CASE proxy[P].wired = site[C].at \/ proxy[P].pin = Mine(bin, P) -> "register"
            [] OTHER -> IF proxy[P].pin = code[site[C].at] THEN "setRoots" ELSE "failed")
  /\ UNCHANGED <<chain, site, pos>> /\ Fixed

\* Fault: only the address is compared, not the code.
ReadRootsByAddress ==
  /\ At("roots")
  /\ Goto(CASE proxy[P].wired = site[C].at -> "register"
            [] OTHER -> IF proxy[P].pin = code[site[C].at] THEN "setRoots" ELSE "failed")
  /\ UNCHANGED <<chain, site, pos>> /\ Fixed

\* converge_trust_roots: its reads, up to rotation_codehash_at.
ReadRoots ==
  /\ At("roots")
  /\ Goto(CASE proxy[P].wired = site[C].at \/ Holds(bin, P) -> "register"
            [] OTHER -> IF proxy[P].pin = code[site[C].at] THEN "setRoots" ELSE "failed")
  /\ UNCHANGED <<chain, site, pos>> /\ Fixed

\* setTrustRoots, which the proxy refuses for code it does not pin.
SetRoots ==
  /\ At("setRoots")
  /\ IF proxy[P].pin = code[site[C].at]
     THEN /\ proxy' = [proxy EXCEPT ![P].wired = site[C].at]
          /\ Goto("register")
     ELSE Goto("failed") /\ UNCHANGED proxy
  /\ UNCHANGED <<code, registered, site, pos>> /\ Fixed

Register ==
  /\ At("register")
  /\ registered' = registered \cup {P}
  /\ pos' = pos + 1
  /\ Goto(IF pos = Len(Launch) THEN "accepts" ELSE "circuit")
  /\ UNCHANGED <<code, proxy, site>> /\ Fixed

\* check_accepts_bindings, and the end of step 6.
Accepts ==
  /\ At("accepts")
  /\ Goto(IF registered = Platform THEN "done" ELSE "failed")
  /\ UNCHANGED <<chain, site, pos>> /\ Fixed
-----------------------------------------------------------------------------
(* Failure and drift.                                                      *)

Abort ==
  /\ pc \notin Stopped
  /\ aborts < MaxAborts
  /\ aborts' = aborts + 1
  /\ Goto("failed")
  /\ UNCHANGED <<chain, bin, ups, site, pos, runs, drift>>

\* The proxies' owner rotates one by hand, onto any verifier it accepts, or
\* takes a registration away.
OwnerRotates ==
  /\ \E p \in Platform, a \in Addr :
       /\ Has(p) /\ code[a] = proxy[p].pin /\ proxy[p].wired # a
       /\ proxy' = [proxy EXCEPT ![p].wired = a]
  /\ UNCHANGED <<code, registered>>

OwnerUnregisters ==
  /\ \E p \in registered : registered' = registered \ {p}
  /\ UNCHANGED <<code, proxy>>

Drift ==
  /\ drift < MaxDrift
  /\ drift' = drift + 1
  /\ OwnerRotates \/ OwnerUnregisters
  /\ UNCHANGED <<pc, bin, ups, site, pos, runs, aborts>>

Step == \/ Locate \/ CircuitVerifier \/ DeployProxy \/ UpgradeProxy
        \/ ReadRoots \/ SetRoots \/ Register \/ Accepts

Next == Start \/ Settle \/ Step \/ Abort \/ Drift

Spec == Init /\ [][Next]_vars

\* A run goes on until it ends, and the operator repeats a failed one.
FairSpec == Spec /\ WF_vars(Step) /\ WF_vars(Settle)
-----------------------------------------------------------------------------
(* Properties.                                                             *)

\* A plan without an open line never hides a platform whose proofs cannot
\* verify, whoever left the chain half way and whichever build plans.
OkPlanMeansUsable ==
  \A b \in Binary : AllOk(b) => \A p \in Platform : Usable(p)

\* A run that ends well leaves every platform its own implementation runs
\* answering, whatever rotation or upgrade an earlier run left half done.
SuccessMeansUsable ==
  pc = "done" => \A p \in Platform :
    Has(p) /\ (proxy[p].pin = Mine(bin, p) => Usable(p))

\* A platform whose implementation pins other code than this build's needs
\* --upgrade, as plan says: apply does not end well without it.
NeedsUpgradeStopsApply ==
  pc = "done" => \A p \in Platform : proxy[p].pin = Mine(bin, p)

\* A Platform Verifier whose verifier holds the vendored code keeps that
\* very verifier, even when the location of the circuit named another
\* address.  Stated as long as nobody has rotated or unregistered one by hand.
KeepsVendored ==
  [][\A p \in Platform :
       Step /\ drift = 0 /\ Has(p) /\ proxy'[p].wired # proxy[p].wired
         => ~Holds(bin, p)]_vars

\* With rotations by hand too, no step of a run takes a platform off the vendored code.
StaysVendored ==
  [][\A p \in Platform : Step /\ Has(p) /\ Holds(bin, p) => Holds(bin, p)']_vars

\* Wherever a run without upgrades stands, a plan with no open line means
\* it sends nothing more, a rebuilt release included, provided each circuit
\* it located was read and nobody has come by hand.
OkPlanSendsNothing ==
  [][/\ Step /\ ups = {} /\ drift = 0 /\ AllOk(bin)
     /\ \A c \in Circuit : site[c] \in {None, SiteOf(bin, c, {})}
     => UNCHANGED chain]_vars

\* An operator who reruns the target build with the upgrades its plan
\* advises ends with every platform registered and answering, whatever the
\* runs and drift before left.
AdviceConverges == <>[](/\ registered = Platform
                        /\ \A p \in Platform : Usable(p) /\ Holds(Target, p))
=============================================================================
