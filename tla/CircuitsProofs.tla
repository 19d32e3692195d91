--------------------------- MODULE CircuitsProofs ---------------------------
(***************************************************************************)
(* Step 6 for any platforms, circuits, builds and releases.                *)
(***************************************************************************)
EXTENDS Circuits, WellFoundedInduction, TLAPS

\* A run among the platforms, and past the read of P's proxy.
Among  == {"circuit", "proxy", "upgrade", "roots", "setRoots", "register"}
AtHand == {"upgrade", "roots", "setRoots", "register"}

\* Among the platforms the run is at one of them, behind them past the last.
PositionOK ==
  /\ pc \in Among => pos \in 1 .. Len(Launch)
  /\ pc = "locate" => pos = 1
  /\ pc \in {"accepts", "done"} => pos = Len(Launch) + 1

\* Every circuit is located by then: in use where the vendored code is, or
\* at this build's name for it.
SitesOK ==
  /\ pc \in Among => \A c \in Circuit : site[c] # None
  /\ pc \notin Stopped => \A c \in Circuit : site[c] # None =>
       IF site[c].inUse THEN code[site[c].at] = Vendored[bin][c]
                        ELSE site[c].at = Named(bin, c)

\* Under a name there is the code of the release it names, or none.
NamesOK == \A b \in Binary, c \in Circuit : code[Named(b, c)] \in {None, Vendored[b][c]}

\* Past circuit_verifier the located verifier has the vendored code, past
\* platform_verifier there is a proxy.
AtHandOK ==
  /\ pc \in {"proxy"} \cup AtHand => code[site[C].at] = Mine(bin, P)
  /\ pc \in AtHand => Has(P)

\* A proxy that answers if it runs this build's implementation.
Good(p) == Has(p) /\ (proxy[p].pin = Mine(bin, p) => Usable(p))

\* Each platform behind is good, but for one that is at hand again.
BehindOK ==
  /\ pc \in Among \cup {"accepts", "done"} =>
       \A i \in 1 .. pos - 1 : Good(Launch[i]) \/ (pc \in AtHand /\ Launch[i] = P)
  /\ pc = "register" => Good(P)

\* setTrustRoots is sent for a proxy off the vendored code, as long as the
\* owner does not come between.
RotationOK ==
  pc = "setRoots" /\ drift = 0 => ~Holds(bin, P) /\ proxy[P].wired # site[C].at

IInv == /\ TypeOK /\ PositionOK /\ SitesOK /\ NamesOK
        /\ AtHandOK /\ BehindOK /\ RotationOK

\* A set of naturals has a least element, which SiteOf chooses.
LEMMA Least ==
  ASSUME NEW T \in SUBSET Nat, T # {}
  PROVE  \E m \in T : \A n \in T : m <= n
<1>1. IsWellFoundedOn(OpToRel(<, Nat), Nat)
  BY NatLessThanWellFounded
<1>2. \E x \in T : \A y \in T : ~ (<<y, x>> \in OpToRel(<, Nat))
  BY <1>1, WFMin
<1>3. \A x, y \in Nat : y < x => <<y, x>> \in OpToRel(<, Nat)
  BY DEF OpToRel
<1>4. PICK x \in T : \A y \in T : ~ (y < x)
  BY <1>2, <1>3
<1>5. QED BY <1>4

\* Every platform has a circuit, a name for its verifier and vendored code.
LEMMA Platforms ==
  ASSUME NEW p \in Platform, NEW b \in Binary
  PROVE  CircuitOf[p] \in Circuit /\ Mine(b, p) \in Code
BY CircuitConstants DEF Mine

\* A build's name for a circuit is an address, and what it vendors is code.
LEMMA Names ==
  ASSUME NEW b \in Binary, NEW c \in Circuit
  PROVE  Named(b, c) \in Addr /\ Vendored[b][c] \in Code
BY CircuitConstants DEF Named, Addr

\* A circuit is located where the vendored code is in use, or at its name.
LEMMA Located ==
  ASSUME TypeOK, NEW b \in Binary, NEW c \in Circuit, NEW unread
  PROVE  LET s == SiteOf(b, c, unread)
         IN  /\ s \in Site
             /\ IF s.inUse THEN code[s.at] = Vendored[b][c] ELSE s.at = Named(b, c)
<1> DEFINE users == Users(b, c, unread)
<1>1. CASE users = {}
  BY <1>1, Names DEF SiteOf, Site
<1>2. CASE users # {}
  <2> DEFINE i == CHOOSE i \in users : \A j \in users : i <= j
  <2>1. users \in SUBSET Nat
    BY CircuitConstants DEF Users
  <2>2. i \in users
    BY <1>2, <2>1, Least
  <2>3. /\ i \in DOMAIN Launch /\ CircuitOf[Launch[i]] = c
        /\ Has(Launch[i]) /\ Holds(b, Launch[i])
    BY <2>2 DEF Users
  <2>4. proxy[Launch[i]] \in Proxy
    BY <2>3, CircuitConstants DEF TypeOK, Has
  <2>5. SiteOf(b, c, unread) = [inUse |-> TRUE, at |-> proxy[Launch[i]].wired]
    BY <1>2 DEF SiteOf
  <2>6. QED BY <2>3, <2>4, <2>5 DEF Holds, Mine, Site, Proxy
<1>3. QED BY <1>1, <1>2

\* A plan without an open line means every platform verifies: in whatever
\* state the chain is.
LEMMA OkPlan == TypeOK => OkPlanMeansUsable
<1> SUFFICES ASSUME TypeOK, NEW b \in Binary, AllOk(b), NEW p \in Platform
             PROVE  Usable(p)
  BY DEF OkPlanMeansUsable
<1> DEFINE c == CircuitOf[p]
           s == SiteOf(b, c, {})
<1>1. c \in Circuit /\ Mine(b, p) \in Code /\ Mine(b, p) = Vendored[b][c]
  BY Platforms DEF Mine
<1>2. Has(p) /\ proxy[p].pin = Mine(b, p) /\ (proxy[p].wired = s.at \/ Holds(b, p))
  BY DEF AllOk, RootsLine
<1>3. CASE Holds(b, p)
  BY <1>2, <1>3 DEF Holds, Usable
<1>4. CASE proxy[p].wired = s.at
  <2>1. CircuitLine(b, c) = "ok"
    BY <1>1 DEF AllOk
  <2>2. s.inUse => code[s.at] = Vendored[b][c]
    BY <1>1, Located
  <2>3. code[s.at] = Vendored[b][c]
    <3>1. s.inUse \in BOOLEAN
      BY <1>1, Located DEF Site
    <3>2. CASE ~s.inUse
      BY <2>1, <3>2 DEF CircuitLine
    <3>3. QED BY <2>2, <3>1, <3>2
  <2>4. QED BY <1>1, <1>2, <1>4, <2>3 DEF Usable
<1>5. QED BY <1>2, <1>3, <1>4

\* On a chain without proxies no run has done anything yet.
LEMMA Initially == Init => IInv
<1> SUFFICES ASSUME Init PROVE IInv
  OBVIOUS
<1>1. TypeOK
  <2>1. code \in [Addr -> Code \cup {None}]
    BY CircuitConstants DEF Init
  <2>2. 1 \in 1 .. Len(Launch) + 1
    BY CircuitConstants
  <2>3. QED
    BY <2>1, <2>2, CircuitConstants DEF Init, TypeOK, Location, Stopped
<1>2. NamesOK
  BY CircuitConstants DEF Init, NamesOK, Named, Addr
<1>3. PositionOK /\ SitesOK /\ AtHandOK /\ BehindOK /\ RotationOK
  BY DEF Init, PositionOK, SitesOK, AtHandOK, BehindOK, RotationOK, Among, AtHand, Stopped
<1>4. QED BY <1>1, <1>2, <1>3 DEF IInv

\* Where the run is at a platform, what that is.
LEMMA Hand ==
  ASSUME IInv, pc \in Among
  PROVE  /\ P \in Platform /\ C \in Circuit /\ C = CircuitOf[P] /\ pos \in 1 .. Len(Launch)
         /\ bin \in Binary /\ Mine(bin, P) \in Code /\ Mine(bin, P) = Vendored[bin][C]
         /\ site[C] \in Site
         /\ IF site[C].inUse THEN code[site[C].at] = Mine(bin, P)
                             ELSE site[C].at = Named(bin, C)
<1>1. pos \in 1 .. Len(Launch) /\ bin \in Binary
  BY DEF IInv, TypeOK, PositionOK
<1>2. P \in Platform
  BY <1>1, CircuitConstants DEF P
<1>3. C \in Circuit /\ Mine(bin, P) \in Code /\ Mine(bin, P) = Vendored[bin][C]
  BY <1>1, <1>2, Platforms DEF C, Mine
<1>4. site[C] # None /\ site[C] \in Site
  BY <1>3 DEF IInv, TypeOK, SitesOK
<1>5. QED BY <1>1, <1>2, <1>3, <1>4 DEF IInv, SitesOK, Among, Stopped, C

\* A new run begins anywhere, and knows nothing.
LEMMA Begins ==
  ASSUME IInv, NEW b \in Binary, NEW u \in SUBSET Platform, Begin(b, u), runs' \in 0 .. MaxRuns
  PROVE  IInv'
<1>1. TypeOK'
  <2>1. 1 \in 1 .. Len(Launch) + 1
    BY CircuitConstants
  <2>2. QED BY <2>1 DEF IInv, TypeOK, Begin, chain, Location
<1>2. NamesOK'
  BY DEF IInv, NamesOK, Begin, chain
<1>3. (PositionOK /\ SitesOK /\ AtHandOK /\ BehindOK /\ RotationOK)'
  BY DEF Begin, PositionOK, SitesOK, AtHandOK, BehindOK, RotationOK, Among, AtHand, Stopped
<1>4. QED BY <1>1, <1>2, <1>3 DEF IInv

\* A circuit is located where its code is in use, or at this build's name.
LEMMA Locates ==
  ASSUME IInv, Locate
  PROVE  IInv'
<1>1. PICK c \in Circuit, unread \in SUBSET Platform :
        /\ site[c] = None
        /\ site' = [site EXCEPT ![c] = SiteOf(bin, c, unread)]
        /\ pc' = IF \E d \in Circuit \ {c} : site[d] = None THEN "locate" ELSE "circuit"
  BY DEF Locate, Goto
<1>2. bin \in Binary /\ TypeOK /\ pos = 1 /\ pc = "locate"
  BY DEF IInv, TypeOK, Locate, At, PositionOK
<1>3. LET s == SiteOf(bin, c, unread)
      IN  s \in Site /\ IF s.inUse THEN code[s.at] = Vendored[bin][c] ELSE s.at = Named(bin, c)
  BY <1>2, Located
<1>4. TypeOK'
  BY <1>1, <1>2, <1>3 DEF TypeOK, Locate, chain, Fixed, bounds, Location
<1>5. PositionOK'
  BY <1>1, <1>2, CircuitConstants DEF PositionOK, Locate, Among
<1>6. SitesOK'
  <2> SUFFICES ASSUME NEW d \in Circuit
               PROVE  /\ pc' \in Among => site'[d] # None
                      /\ site'[d] # None =>
                           IF site'[d].inUse THEN code[site'[d].at] = Vendored[bin][d]
                                             ELSE site'[d].at = Named(bin, d)
    BY DEF SitesOK, Locate, chain, Fixed
  <2>1. CASE d = c
    BY <1>1, <1>2, <1>3, <2>1, CircuitConstants DEF TypeOK
  <2>2. CASE d # c
    BY <1>1, <1>2, <2>2 DEF TypeOK, IInv, SitesOK, Among, Stopped
  <2>3. QED BY <2>1, <2>2
<1>7. NamesOK'
  BY DEF IInv, NamesOK, Locate, chain
<1>8. (AtHandOK /\ BehindOK /\ RotationOK)'
  BY <1>1, <1>2 DEF AtHandOK, BehindOK, RotationOK, AtHand, Among, Locate
<1>9. QED BY <1>4, <1>5, <1>6, <1>7, <1>8 DEF IInv

\* No code goes and none changes, and what is under a name is what it names.
LEMMA Verifier ==
  ASSUME IInv, CircuitVerifier
  PROVE  /\ code' \in [Addr -> Code \cup {None}]
         /\ \A a \in Addr : code[a] # None => code'[a] = code[a]
         /\ NamesOK'
         /\ code'[site[C].at] = Mine(bin, P)
<1>1. /\ P \in Platform /\ C \in Circuit /\ bin \in Binary
      /\ Mine(bin, P) \in Code /\ Mine(bin, P) = Vendored[bin][C] /\ site[C] \in Site
      /\ IF site[C].inUse THEN code[site[C].at] = Mine(bin, P) ELSE site[C].at = Named(bin, C)
  BY Hand DEF CircuitVerifier, At, Among
<1>2. code \in [Addr -> Code \cup {None}] /\ site[C].at \in Addr /\ site[C].inUse \in BOOLEAN
  BY <1>1 DEF IInv, TypeOK, Site
<1>3. CASE UNCHANGED code
  <2>1. site[C].inUse \/ code[site[C].at] # None
    BY <1>1, <1>2, <1>3, CircuitConstants DEF CircuitVerifier
  <2>2. code[site[C].at] = Mine(bin, P)
    BY <1>1, <2>1 DEF IInv, NamesOK
  <2>3. QED BY <1>2, <1>3, <2>2 DEF IInv, NamesOK
<1>4. CASE /\ ~site[C].inUse /\ code[site[C].at] = None
           /\ code' = [code EXCEPT ![site[C].at] = Mine(bin, P)]
  <2>1. site[C].at = Named(bin, C)
    BY <1>1, <1>4
  <2>2. NamesOK'
    <3> SUFFICES ASSUME NEW b \in Binary, NEW c \in Circuit
                 PROVE  code'[Named(b, c)] \in {None, Vendored[b][c]}
      BY DEF NamesOK
    <3>1. CASE Named(b, c) = Named(bin, C)
      <4>1. c = C /\ Vendored[b] = Vendored[bin]
        BY <1>1, <3>1, NamesFollowCode DEF Named
      <4>2. QED BY <1>1, <1>2, <1>4, <2>1, <3>1, <4>1
    <3>2. CASE Named(b, c) # Named(bin, C)
      BY <1>2, <1>4, <2>1, <3>2, Names DEF IInv, NamesOK
    <3>3. QED BY <3>1, <3>2
  <2>3. QED BY <1>1, <1>2, <1>4, <2>2
<1>5. QED BY <1>3, <1>4 DEF CircuitVerifier

\* What is good stays good when code only comes to where there was none.
LEMMA StaysGood ==
  ASSUME TypeOK, bin' = bin, UNCHANGED proxy, NEW p \in Platform, Good(p),
         \A a \in Addr : code[a] # None => code'[a] = code[a]
  PROVE  Good(p)'
<1>1. proxy[p] \in Proxy
  BY DEF Good, Has, TypeOK
<1>2. proxy[p].pin \in Code /\ proxy[p].wired \in Addr /\ None \notin Code
  BY <1>1, CircuitConstants DEF Proxy
<1>3. QED BY <1>2 DEF Good, Usable, Has, Mine

\* A circuit verifier deployed at its name holds the vendored code.
LEMMA Builds ==
  ASSUME IInv, CircuitVerifier
  PROVE  IInv'
<1>1. pc = "circuit" /\ pc' = "proxy" /\ pos \in 1 .. Len(Launch)
  BY Hand DEF CircuitVerifier, At, Goto, Among
<1>2. UNCHANGED <<proxy, registered, site, pos, bin, ups, runs, aborts, drift>>
  BY DEF CircuitVerifier, Fixed, bounds
<1>3. TypeOK'
  BY <1>1, <1>2, Verifier DEF IInv, TypeOK, Location
<1>4. SitesOK'
  <2> SUFFICES ASSUME NEW c \in Circuit
               PROVE  /\ site[c] # None
                      /\ IF site[c].inUse THEN code'[site[c].at] = Vendored[bin][c]
                                          ELSE site[c].at = Named(bin, c)
    BY <1>1, <1>2 DEF SitesOK, Among, Named
  <2>1. /\ site[c] \in Site /\ site[c] # None
        /\ IF site[c].inUse THEN code[site[c].at] = Vendored[bin][c]
                            ELSE site[c].at = Named(bin, c)
    BY <1>1 DEF IInv, TypeOK, SitesOK, Among, Stopped
  <2>2. Vendored[bin][c] # None /\ site[c].at \in Addr
    BY <2>1, CircuitConstants DEF IInv, TypeOK, Site
  <2>3. QED BY <2>1, <2>2, Verifier
<1>5. PositionOK' /\ NamesOK' /\ AtHandOK' /\ RotationOK'
  BY <1>1, <1>2, Verifier DEF PositionOK, AtHandOK, RotationOK, Among, AtHand, C, P, Mine
<1>6. BehindOK'
  <2> SUFFICES ASSUME NEW i \in 1 .. pos - 1
               PROVE  Good(Launch[i])'
    BY <1>1, <1>2 DEF BehindOK
  <2>1. Launch[i] \in Platform /\ Good(Launch[i])
    BY <1>1, CircuitConstants DEF IInv, BehindOK, Among, AtHand
  <2>2. QED BY <1>2, <2>1, StaysGood, Verifier DEF IInv
<1>7. QED BY <1>3, <1>4, <1>5, <1>6 DEF IInv

\* Steps at P's proxy that go from one point at hand, or platform_verifier,
\* to another.
LEMMA AtProxy ==
  ASSUME IInv, pc \in {"proxy"} \cup AtHand, pc' \in AtHand, NEW x \in Proxy,
         proxy' = [proxy EXCEPT ![P] = x],
         UNCHANGED <<code, registered, site, pos, bin, ups, runs, aborts, drift>>,
         pc' = "register" => (x.pin = Mine(bin, P) => code[x.wired] = x.pin),
         pc' = "setRoots" /\ drift = 0 =>
           code[x.wired] # Mine(bin, P) /\ x.wired # site[C].at
  PROVE  IInv'
<1>1. P \in Platform /\ pos \in 1 .. Len(Launch) /\ x # None
  BY Hand, CircuitConstants DEF AtHand, Among
<1>2. proxy' \in [Platform -> Proxy \cup {None}] /\ proxy'[P] = x
      /\ \A p \in Platform \ {P} : proxy'[p] = proxy[p]
  BY <1>1 DEF IInv, TypeOK
<1>3. TypeOK'
  BY <1>2 DEF IInv, TypeOK, Location, AtHand
<1>4. PositionOK' /\ SitesOK' /\ NamesOK'
  BY <1>1 DEF IInv, PositionOK, SitesOK, NamesOK, Among, AtHand, Stopped, Named
<1>5. AtHandOK' /\ RotationOK'
  BY <1>1, <1>2 DEF IInv, AtHandOK, RotationOK, AtHand, C, P, Mine, Has, Holds
<1>6. BehindOK'
  <2>1. P' = P
    BY DEF P
  <2>2. pc' = "register" => Good(P)'
    BY <1>1, <1>2, <2>1 DEF Good, Has, Usable, Mine
  <2>3. ASSUME NEW i \in 1 .. pos - 1 PROVE Good(Launch[i])' \/ Launch[i] = P
    <3>1. Launch[i] \in Platform
      BY <1>1, <2>3, CircuitConstants
    <3>2. Good(Launch[i]) \/ Launch[i] = P
      BY <1>1, <2>3 DEF IInv, BehindOK, Among, AtHand
    <3>3. QED BY <1>2, <3>1, <3>2, StaysGood DEF Good, Has, Usable, Mine
  <2>4. QED BY <2>1, <2>2, <2>3 DEF BehindOK
<1>7. QED BY <1>3, <1>4, <1>5, <1>6 DEF IInv

\* A run that fails leaves the chain as it is.
LEMMA Fails ==
  ASSUME IInv, pc' = "failed", aborts' \in 0 .. MaxAborts,
         UNCHANGED <<code, proxy, registered, site, pos, bin, ups, runs, drift>>
  PROVE  IInv'
<1>1. TypeOK'
  BY DEF IInv, TypeOK, Location, Stopped
<1>2. NamesOK'
  BY DEF IInv, NamesOK
<1>3. (PositionOK /\ SitesOK /\ AtHandOK /\ BehindOK /\ RotationOK)'
  BY DEF PositionOK, SitesOK, AtHandOK, BehindOK, RotationOK, Among, AtHand, Stopped
<1>4. QED BY <1>1, <1>2, <1>3 DEF IInv

\* A new proxy starts pinned to this build's code and at the located verifier.
LEMMA Deploys ==
  ASSUME IInv, DeployProxy
  PROVE  IInv'
<1>1. pc = "proxy" /\ pc \in Among /\ UNCHANGED <<bin, ups, runs, aborts, drift>>
  BY DEF DeployProxy, At, Among, Fixed, bounds
<1>2. P \in Platform /\ Mine(bin, P) \in Code /\ site[C].at \in Addr
      /\ proxy \in [Platform -> Proxy \cup {None}] /\ aborts \in 0 .. MaxAborts
  BY <1>1, Hand DEF Site, IInv, TypeOK
<1>3. CASE Has(P) /\ pc' = "upgrade" /\ UNCHANGED proxy
  <2>1. proxy[P] \in Proxy /\ proxy' = [proxy EXCEPT ![P] = proxy[P]]
    BY <1>2, <1>3 DEF Has
  <2>2. QED BY <1>1, <1>3, <2>1, AtProxy DEF DeployProxy, AtHand
<1>4. CASE /\ proxy' = [proxy EXCEPT ![P] = [pin |-> Mine(bin, P), wired |-> site[C].at]]
           /\ pc' = "upgrade"
  BY <1>1, <1>2, <1>4, AtProxy DEF DeployProxy, AtHand, Proxy
<1>5. CASE pc' = "failed" /\ UNCHANGED proxy
  BY <1>1, <1>2, <1>5, Fails DEF DeployProxy
<1>6. QED BY <1>3, <1>4, <1>5 DEF DeployProxy, Goto

\* An upgrade changes the pin alone: the rotation is still to be read.
LEMMA Upgrades ==
  ASSUME IInv, UpgradeProxy
  PROVE  IInv'
<1>1. pc = "upgrade" /\ pc \in Among /\ pc' = "roots"
      /\ UNCHANGED <<bin, ups, runs, aborts, drift>>
  BY DEF UpgradeProxy, At, Among, Fixed, bounds, Goto
<1>2. P \in Platform /\ Mine(bin, P) \in Code /\ proxy[P] \in Proxy
      /\ proxy \in [Platform -> Proxy \cup {None}]
  BY <1>1, Hand DEF IInv, TypeOK, AtHandOK, AtHand, Has
<1> DEFINE x == IF P \in ups THEN [proxy[P] EXCEPT !.pin = Mine(bin, P)] ELSE proxy[P]
<1>3. x \in Proxy /\ proxy' = [proxy EXCEPT ![P] = x]
  BY <1>2 DEF UpgradeProxy, Proxy
<1>4. QED BY <1>1, <1>3, AtProxy DEF UpgradeProxy, AtHand

\* The read goes on to the rotation, to the registration, or stops the run.
LEMMA Reads ==
  ASSUME IInv, ReadRoots
  PROVE  IInv'
<1>1. pc = "roots" /\ pc \in Among /\ aborts \in 0 .. MaxAborts
      /\ UNCHANGED <<code, proxy, registered, site, pos, bin, ups, runs, aborts, drift>>
  BY DEF ReadRoots, At, Among, Fixed, bounds, chain, IInv, TypeOK
<1>2. P \in Platform /\ Mine(bin, P) \in Code /\ proxy[P] \in Proxy
      /\ proxy' = [proxy EXCEPT ![P] = proxy[P]] /\ code[site[C].at] = Mine(bin, P)
  BY <1>1, Hand DEF IInv, TypeOK, AtHandOK, AtHand, Has
<1>3. CASE (proxy[P].wired = site[C].at \/ Holds(bin, P)) /\ pc' = "register"
  BY <1>1, <1>2, <1>3, AtProxy DEF AtHand, Holds
<1>4. CASE ~(proxy[P].wired = site[C].at \/ Holds(bin, P)) /\ pc' = "setRoots"
  BY <1>1, <1>2, <1>4, AtProxy DEF AtHand, Holds
<1>5. CASE pc' = "failed"
  BY <1>1, <1>5, Fails
<1>6. QED BY <1>3, <1>4, <1>5 DEF ReadRoots, Goto

\* A rotation lands on the located verifier, which has the vendored code.
LEMMA Sets ==
  ASSUME IInv, SetRoots
  PROVE  IInv'
<1>1. pc = "setRoots" /\ pc \in Among /\ aborts \in 0 .. MaxAborts
      /\ UNCHANGED <<code, registered, site, pos, bin, ups, runs, aborts, drift>>
  BY DEF SetRoots, At, Among, Fixed, bounds, IInv, TypeOK
<1>2. P \in Platform /\ proxy[P] \in Proxy /\ site[C].at \in Addr
      /\ proxy \in [Platform -> Proxy \cup {None}] /\ code[site[C].at] = Mine(bin, P)
  BY <1>1, Hand DEF IInv, TypeOK, AtHandOK, AtHand, Has, Site
<1> DEFINE x == [proxy[P] EXCEPT !.wired = site[C].at]
<1>3. CASE proxy' = [proxy EXCEPT ![P] = x] /\ pc' = "register"
  <2>1. x \in Proxy /\ x.wired = site[C].at
    BY <1>2 DEF Proxy
  <2>2. QED BY <1>1, <1>2, <1>3, <2>1, AtProxy DEF AtHand
<1>4. CASE pc' = "failed" /\ UNCHANGED proxy
  BY <1>1, <1>4, Fails
<1>5. QED
  <2>1. proxy[P].pin = code[site[C].at] => proxy' = [proxy EXCEPT ![P] = x]
    BY <1>2 DEF SetRoots
  <2>2. QED BY <1>3, <1>4, <2>1 DEF SetRoots, Goto

\* A platform behind its registration answers.
LEMMA Registers ==
  ASSUME IInv, Register
  PROVE  IInv'
<1>1. pc = "register" /\ pc \in Among /\ pos' = pos + 1 /\ registered' = registered \cup {P}
      /\ UNCHANGED <<code, proxy, site, bin, ups, runs, aborts, drift>>
      /\ pc' = IF pos = Len(Launch) THEN "accepts" ELSE "circuit"
  BY DEF Register, At, Among, Fixed, bounds, Goto
<1>2. P \in Platform /\ pos \in 1 .. Len(Launch) /\ Len(Launch) \in Nat
  BY <1>1, Hand, CircuitConstants
<1>3. TypeOK'
  BY <1>1, <1>2 DEF IInv, TypeOK, Location
<1>4. PositionOK' /\ AtHandOK' /\ RotationOK'
  BY <1>1, <1>2 DEF PositionOK, AtHandOK, RotationOK, Among, AtHand
<1>5. SitesOK' /\ NamesOK'
  BY <1>1 DEF IInv, SitesOK, NamesOK, Named, Among, Stopped
<1>6. BehindOK'
  <2>1. ASSUME NEW i \in 1 .. pos PROVE Good(Launch[i])
    <3>1. CASE i = pos
      BY <1>1, <3>1 DEF IInv, BehindOK, P
    <3>2. CASE i \in 1 .. pos - 1
      BY <1>1, <3>2 DEF IInv, BehindOK
    <3>3. QED BY <1>2, <2>1, <3>1, <3>2
  <2>2. QED BY <1>1, <1>2, <2>1 DEF BehindOK, Good, Usable, Has, Mine
<1>7. QED BY <1>3, <1>4, <1>5, <1>6 DEF IInv

\* Past the last platform the run ends as it is.
LEMMA Ends ==
  ASSUME IInv, Accepts
  PROVE  IInv'
<1>1. pc = "accepts" /\ pc' \in {"done", "failed"}
      /\ UNCHANGED <<code, proxy, registered, site, pos, bin, ups, runs, aborts, drift>>
  BY DEF Accepts, At, Goto, chain, Fixed, bounds
<1>2. TypeOK' /\ NamesOK'
  BY <1>1 DEF IInv, TypeOK, NamesOK, Location, Stopped
<1>3. PositionOK' /\ SitesOK' /\ AtHandOK' /\ RotationOK'
  BY <1>1 DEF IInv, PositionOK, SitesOK, AtHandOK, RotationOK, Among, AtHand, Stopped
<1>4. BehindOK'
  BY <1>1 DEF IInv, BehindOK, Among, AtHand, Good, Usable, Has, Mine
<1>5. QED BY <1>2, <1>3, <1>4 DEF IInv

\* The owner rotates a proxy onto what it accepts.
LEMMA Drifts ==
  ASSUME IInv, Drift
  PROVE  IInv'
<1>1. /\ UNCHANGED <<pc, bin, ups, site, pos, runs, aborts, code>>
      /\ drift < MaxDrift /\ drift' = drift + 1
      /\ OwnerRotates \/ OwnerUnregisters
  BY DEF Drift, OwnerRotates, OwnerUnregisters
<1>2. /\ proxy' \in [Platform -> Proxy \cup {None}]
      /\ \A p \in Platform : /\ Has(p) => Has(p)'
                             /\ Good(p) => Good(p)'
  <2>1. CASE OwnerRotates
    <3>1. PICK p \in Platform, a \in Addr :
            /\ Has(p) /\ code[a] = proxy[p].pin
            /\ proxy' = [proxy EXCEPT ![p].wired = a]
      BY <2>1 DEF OwnerRotates
    <3>2. proxy[p] \in Proxy /\ proxy \in [Platform -> Proxy \cup {None}]
      BY <3>1 DEF Has, IInv, TypeOK
    <3> DEFINE x == [proxy[p] EXCEPT !.wired = a]
    <3>3. proxy' = [proxy EXCEPT ![p] = x] /\ x \in Proxy /\ x.pin = proxy[p].pin /\ x.wired = a
      BY <3>1, <3>2 DEF Proxy
    <3>4. x # None
      BY <3>3, CircuitConstants
    <3>5. QED BY <1>1, <3>1, <3>2, <3>3, <3>4 DEF Has, Good, Usable, Mine
  <2>2. CASE OwnerUnregisters
    BY <1>1, <2>2 DEF OwnerUnregisters, Has, Good, Usable, Mine, IInv, TypeOK
  <2>3. QED BY <1>1, <2>1, <2>2
<1>3. TypeOK'
  <2>1. registered' \subseteq Platform
    BY <1>1 DEF IInv, TypeOK, OwnerRotates, OwnerUnregisters
  <2>2. drift' \in 0 .. MaxDrift
    BY <1>1, CircuitConstants DEF IInv, TypeOK
  <2>3. QED BY <1>1, <1>2, <2>1, <2>2 DEF IInv, TypeOK
<1>4. PositionOK' /\ SitesOK' /\ NamesOK'
  BY <1>1 DEF IInv, PositionOK, SitesOK, NamesOK, Named
<1>5. pc \in Among => P \in Platform
  BY Hand
<1>6. AtHandOK'
  BY <1>1, <1>2, <1>5 DEF IInv, AtHandOK, AtHand, Among, C, P, Mine
<1>7. BehindOK'
  <2>1. \A i \in 1 .. pos - 1 : Launch[i] \in Platform
    BY CircuitConstants DEF IInv, TypeOK
  <2>2. QED
    BY <1>1, <1>2, <1>5, <2>1 DEF IInv, BehindOK, AtHand, Among, P
<1>8. RotationOK'
  BY <1>1, CircuitConstants DEF RotationOK, IInv, TypeOK
<1>9. QED BY <1>3, <1>4, <1>6, <1>7, <1>8 DEF IInv

\* Every step keeps the invariant.
LEMMA Invariance == IInv /\ [Next]_vars => IInv'
<1> SUFFICES ASSUME IInv, [Next]_vars PROVE IInv'
  OBVIOUS
<1>1. CASE Start
  <2>1. runs' \in 0 .. MaxRuns
    BY <1>1, CircuitConstants DEF Start, IInv, TypeOK
  <2>2. QED BY <1>1, <2>1, Begins DEF Start
<1>2. CASE Settle
  BY <1>2, Begins, CircuitConstants DEF Settle, Advised, IInv, TypeOK
<1>3. CASE Step
  BY <1>3, Locates, Builds, Deploys, Upgrades, Reads, Sets, Registers, Ends DEF Step
<1>4. CASE Abort
  <2>1. aborts' \in 0 .. MaxAborts
    BY <1>4, CircuitConstants DEF Abort, IInv, TypeOK
  <2>2. QED BY <1>4, <2>1, Fails DEF Abort, Goto, chain
<1>5. CASE Drift
  BY <1>5, Drifts
<1>6. CASE UNCHANGED vars
  <2>1. TypeOK' /\ NamesOK'
    BY <1>6 DEF IInv, TypeOK, NamesOK, vars, chain, bounds
  <2>2. PositionOK' /\ SitesOK' /\ AtHandOK' /\ RotationOK'
    BY <1>6 DEF IInv, PositionOK, SitesOK, AtHandOK, RotationOK, C, P, Mine, Has, Holds,
                Named, vars, chain, bounds
  <2>3. BehindOK'
    BY <1>6 DEF IInv, BehindOK, Good, Usable, P, Mine, Has, vars, chain, bounds
  <2>4. QED BY <2>1, <2>2, <2>3 DEF IInv
<1>7. QED BY <1>1, <1>2, <1>3, <1>4, <1>5, <1>6 DEF Next

\* So it holds in every reachable state.
LEMMA Always == Spec => []IInv
BY Initially, Invariance, PTL DEF Spec

\* Every reachable state is well typed.
THEOREM TypeCorrect == Spec => []TypeOK
<1>1. IInv => TypeOK
  BY DEF IInv
<1>2. QED BY <1>1, Always, PTL

\* A plan of any build without an open line means that every platform's
\* proofs verify.
THEOREM PlanIsRight == Spec => []OkPlanMeansUsable
<1>1. QED BY TypeCorrect, OkPlan, PTL

\* A run that ends well leaves every platform its own implementation runs
\* answering.
THEOREM Success == Spec => []SuccessMeansUsable
<1>1. IInv => SuccessMeansUsable
  <2> SUFFICES ASSUME IInv, pc = "done", NEW p \in Platform
               PROVE  Good(p)
    BY DEF SuccessMeansUsable, Good
  <2>1. PICK i \in DOMAIN Launch : Launch[i] = p
    BY CircuitConstants
  <2>2. i \in 1 .. pos - 1
    BY CircuitConstants DEF IInv, PositionOK
  <2>3. QED BY <2>1, <2>2 DEF IInv, BehindOK, AtHand
<1>2. QED BY <1>1, Always, PTL

\* What a step of a run does to the verifiers in place: only setTrustRoots
\* changes one, for the verifier located with the vendored code.
LEMMA StepKeeps ==
  ASSUME IInv, Step, NEW p \in Platform, Has(p)
  PROVE  /\ bin' = bin
         /\ \A a \in Addr : code[a] # None => code'[a] = code[a]
         /\ proxy[p] \in Proxy
         /\ \/ proxy'[p].wired = proxy[p].wired
            \/ /\ pc = "setRoots" /\ p = P /\ proxy'[p].wired = site[C].at
               /\ code'[site[C].at] = Mine(bin, p)
<1>1. proxy[p] \in Proxy /\ proxy \in [Platform -> Proxy \cup {None}]
  BY DEF IInv, TypeOK, Has
<1>2. CASE Locate \/ ReadRoots \/ Register \/ Accepts
  BY <1>1, <1>2 DEF Locate, ReadRoots, Register, Accepts, Fixed, chain
<1>3. CASE CircuitVerifier
  BY <1>1, <1>3, Verifier DEF CircuitVerifier, Fixed
<1>4. CASE DeployProxy
  BY <1>1, <1>4 DEF DeployProxy, Fixed, Has
<1>5. CASE UpgradeProxy
  <2>1. P \in Platform /\ Mine(bin, P) \in Code
    BY <1>5, Hand DEF UpgradeProxy, At, Among
  <2>2. proxy'[p].wired = proxy[p].wired
    BY <1>1, <1>5, <2>1 DEF UpgradeProxy, Proxy
  <2>3. QED BY <1>1, <1>5, <2>2 DEF UpgradeProxy, Fixed
<1>6. CASE SetRoots
  <2>1. P \in Platform /\ site[C].at \in Addr /\ code[site[C].at] = Mine(bin, P)
    BY <1>6, Hand DEF SetRoots, At, Among, AtHand, IInv, AtHandOK, Site
  <2>2. p # P => proxy'[p] = proxy[p]
    BY <1>1, <1>6, <2>1 DEF SetRoots
  <2>3. p = P => proxy'[p].wired \in {proxy[p].wired, site[C].at}
    BY <1>1, <1>6, <2>1 DEF SetRoots, Proxy
  <2>4. QED BY <1>1, <1>6, <2>1, <2>2, <2>3 DEF SetRoots, Fixed, At
<1>7. QED BY <1>2, <1>3, <1>4, <1>5, <1>6 DEF Step

\* No step of a run takes a platform off the vendored code, the owner's
\* rotation between its read and its setTrustRoots or not.
THEOREM Stays == Spec => StaysVendored
<1> DEFINE Kept == \A p \in Platform : Step /\ Has(p) /\ Holds(bin, p) => Holds(bin, p)'
<1>1. IInv /\ [Next]_vars => [Kept]_vars
  <2> SUFFICES ASSUME IInv, Step, NEW p \in Platform, Has(p), Holds(bin, p)
               PROVE  Holds(bin, p)'
    OBVIOUS
  <2>1. Mine(bin, p) # None /\ proxy[p] \in Proxy /\ proxy[p].wired \in Addr
    BY StepKeeps, Platforms, CircuitConstants DEF IInv, TypeOK, Proxy
  <2>2. QED BY <2>1, StepKeeps DEF Holds, Mine
<1>2. QED BY <1>1, Always, PTL DEF StaysVendored, Spec

\* A verifier with the vendored code stays the very one it is, unless the
\* owner came between.
THEOREM Keeps == Spec => KeepsVendored
<1> DEFINE Kept == \A p \in Platform :
                     Step /\ drift = 0 /\ Has(p) /\ proxy'[p].wired # proxy[p].wired
                       => ~Holds(bin, p)
<1>1. IInv /\ [Next]_vars => [Kept]_vars
  BY StepKeeps DEF IInv, RotationOK
<1>2. QED BY <1>1, Always, PTL DEF KeepsVendored, Spec

\* Where plan has no open line, a run without upgrades sends nothing more.
THEOREM OkSendsNothing == Spec => OkPlanSendsNothing
<1> DEFINE Idle == /\ Step /\ ups = {} /\ drift = 0 /\ AllOk(bin)
                   /\ \A c \in Circuit : site[c] \in {None, SiteOf(bin, c, {})}
                   => UNCHANGED chain
<1>1. IInv /\ [Next]_vars => [Idle]_vars
  <2> SUFFICES ASSUME IInv, Step, ups = {}, drift = 0, AllOk(bin),
                      \A c \in Circuit : site[c] \in {None, SiteOf(bin, c, {})}
               PROVE  UNCHANGED chain
    OBVIOUS
  <2>1. ASSUME pc \in Among
        PROVE  /\ P \in Platform /\ C \in Circuit /\ C = CircuitOf[P] /\ bin \in Binary
               /\ site[C] = SiteOf(bin, C, {}) /\ site[C] \in Site
               /\ CircuitLine(bin, C) = "ok" /\ RootsLine(bin, P) = "ok" /\ P \in registered
    <3>1. P \in Platform /\ C \in Circuit /\ C = CircuitOf[P] /\ bin \in Binary /\ site[C] \in Site
      BY <2>1, Hand
    <3>2. site[C] # None
      BY <3>1, CircuitConstants
    <3>3. QED BY <3>1, <3>2 DEF AllOk, RegistrationLine
  <2>2. CASE Locate \/ ReadRoots \/ Accepts
    BY <2>2 DEF Locate, ReadRoots, Accepts
  <2>3. CASE CircuitVerifier
    <3>1. pc \in Among
      BY <2>3 DEF CircuitVerifier, At, Among
    <3>2. site[C].inUse \/ code[site[C].at] = Vendored[bin][C]
      BY <2>1, <3>1 DEF CircuitLine, Site
    <3>3. site[C].inUse \/ code[site[C].at] # None
      BY <2>1, <3>1, <3>2, Names, CircuitConstants
    <3>4. QED BY <2>3, <3>3 DEF CircuitVerifier, chain
  <2>4. CASE DeployProxy
    <3>1. Has(P)
      BY <2>1, <2>4 DEF DeployProxy, At, Among, RootsLine
    <3>2. QED BY <2>4, <3>1 DEF DeployProxy, chain
  <2>5. CASE UpgradeProxy
    BY <2>5 DEF UpgradeProxy, chain
  <2>6. CASE SetRoots
    <3>1. pc \in Among /\ pc = "setRoots"
      BY <2>6 DEF SetRoots, At, Among
    <3>2. proxy[P].wired = SiteOf(bin, C, {}).at \/ Holds(bin, P)
      BY <2>1, <3>1 DEF RootsLine, C
    <3>3. QED BY <2>1, <3>1, <3>2 DEF IInv, RotationOK
  <2>7. CASE Register
    <3>1. P \in registered
      BY <2>1, <2>7 DEF Register, At, Among
    <3>2. QED BY <2>7, <3>1 DEF Register, chain
  <2>8. QED BY <2>2, <2>3, <2>4, <2>5, <2>6, <2>7 DEF Step
<1>2. QED BY <1>1, Always, PTL DEF OkPlanSendsNothing, Spec
=============================================================================
