-------------------------------- MODULE Stack --------------------------------
(***************************************************************************)
(* The proxies of the stack, one section of apply each, on a chain an      *)
(* older release left behind: implementations that lack a getter the       *)
(* wiring reads, pointers that drifted, sections never reached.  A run     *)
(* takes the sections in order: deploy, upgrade when asked, read each      *)
(* setting and send what differs from the file.  Runs die half way and are *)
(* run again; the owner key acts by hand; a second run deploys what this   *)
(* one has seen missing.  Beside it, what plan prints about the same       *)
(* chain.                                                                  *)
(*                                                                         *)
(* Factory has the deployment through the factory call by call; Circuits   *)
(* has the circuit verifiers and the registrations of step 6.              *)
(***************************************************************************)
EXTENDS Naturals, Sequences, FiniteSets, SequencesExt

CONSTANTS
  Files,        \* what the network file may say: signer, fee and recipient
  None,         \* a recipient not declared, a proxy not deployed
  Default,      \* a setting initialize does not write
  Canonical,    \* the declared address of the proxy a pointer is meant for
  Elsewhere,    \* any other address
  Generations,  \* what older releases lack: sets of getters
  Upgrades,     \* the --upgrade lists an operator may try
  MaxTurns,     \* bound: upgrade lists of the operator's own, changes of the file
  MaxAborts,    \* bound: runs that die half way
  MaxDrift      \* bound: steps of the owner key and of another run

\* Fault: the root list goes before the Notary Service it pays.
SectionsRootsFirst == <<"jwt_roots", "notary_service", "proof_verifier",
                        "identity_registry", "handle_escrow", "google_verifier">>

Sections == <<"notary_service", "proof_verifier", "identity_registry",
              "handle_escrow", "jwt_roots", "google_verifier">>

\* What a section reads and converges, in order.
SettingsOf == [notary_service    |-> <<"signer", "fee", "recipient">>,
               proof_verifier    |-> <<>>,
               identity_registry |-> <<"verifier">>,
               handle_escrow     |-> <<"registry">>,
               jwt_roots         |-> <<"notary">>,
               google_verifier   |-> <<"roots">>]

Component == DOMAIN SettingsOf
InFile    == {"signer", "fee", "recipient"}
Pointer   == {"verifier", "registry", "notary", "roots"}
Setting   == InFile \cup Pointer
Getter    == Setting \cup {"nodeKeyed"}

Of(s) == CHOOSE c \in Component : \E i \in DOMAIN SettingsOf[c] : SettingsOf[c][i] = s

\* The proxy a pointer is meant for.
Target == [verifier |-> "proof_verifier", registry |-> "identity_registry",
           notary |-> "notary_service", roots |-> "jwt_roots"]

Value == ({f[k] : f \in Files, k \in InFile} \ {None})
         \cup {Default, Canonical, Elsewhere}

ASSUME StackConstants ==
  /\ \A f \in Files : DOMAIN f = InFile /\ None \notin {f.signer, f.fee}
  /\ None \notin {"old", "new", Default, Canonical, Elsewhere}
  /\ Generations \subseteq SUBSET Getter
  /\ Upgrades \subseteq Seq(Component)
  /\ {MaxTurns, MaxAborts, MaxDrift} \subseteq Nat

VARIABLES
  file,     \* the network file
  lacks,    \* the getters the older implementations lack
  impl,     \* impl[c]: what c's proxy runs
  holds,    \* holds[s]: the values of s on-chain; only signers are several
  pc, sec, pos,  \* where the run is: step, section, setting
  ups,      \* its --upgrade list
  upgraded, \* the upgrades it has sent
  sent,     \* what it deployed and set
  foreseen, warned,  \* history: the plan before it, what it told and warned of
  touched,  \* history: who else changed the chain since
  turns, aborts, drift

chain  == <<impl, holds>>
run    == <<pc, sec, pos, ups, upgraded, sent, foreseen, warned>>
bounds == <<turns, aborts, drift>>
vars   == <<file, lacks, chain, run, touched, bounds>>

Stopped  == {"idle", "done", "refused", "miscounted", "crashed"}
Location == Stopped \cup {"code", "upgrade", "read", "send", "count"}

TypeOK ==
  /\ file \in Files
  /\ lacks \in Generations
  /\ impl \in [Component -> {None, "old", "new"}]
  /\ holds \in [Setting -> SUBSET Value]
  /\ pc \in Location
  /\ sec \in 1 .. Len(Sections)
  /\ pos \in 1 .. 3
  /\ ups \in Seq(Component)
  /\ upgraded \in 0 .. Len(ups)
  /\ {sent, foreseen} \subseteq SUBSET (Component \cup Setting)
  /\ warned \subseteq Setting
  /\ touched \subseteq {"owner", "other"}
  /\ turns \in 0 .. MaxTurns
  /\ aborts \in 0 .. MaxAborts
  /\ drift \in 0 .. MaxDrift

\* Fault: a recipient the file leaves out is sent all the same.
AskedAlways(s) == s \in Setting

Has(c)      == impl[c] # None
Asked(s)    == s = "recipient" => file.recipient # None
Declared(s) == IF s \in InFile THEN file[s] ELSE Canonical
Matches(s)  == Asked(s) => Declared(s) \in holds[s]
Answers(g, c) == impl[c] = "new" \/ (impl[c] = "old" /\ g \notin lacks)

\* What initialize writes into a setting: the file's value where it takes
\* one.
Initialized(s) == IF s \in {"recipient", "verifier"} THEN {Default} ELSE {Declared(s)}

\* HandleEscrow.initialize refuses a registry that is not nodeKeyed.
Initializes(c) == c = "handle_escrow" => Answers("nodeKeyed", "identity_registry")

Deployed(c) ==
  /\ impl' = [impl EXCEPT ![c] = "new"]
  /\ holds' = [s \in Setting |-> IF Of(s) = c THEN Initialized(s) ELSE holds[s]]
-----------------------------------------------------------------------------
(* The lines plan prints; it has none for the roots of the Google verifier *)
(* and none for what a proxy it does not find would hold.                  *)

CodeLine(c) == IF Has(c) THEN "ok" ELSE "deploy"

Line(s) ==
  CASE s = "roots" \/ ~Has(Of(s)) \/ ~Asked(s) -> "none"
    [] OTHER -> CASE ~Answers(s, Of(s))        -> "warn"
                  [] Answers(s, Of(s)) /\ Matches(s) -> "ok"
                  [] OTHER -> IF s = "registry" THEN "warn" ELSE "configure"

Warned  == {s \in Setting : Line(s) = "warn"}
AllOk   == /\ \A c \in Component : CodeLine(c) = "ok"
           /\ \A s \in Setting : Line(s) \in {"ok", "none"}

\* The proxies it tells the operator to --upgrade: a warning about the
\* signer, the fee or the root list's notary names no remedy.
Advises == {"recipient", "verifier", "registry"}
Advised == {Of(s) : s \in {t \in Warned \cap Advises : ~Answers(t, Of(t))}}

\* What plan tells the operator a run is to send: its lines that deploy or
\* configure.
Foreseen ==
  {c \in Component : CodeLine(c) = "deploy"}
  \cup {s \in Setting : Line(s) = "configure"}
-----------------------------------------------------------------------------
\* The first n proxies run an older release's implementation, initialized
\* from some file, the escrow perhaps on another registry; the other
\* pointers drift on the way.
Init ==
  /\ file \in Files
  /\ lacks \in Generations
  /\ \E n \in 0 .. Len(Sections), g \in Files, off \in SUBSET {"registry"} :
       LET old == {Sections[i] : i \in 1 .. n}
       IN /\ impl = [c \in Component |-> IF c \in old THEN "old" ELSE None]
          /\ holds = [s \in Setting |->
                        CASE Of(s) \notin old -> {}
                          [] OTHER -> CASE s = "recipient" -> {Default}
                                        [] s \in {"signer", "fee"} -> {g[s]}
                                        [] s \in off -> {Elsewhere}
                                        [] OTHER -> {Canonical}]
  /\ pc = "idle" /\ sec = 1 /\ pos = 1
  /\ ups = <<>> /\ upgraded = 0 /\ sent = {} /\ foreseen = {} /\ warned = {} /\ touched = {}
  /\ turns = 0 /\ aborts = 0 /\ drift = 0
-----------------------------------------------------------------------------
(* A run.                                                                  *)

Begin(u) ==
  /\ pc \in Stopped
  /\ pc' = "code" /\ sec' = 1 /\ pos' = 1
  /\ ups' = u /\ upgraded' = 0
  /\ sent' = {} /\ foreseen' = Foreseen /\ warned' = Warned /\ touched' = {}
  /\ UNCHANGED <<file, lacks, chain, aborts, drift>>

Start ==
  /\ turns < MaxTurns /\ turns' = turns + 1
  /\ \E u \in Upgrades : Begin(u)

\* The operator runs apply with the upgrades plan advises, while it has an
\* open line.
Settle ==
  /\ ~AllOk
  /\ Begin(SetToSeq(Advised))
  /\ UNCHANGED turns

At(l) == pc = l
C     == Sections[sec]
S     == SettingsOf[C][pos]
Kept  == UNCHANGED <<file, lacks, ups, foreseen, warned, touched, bounds>>

NextSection ==
  /\ pos' = 1
  /\ IF sec = Len(Sections) THEN pc' = "count" /\ UNCHANGED sec
                            ELSE pc' = "code" /\ sec' = sec + 1

\* Fault: only the first setting of a section is read.
NextSettingSkips == NextSection

NextSetting ==
  IF pos < Len(SettingsOf[C])
  THEN pos' = pos + 1 /\ pc' = "read" /\ UNCHANGED sec
  ELSE NextSection

Goto(l) == pc' = l /\ UNCHANGED <<sec, pos>>

\* How often the list names c.
Times(c) == Cardinality({i \in DOMAIN ups : ups[i] = c})

\* A proxy found at the start, or since: behind a presence flag that has
\* gone stale, deploy_named_proxy reads the factory's record and takes the
\* proxy as it is.  One that initialize refuses ends the run.
Deploy ==
  /\ At("code")
  /\ \/ /\ Has(C)
        /\ Goto("upgrade") /\ UNCHANGED <<chain, sent>>
     \/ /\ ~Has(C) /\ Initializes(C)
        /\ Deployed(C) /\ sent' = sent \cup {C}
        /\ Goto("upgrade")
     \/ /\ ~Has(C) /\ ~Initializes(C)
        /\ Goto("refused") /\ UNCHANGED <<chain, sent>>
  /\ UNCHANGED upgraded /\ Kept

\* Fault: the new implementation is deployed and the proxy never upgraded.
UpgradeDropped ==
  /\ At("upgrade")
  /\ upgraded' = upgraded + Times(C)
  /\ IF SettingsOf[C] = <<>> THEN NextSection ELSE Goto("read")
  /\ UNCHANGED <<chain, sent>> /\ Kept

\* Fault: a component named twice is upgraded once.
UpgradeOnce ==
  /\ At("upgrade")
  /\ impl' = IF Times(C) > 0 THEN [impl EXCEPT ![C] = "new"] ELSE impl
  /\ upgraded' = IF Times(C) > 0 THEN upgraded + 1 ELSE upgraded
  /\ IF SettingsOf[C] = <<>> THEN NextSection ELSE Goto("read")
  /\ UNCHANGED <<holds, sent>> /\ Kept

\* upgrade_if_requested, before anything is read through the proxy: once
\* for every time the list names it.
UpgradeIfRequested ==
  /\ At("upgrade")
  /\ impl' = IF Times(C) > 0 THEN [impl EXCEPT ![C] = "new"] ELSE impl
  /\ upgraded' = upgraded + Times(C)
  /\ IF SettingsOf[C] = <<>> THEN NextSection ELSE Goto("read")
  /\ UNCHANGED <<holds, sent>> /\ Kept

\* Fault: what matches is sent again.
ReadResends ==
  /\ At("read")
  /\ \/ ~Asked(S) /\ NextSetting
     \/ Asked(S) /\ ~Answers(S, C) /\ Goto("refused")
     \/ S = "registry" /\ Answers(S, C) /\ IF Matches(S) THEN NextSetting ELSE Goto("refused")
     \/ S # "registry" /\ Asked(S) /\ Answers(S, C) /\ Goto("send")
  /\ UNCHANGED <<chain, upgraded, sent>> /\ Kept

\* A getter that does not answer ends the run, and so does an escrow bound
\* elsewhere, which has no setter.
Read ==
  /\ At("read")
  /\ \/ ~Asked(S) /\ NextSetting
     \/ Asked(S) /\ ~Answers(S, C) /\ Goto("refused")
     \/ Asked(S) /\ Answers(S, C) /\ Matches(S) /\ NextSetting
     \/ /\ Asked(S) /\ Answers(S, C) /\ ~Matches(S)
        /\ Goto(IF S = "registry" THEN "refused" ELSE "send")
  /\ UNCHANGED <<chain, upgraded, sent>> /\ Kept

\* Fault: a setter that reverts is passed over.
SendUnchecked ==
  /\ At("send")
  /\ holds' \in {holds, [holds EXCEPT ![S] = IF S = "signer" THEN @ \cup {Declared(S)}
                                                             ELSE {Declared(S)}]}
  /\ sent' = sent \cup {S}
  /\ NextSetting
  /\ UNCHANGED <<impl, upgraded>> /\ Kept

Send ==
  /\ At("send")
  /\ holds' = [holds EXCEPT ![S] = IF S = "signer" THEN @ \cup {Declared(S)}
                                                   ELSE {Declared(S)}]
  /\ sent' = sent \cup {S}
  /\ NextSetting
  /\ UNCHANGED <<impl, upgraded>> /\ Kept

\* The count of the upgrades sent against the list, behind the last section.
CountUpgrades ==
  /\ At("count")
  /\ Goto(IF upgraded = Len(ups) THEN "done" ELSE "miscounted")
  /\ UNCHANGED <<chain, upgraded, sent>> /\ Kept
-----------------------------------------------------------------------------
(* Failure, drift, and another file.                                       *)

Abort ==
  /\ pc \notin Stopped
  /\ aborts < MaxAborts /\ aborts' = aborts + 1
  /\ Goto("crashed")
  /\ UNCHANGED <<file, lacks, chain, ups, upgraded, sent, foreseen, warned, touched,
                 turns, drift>>

Interfere(who) ==
  /\ drift < MaxDrift /\ drift' = drift + 1
  /\ touched' = touched \cup {who}
  /\ UNCHANGED <<file, lacks, run, turns, aborts>>

\* The owner of a proxy sets what has a setter.
OwnerSets ==
  /\ \E s \in Setting \ {"registry"} :
       /\ Has(Of(s))
       /\ holds' = [holds EXCEPT ![s] = {Elsewhere}]
  /\ UNCHANGED impl
  /\ Interfere("owner")

\* A second run of the same file deploys the first proxy there is not.
OtherDeploys ==
  /\ \E i \in DOMAIN Sections :
       /\ ~Has(Sections[i]) /\ \A j \in 1 .. i - 1 : Has(Sections[j])
       /\ Initializes(Sections[i]) /\ Deployed(Sections[i])
  /\ Interfere("other")

EditFile ==
  /\ pc \in Stopped
  /\ turns < MaxTurns /\ turns' = turns + 1
  /\ file' \in Files \ {file}
  /\ pc' = "idle"
  /\ UNCHANGED <<lacks, chain, sec, pos, ups, upgraded, sent, foreseen, warned,
                 touched, aborts, drift>>

Step == Deploy \/ UpgradeIfRequested \/ Read \/ Send \/ CountUpgrades

Next == Start \/ Settle \/ Step \/ Abort \/ OwnerSets \/ OtherDeploys \/ EditFile

Spec == Init /\ [][Next]_vars

\* A run goes on until it ends, and the operator repeats one that left the
\* plan open.
FairSpec == Spec /\ WF_vars(Step) /\ WF_vars(Settle)
-----------------------------------------------------------------------------
(* Properties.                                                             *)

\* The settings and proxies the run is past.
Behind ==
  LET before == {Sections[i] : i \in 1 .. (IF At("count") \/ At("done") THEN sec ELSE sec - 1)}
  IN before \cup {s \in Setting : Of(s) \in before}
     \cup (IF At("code") THEN {} ELSE {C})
     \cup {SettingsOf[C][i] : i \in 1 .. pos - 1}

Promise == INSTANCE Convergence WITH
  Run    <- {"apply"},
  Fact   <- Component \cup Setting,
  Wanted <- [r \in {"apply"} |-> Component \cup Setting],
  true   <- {c \in Component : Has(c)} \cup {s \in Setting : Matches(s)},
  found  <- [r \in {"apply"} |-> IF pc \in Stopped \ {"done"} THEN {} ELSE Behind],
  state  <- [r \in {"apply"} |-> CASE pc = "done"               -> "done"
                                   [] pc \in Stopped \ {"done"} -> "stopped"
                                   [] OTHER                     -> "running"],
  undone <- drift

\* Nothing is taken for done that the run has not seen true or set itself,
\* whoever interferes and wherever it was cut short before; and what the
\* file asks for, a run does not undo on its way to the rest.
KeepsPromise == Promise!Spec

\* The count of the upgrades ("a requested component has no section in
\* apply") never stops a run at its end: every component --upgrade takes
\* has a section, and one the list names twice is counted twice.
EveryUpgradeHasItsSection == pc # "miscounted"

\* A run that ends well has everything as the file says, whatever half of
\* it an older release, a dead run or a second run did, unless the owner
\* set something after its read.
DoneMeansConverged ==
  pc = "done" /\ "owner" \notin touched =>
    /\ \A c \in Component : Has(c)
    /\ \A s \in Setting : Matches(s)

\* plan and apply agree as far as plan has lines: on a chain nobody else
\* touches, a run that ends well sent exactly what the plan before it told,
\* but for the roots of the Google verifier, which plan does not read, what
\* a getter that did not answer hid, and the settings of a proxy still to be
\* deployed.  Of these plan says nothing, and apply sends the two that
\* initialize does not take, and no other.
PlanForetellsSends ==
  pc = "done" /\ touched = {} =>
    LET unlisted == {s \in Setting : Of(s) \in foreseen}
    IN /\ sent \ (warned \cup {"roots"} \cup unlisted) = foreseen \ warned
       /\ sent \cap unlisted \subseteq {"recipient", "verifier"}

\* And it told how the run ends: well only if every warning was upgraded
\* away, refused only behind a warning, at an escrow whose registry is too
\* old for it, or at a Google verifier that does not tell its roots; plan
\* has no line for the last two.
PlanForetellsTheEnd ==
  touched = {} =>
    /\ pc = "done" => \A s \in warned : Times(Of(s)) > 0
    /\ pc = "refused" => \/ \E s \in warned : Times(Of(s)) = 0 \/ s = "registry"
                         \/ ~Has("handle_escrow") /\ ~Initializes("handle_escrow")
                         \/ Has("google_verifier") /\ ~Answers("roots", "google_verifier")

\* Wherever a run dies, no proxy points at a declared address that has no
\* code.
NoDanglingPointer ==
  \A s \in Pointer : Canonical \in holds[s] => Has(Target[s])

\* An operator who repeats apply with the upgrades plan advises ends with
\* nothing plan would change, unless the escrow is bound elsewhere, the
\* registry lacks nodeKeyed and nothing plan reads, or an implementation
\* lacks a getter whose warning names no remedy.
AdviceConverges ==
  /\ {"signer", "fee", "notary"} \cap lacks = {}
  /\ "nodeKeyed" \in lacks => "verifier" \in lacks
  => <>[](AllOk \/ holds["registry"] = {Elsewhere})

\* Status::Ok, "Desired and present; nothing to do": apply sends nothing to
\* a chain the plan finds all ok.
OkPlanSendsNothing ==
  pc = "done" /\ touched = {} /\ foreseen = {} /\ warned = {} => sent = {}
=============================================================================
