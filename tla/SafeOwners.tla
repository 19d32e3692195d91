----------------------------- MODULE SafeOwners -----------------------------
(* Owner sets of a Safe and the batch that turns one into another: the     *)
(* OwnerSet of safes.rs, and Safe's OwnerManager as its tests replay it.   *)
EXTENDS Naturals, Sequences, FiniteSets, SequencesExt

CONSTANTS Owner, Sentinel

\* The network file declares no owner at SENTINEL_OWNERS.
ASSUME OwnerConstants == IsFiniteSet(Owner) /\ Sentinel \notin Owner

\* On-chain, owners is the Safe's linked list; in a file, the declared order.
OwnerSet == [owners : Seq(Owner), threshold : Nat]

\* What the network file may declare and a Safe may hold.
ValidSet ==
  UNION {[owners : {l \in [1 .. n -> Owner] : IsInjective(l)}, threshold : 1 .. n] :
           n \in 1 .. Cardinality(Owner)}

\* Fault: the threshold is not compared.
SameOwners(s, t) == /\ Len(s.owners) = Len(t.owners)
                    /\ ToSet(s.owners) \subseteq ToSet(t.owners)

SameAs(s, t) == /\ s.threshold = t.threshold
                /\ Len(s.owners) = Len(t.owners)
                /\ ToSet(s.owners) \subseteq ToSet(t.owners)

SignsAlone(s, key) == s.threshold = 1 /\ key \in ToSet(s.owners)

AddCall(o, t)       == [op |-> "add", owner |-> o, prev |-> Sentinel, threshold |-> t]
\* Fault: each removal lowers the threshold.
RemoveLowers(p, o, t) == [op |-> "remove", owner |-> o, prev |-> p, threshold |-> t - 1]

RemoveCall(p, o, t) == [op |-> "remove", owner |-> o, prev |-> p, threshold |-> t]
ChangeCall(t)       == [op |-> "change", owner |-> Sentinel, prev |-> Sentinel,
                        threshold |-> t]

CallUnder(thresholds) ==
  [op : {"add", "remove", "change"}, owner : Owner \cup {Sentinel},
   prev : Owner \cup {Sentinel}, threshold : thresholds]

CallType == CallUnder(1 .. Cardinality(Owner))

\* Fault: the threshold is not clamped to the owners left.
Unclamped(a, b) == a

Least(a, b) == IF a <= b THEN a ELSE b

\* Fault: an owner that is there already is added again.
MissingAll(s, t) == DOMAIN t.owners

\* Where calls_to still has to add a declared owner,
Missing(s, t) == {i \in DOMAIN t.owners : t.owners[i] \notin ToSet(s.owners)}

\* Fault: owners are compared by their place.
ExtraByPlace(s, t) == {i \in DOMAIN s.owners : i > Len(t.owners) \/ s.owners[i] # t.owners[i]}

\* and where it has to take one out.
Extra(s, t) == {i \in DOMAIN s.owners : s.owners[i] \notin ToSet(t.owners)}

Before(list, i) == IF i = 1 THEN Sentinel ELSE list[i - 1]

\* The variables of calls_to: the set its calls so far come to, and those.
LoopState == [set : OwnerSet, calls : Seq(CallUnder(Nat))]

\* One round of calls_to on the set its calls so far come to: the last
\* declared owner that is missing goes in front; with none missing, the first
\* extra one goes, under a threshold the owners left can meet; then the
\* threshold is set.
Round(t) == [b \in LoopState |->
  LET s        == b.set
      missing  == Missing(s, t)
      extra    == Extra(s, t)
      To(u, c) == [set |-> u, calls |-> Append(b.calls, c)]
  IN CASE missing # {} ->
            LET o == t.owners[Max(missing)]
            IN To([owners |-> <<o>> \o s.owners, threshold |-> s.threshold],
                  AddCall(o, s.threshold))
       [] missing = {} /\ extra # {} ->
            LET i == Min(extra)
                n == Least(s.threshold, Len(s.owners) - 1)
            IN To([owners |-> RemoveAt(s.owners, i), threshold |-> n],
                  RemoveCall(Before(s.owners, i), s.owners[i], n))
       [] missing = {} /\ extra = {} ->
            IF s.threshold = t.threshold THEN b
            ELSE To([owners |-> s.owners, threshold |-> t.threshold], ChangeCall(t.threshold))]

\* Enough for every owner of both and the threshold.
Rounds(s, t) == Len(s.owners) + Len(t.owners) + 1

Loop(s, t) ==
  LET loop[k \in 0 .. Rounds(s, t)] ==
        IF k = 0 THEN [set |-> s, calls |-> <<>>] ELSE Round(t)[loop[k - 1]]
  IN loop

CallsTo(s, t) == Loop(s, t)[Rounds(s, t)].calls

\* OwnerManager: what it refuses (GS201, GS203 to GS205) and what it does.
Follows(list, prev, o) == \E i \in DOMAIN list : list[i] = o /\ prev = Before(list, i)

Takes(s, c) ==
  CASE c.op = "add"    -> /\ c.owner \in Owner \ ToSet(s.owners)
                          /\ c.threshold \in 1 .. Len(s.owners) + 1
    [] c.op = "remove" -> /\ Follows(s.owners, c.prev, c.owner)
                          /\ c.threshold \in 1 .. Len(s.owners) - 1
    [] c.op = "change" -> c.threshold \in 1 .. Len(s.owners)

Place(list, o) == CHOOSE i \in DOMAIN list : list[i] = o

Run(s, c) ==
  [owners |-> CASE c.op = "add"    -> <<c.owner>> \o s.owners
                [] c.op = "remove" -> RemoveAt(s.owners, Place(s.owners, c.owner))
                [] c.op = "change" -> s.owners,
   threshold |-> c.threshold]

\* The sets a Safe is in after each of the calls: none behind one it refuses.
Ran(s, calls) ==
  LET ran[k \in 0 .. Len(calls)] ==
        IF k = 0 THEN {s} ELSE {Run(u, calls[k]) : u \in {v \in ran[k - 1] : Takes(v, calls[k])}}
  IN ran

\* One Safe transaction runs the whole batch or nothing: the set it leaves,
\* no set when a call is refused.
Batch(s, calls) == Ran(s, calls)[Len(calls)]
=============================================================================
