---------------------------- MODULE OwnersProofs ----------------------------
(***************************************************************************)
(* What calls_to computes, for any owners: from a set a Safe may hold to   *)
(* one a file may declare, call by call.                                   *)
(***************************************************************************)
EXTENDS SafeOwners, FiniteSetTheorems, SequenceTheorems, WellFoundedInduction, TLAPS

Proper(s) == /\ s \in OwnerSet
             /\ IsInjective(s.owners)
             /\ s.threshold \in 1 .. Len(s.owners)

\* A set of naturals has a least element.
LEMMA LeastOf ==
  ASSUME NEW T \in SUBSET Nat, T # {}
  PROVE  \E m \in T : \A n \in T : m <= n
<1>1. IsWellFoundedOn(OpToRel(<, Nat), Nat)
  BY NatLessThanWellFounded
<1>2. \E x \in T : \A y \in T : ~ (<<y, x>> \in OpToRel(<, Nat))
  BY <1>1, WFMin
<1>3. \A x, y \in Nat : y < x => <<y, x>> \in OpToRel(<, Nat)
  BY DEF OpToRel
<1>4. PICK x \in T : \A y \in T : ~ (y < x)
  BY <1>2, <1>3
<1>5. QED BY <1>4

\* A bounded one has a greatest.
LEMMA GreatestOf ==
  ASSUME NEW n \in Nat, NEW T \in SUBSET (1 .. n), T # {}
  PROVE  Max(T) \in T
<1> DEFINE U == {n - i : i \in T}
<1>0. U \in SUBSET Nat /\ U # {}
  <2>1. \A i \in T : n - i \in Nat
    OBVIOUS
  <2>2. PICK i \in T : TRUE
    OBVIOUS
  <2>3. n - i \in U
    OBVIOUS
  <2>4. QED BY <2>1, <2>3
<1> HIDE DEF U
<1>1. PICK m \in U : \A k \in U : m <= k
  BY <1>0, LeastOf
<1>2. n - m \in T /\ \A i \in T : n - m >= i
  BY <1>1 DEF U
<1>3. QED BY <1>2 DEF Max

\* Min is one of the set.
LEMMA SmallestOf ==
  ASSUME NEW T \in SUBSET Nat, T # {}
  PROVE  Min(T) \in T
BY LeastOf DEF Min

\* The owners of a list that repeats none are as many as its places.
LEMMA Counted ==
  ASSUME NEW l \in Seq(Owner), IsInjective(l)
  PROVE  /\ ToSet(l) \subseteq Owner
         /\ IsFiniteSet(ToSet(l))
         /\ Cardinality(ToSet(l)) = Len(l)
         /\ Len(l) <= Cardinality(Owner)
<1>1. /\ Len(l) \in Nat
      /\ DOMAIN l = 1 .. Len(l)
      /\ l \in [1 .. Len(l) -> Owner]
  BY LenProperties
<1>2. ToSet(l) \subseteq Owner
  BY <1>1 DEF ToSet
<1>3. IsFiniteSet(ToSet(l)) /\ Cardinality(ToSet(l)) <= Cardinality(Owner)
  BY <1>2, FS_Subset, OwnerConstants
<1>4. l \in Bijection(1 .. Len(l), ToSet(l))
  BY <1>1 DEF Bijection, Injection, Surjection, IsInjective, ToSet
<1>5. Cardinality(ToSet(l)) = Len(l)
  BY <1>1, <1>4, FS_CountingElements DEF ExistsBijection
<1>6. QED BY <1>2, <1>3, <1>5

\* The sets a Safe may hold are the lists that repeat no owner, under a
\* threshold they can meet.
LEMMA Valid == \A s : s \in ValidSet <=> Proper(s)
<1>1. ASSUME NEW s \in ValidSet PROVE Proper(s)
  <2>1. PICK n \in 1 .. Cardinality(Owner) :
          s \in [owners : {l \in [1 .. n -> Owner] : IsInjective(l)}, threshold : 1 .. n]
    BY <1>1 DEF ValidSet
  <2>2. n \in Nat /\ s.owners \in [1 .. n -> Owner]
    BY <2>1, FS_CardinalityType, OwnerConstants
  <2>3. s.owners \in Seq(Owner) /\ Len(s.owners) = n
    BY <2>2
  <2>4. QED BY <2>1, <2>2, <2>3 DEF Proper, OwnerSet
<1>2. ASSUME NEW s, Proper(s) PROVE s \in ValidSet
  <2>1. s.owners \in Seq(Owner) /\ s = [owners |-> s.owners, threshold |-> s.threshold]
    BY <1>2 DEF Proper, OwnerSet
  <2>2. /\ Len(s.owners) \in Nat
        /\ s.owners \in [1 .. Len(s.owners) -> Owner]
        /\ Len(s.owners) <= Cardinality(Owner)
        /\ Cardinality(Owner) \in Nat
    BY <2>1, <1>2, LenProperties, Counted, FS_CardinalityType, OwnerConstants DEF Proper
  <2>3. Len(s.owners) \in 1 .. Cardinality(Owner) /\ s.threshold \in 1 .. Len(s.owners)
    BY <2>2, <1>2 DEF Proper
  <2>4. QED BY <2>1, <2>2, <2>3, <1>2 DEF Proper, ValidSet
<1>3. QED BY <1>1, <1>2

\* Two sets are the same when they agree on owners and threshold.
LEMMA SameMeans ==
  ASSUME NEW s, NEW t, Proper(s), Proper(t)
  PROVE  SameAs(s, t) <=> s.threshold = t.threshold /\ ToSet(s.owners) = ToSet(t.owners)
<1>1. s.owners \in Seq(Owner) /\ t.owners \in Seq(Owner)
  BY DEF Proper, OwnerSet
<1>2. /\ IsFiniteSet(ToSet(s.owners)) /\ Cardinality(ToSet(s.owners)) = Len(s.owners)
      /\ IsFiniteSet(ToSet(t.owners)) /\ Cardinality(ToSet(t.owners)) = Len(t.owners)
  BY <1>1, Counted DEF Proper
<1>3. Len(s.owners) = Len(t.owners) /\ ToSet(s.owners) \subseteq ToSet(t.owners)
        => ToSet(s.owners) = ToSet(t.owners)
  BY <1>2, FS_Subset
<1>4. ToSet(s.owners) = ToSet(t.owners) => Len(s.owners) = Len(t.owners)
  BY <1>2
<1>5. QED BY <1>3, <1>4 DEF SameAs

\* An owner in front of the others.
LEMMA InFront ==
  ASSUME NEW l \in Seq(Owner), IsInjective(l), NEW o \in Owner \ ToSet(l)
  PROVE  LET r == <<o>> \o l
         IN  /\ r \in Seq(Owner) /\ IsInjective(r)
             /\ Len(r) = Len(l) + 1
             /\ ToSet(r) = ToSet(l) \cup {o}
<1> DEFINE r == <<o>> \o l
<1>1. Len(l) \in Nat /\ DOMAIN l = 1 .. Len(l)
  BY LenProperties
<1>2. <<o>> \in Seq(Owner) /\ Len(<<o>>) = 1 /\ <<o>>[1] = o
  OBVIOUS
<1>3. /\ r \in Seq(Owner) /\ Len(r) = 1 + Len(l)
      /\ \A i \in 1 .. 1 + Len(l) : r[i] = IF i <= 1 THEN <<o>>[i] ELSE l[i - 1]
  BY <1>2, ConcatProperties
<1>4. DOMAIN r = 1 .. Len(l) + 1
  BY <1>1, <1>3, LenProperties
<1>5. r[1] = o /\ \A i \in 1 .. Len(l) : r[i + 1] = l[i]
  BY <1>1, <1>2, <1>3
<1>6. \A i \in 2 .. Len(l) + 1 : r[i] = l[i - 1] /\ i - 1 \in DOMAIN l
  BY <1>1, <1>3
<1> HIDE DEF r
<1>7. IsInjective(r)
  <2>1. \A i \in DOMAIN r : i = 1 \/ i \in 2 .. Len(l) + 1
    BY <1>1, <1>4
  <2>2. \A i \in DOMAIN l : l[i] # o
    BY DEF ToSet
  <2>3. ASSUME NEW i \in DOMAIN r, NEW j \in DOMAIN r, r[i] = r[j] PROVE i = j
    <3>1. CASE i = 1
      BY <3>1, <2>1, <2>2, <2>3, <1>5, <1>6
    <3>2. CASE j = 1
      BY <3>2, <2>1, <2>2, <2>3, <1>5, <1>6
    <3>3. CASE i \in 2 .. Len(l) + 1 /\ j \in 2 .. Len(l) + 1
      <4>1. l[i - 1] = l[j - 1] /\ i - 1 \in DOMAIN l /\ j - 1 \in DOMAIN l
        BY <3>3, <2>3, <1>6
      <4>2. i - 1 = j - 1
        BY <4>1 DEF IsInjective
      <4>3. QED BY <4>2, <3>3
    <3>4. QED BY <3>1, <3>2, <3>3, <2>1
  <2>4. QED BY <2>3 DEF IsInjective
<1>8. ToSet(r) = ToSet(l) \cup {o}
  <2>1. ASSUME NEW x \in ToSet(r) PROVE x \in ToSet(l) \cup {o}
    <3>1. PICK i \in DOMAIN r : x = r[i]
      BY DEF ToSet
    <3>2. i = 1 \/ i \in 2 .. Len(l) + 1
      BY <1>1, <1>4
    <3>3. QED BY <3>1, <3>2, <1>5, <1>6 DEF ToSet
  <2>2. o \in ToSet(r)
    BY <1>1, <1>4, <1>5 DEF ToSet
  <2>3. ASSUME NEW x \in ToSet(l) PROVE x \in ToSet(r)
    <3>1. PICK i \in DOMAIN l : x = l[i]
      BY DEF ToSet
    <3>2. i + 1 \in DOMAIN r /\ r[i + 1] = x
      BY <3>1, <1>1, <1>4, <1>5
    <3>3. QED BY <3>2 DEF ToSet
  <2>4. QED BY <2>1, <2>2, <2>3
<1>9. QED BY <1>1, <1>3, <1>7, <1>8 DEF r

\* A list without the owner at a place.
LEMMA TakenOut ==
  ASSUME NEW l \in Seq(Owner), IsInjective(l), NEW i \in 1 .. Len(l)
  PROVE  LET r == RemoveAt(l, i)
         IN  /\ r \in Seq(Owner) /\ IsInjective(r)
             /\ Len(r) = Len(l) - 1
             /\ ToSet(r) = ToSet(l) \ {l[i]}
             /\ Place(l, l[i]) = i
<1> DEFINE p == SubSeq(l, 1, i - 1)
           q == SubSeq(l, i + 1, Len(l))
           r == p \o q
           Was(j) == IF j < i THEN j ELSE j + 1
<1>1. Len(l) \in Nat /\ DOMAIN l = 1 .. Len(l) /\ \A j \in 1 .. Len(l) : l[j] \in Owner
  BY LenProperties
<1>2. /\ p \in Seq(Owner) /\ Len(p) = i - 1
      /\ \A j \in 1 .. i - 1 : p[j] = l[j]
  <2>1. /\ p \in Seq(Owner) /\ Len(p) = IF 1 <= i - 1 THEN (i - 1) - 1 + 1 ELSE 0
        /\ \A j \in 1 .. (i - 1) - 1 + 1 : p[j] = l[1 + j - 1]
    <3>1. 1 \in Int /\ i - 1 \in Int /\ \A j \in 1 .. i - 1 : l[j] \in Owner
      BY <1>1
    <3>2. QED BY ONLY <3>1, SubSeqProperties
  <2>2. QED BY <2>1, <1>1
<1>3. /\ q \in Seq(Owner) /\ Len(q) = Len(l) - i
      /\ \A j \in 1 .. Len(l) - i : q[j] = l[i + j]
  <2>1. /\ q \in Seq(Owner) /\ Len(q) = IF i + 1 <= Len(l) THEN Len(l) - (i + 1) + 1 ELSE 0
        /\ \A j \in 1 .. Len(l) - (i + 1) + 1 : q[j] = l[(i + 1) + j - 1]
    <3>1. i + 1 \in Int /\ Len(l) \in Int /\ \A j \in i + 1 .. Len(l) : l[j] \in Owner
      BY <1>1
    <3>2. QED BY ONLY <3>1, SubSeqProperties
  <2>2. \A j \in 1 .. Len(l) - i : j \in 1 .. Len(l) - (i + 1) + 1 /\ (i + 1) + j - 1 = i + j
    BY <1>1
  <2>3. \A j \in 1 .. Len(l) - i : q[j] = l[i + j]
    <3>1. TAKE j \in 1 .. Len(l) - i
    <3>2. q[j] = l[(i + 1) + j - 1]
      BY <2>1, <2>2
    <3>3. (i + 1) + j - 1 = i + j
      BY <2>2
    <3>4. QED BY <3>2, <3>3
  <2>4. Len(q) = Len(l) - i
    BY <2>1, <1>1
  <2>5. QED BY <2>1, <2>3, <2>4
<1> HIDE DEF p, q
<1>4. /\ r \in Seq(Owner) /\ Len(r) = Len(p) + Len(q)
      /\ \A j \in 1 .. Len(p) + Len(q) : r[j] = IF j <= Len(p) THEN p[j] ELSE q[j - Len(p)]
  BY <1>2, <1>3, ConcatProperties
<1> HIDE DEF r
<1>5. Len(r) = Len(l) - 1 /\ DOMAIN r = 1 .. Len(l) - 1
  BY <1>1, <1>2, <1>3, <1>4, LenProperties
<1>6. ASSUME NEW j \in DOMAIN r
      PROVE  r[j] = l[Was(j)] /\ Was(j) \in DOMAIN l /\ Was(j) # i
  <2>1. j \in 1 .. Len(p) + Len(q)
    BY <1>1, <1>2, <1>3, <1>5
  <2>2. CASE j < i
    BY <2>1, <2>2, <1>1, <1>2, <1>3, <1>4
  <2>3. CASE j >= i
    <3>1. r[j] = q[j - (i - 1)] /\ j - (i - 1) \in 1 .. Len(l) - i
      BY <2>1, <2>3, <1>1, <1>2, <1>3, <1>4
    <3>2. i + (j - (i - 1)) = j + 1
      BY <2>1, <2>3, <1>1
    <3>3. QED BY <3>1, <3>2, <2>1, <2>3, <1>1, <1>2, <1>3
  <2>4. QED BY <2>1, <2>2, <2>3, <1>1, <1>2, <1>3
<1>7. \A j \in DOMAIN l : j # i => \E k \in DOMAIN r : Was(k) = j
  <2>1. ASSUME NEW j \in DOMAIN l, j < i PROVE \E k \in DOMAIN r : Was(k) = j
    <3>1. j \in DOMAIN r /\ Was(j) = j
      BY <2>1, <1>1, <1>5
    <3>2. QED BY <3>1
  <2>2. ASSUME NEW j \in DOMAIN l, j > i PROVE \E k \in DOMAIN r : Was(k) = j
    <3>1. j - 1 \in DOMAIN r /\ Was(j - 1) = j
      BY <2>2, <1>1, <1>5
    <3>2. QED BY <3>1
  <2>3. QED BY <2>1, <2>2, <1>1
<1>8. \A j, k \in DOMAIN r : Was(j) = Was(k) => j = k
  BY <1>1, <1>5
<1> HIDE DEF Was
<1>9. IsInjective(r)
  <2>1. ASSUME NEW j \in DOMAIN r, NEW k \in DOMAIN r, r[j] = r[k] PROVE j = k
    <3>1. l[Was(j)] = l[Was(k)] /\ Was(j) \in DOMAIN l /\ Was(k) \in DOMAIN l
      BY <2>1, <1>6
    <3>2. Was(j) = Was(k)
      BY <3>1 DEF IsInjective
    <3>3. QED BY <3>2, <1>8
  <2>2. QED BY <2>1 DEF IsInjective
<1>10. ToSet(r) = ToSet(l) \ {l[i]}
  <2>1. ASSUME NEW x \in ToSet(r) PROVE x \in ToSet(l) /\ x # l[i]
    <3>1. PICK j \in DOMAIN r : x = r[j]
      BY DEF ToSet
    <3>2. x = l[Was(j)] /\ Was(j) \in DOMAIN l /\ Was(j) # i
      BY <3>1, <1>6
    <3>3. QED BY <3>2, <1>1 DEF ToSet, IsInjective
  <2>2. ASSUME NEW x \in ToSet(l), x # l[i] PROVE x \in ToSet(r)
    <3>1. PICK j \in DOMAIN l : x = l[j]
      BY DEF ToSet
    <3>2. PICK k \in DOMAIN r : Was(k) = j
      BY <3>1, <2>2, <1>7
    <3>3. x = r[k]
      BY <3>1, <3>2, <1>6
    <3>4. QED BY <3>3 DEF ToSet
  <2>3. QED BY <2>1, <2>2
<1>11. Place(l, l[i]) = i
  BY <1>1 DEF Place, IsInjective
<1>12. QED BY <1>4, <1>5, <1>9, <1>10, <1>11 DEF r, p, q, RemoveAt

-----------------------------------------------------------------------------
\* Whatever call the OwnerManager takes leaves a set a Safe may hold.
LEMMA RunValid ==
  ASSUME NEW u, Proper(u), NEW c \in CallUnder(Nat), Takes(u, c)
  PROVE  Proper(Run(u, c))
<1>1. u.owners \in Seq(Owner) /\ IsInjective(u.owners) /\ Len(u.owners) \in Nat
  BY LenProperties DEF Proper, OwnerSet
<1>2. c.op \in {"add", "remove", "change"} /\ c.threshold \in Nat
  BY DEF CallUnder
<1>3. CASE c.op = "add"
  <2>1. c.owner \in Owner \ ToSet(u.owners) /\ c.threshold \in 1 .. Len(u.owners) + 1
    BY <1>3 DEF Takes
  <2>2. Run(u, c) = [owners |-> <<c.owner>> \o u.owners, threshold |-> c.threshold]
    BY <1>3 DEF Run
  <2>3. LET r == <<c.owner>> \o u.owners
        IN r \in Seq(Owner) /\ IsInjective(r) /\ Len(r) = Len(u.owners) + 1
    BY <2>1, <1>1, InFront
  <2>4. QED BY <2>1, <2>2, <2>3, <1>2 DEF Proper, OwnerSet
<1>4. CASE c.op = "remove"
  <2>1. Follows(u.owners, c.prev, c.owner) /\ c.threshold \in 1 .. Len(u.owners) - 1
    BY <1>4 DEF Takes
  <2>2. PICK i \in 1 .. Len(u.owners) : u.owners[i] = c.owner
    BY <2>1, <1>1, LenProperties DEF Follows
  <2>3. LET r == RemoveAt(u.owners, i)
        IN r \in Seq(Owner) /\ IsInjective(r) /\ Len(r) = Len(u.owners) - 1
    BY <2>2, <1>1, TakenOut
  <2>4. Place(u.owners, c.owner) = i
    BY <2>2, <1>1, TakenOut
  <2>5. Run(u, c) = [owners |-> RemoveAt(u.owners, i), threshold |-> c.threshold]
    BY <1>4, <2>4 DEF Run
  <2>6. QED BY <2>1, <2>3, <2>5, <1>2 DEF Proper, OwnerSet
<1>5. CASE c.op = "change"
  <2>1. Run(u, c) = [owners |-> u.owners, threshold |-> c.threshold]
    BY <1>5 DEF Run
  <2>2. c.threshold \in 1 .. Len(u.owners)
    BY <1>5 DEF Takes
  <2>3. QED BY <2>1, <2>2, <1>1, <1>2 DEF Proper, OwnerSet
<1>6. QED BY <1>2, <1>3, <1>4, <1>5

\* How far a set is from the declared one: the owners that differ, and the
\* threshold.
Left(s, t) == IF SameAs(s, t) THEN 0
              ELSE Cardinality(ToSet(t.owners) \ ToSet(s.owners))
                   + Cardinality(ToSet(s.owners) \ ToSet(t.owners)) + 1

\* What a call of the batch is for.
Serves(c, s, t) ==
  \/ c.op = "add" /\ c.owner \in ToSet(t.owners)
  \/ c.op = "remove" /\ c.owner \notin ToSet(t.owners)
  \/ c.op = "change" /\ s.threshold # t.threshold

\* A call on the way from s to t.
Moves(s, c, t) ==
  /\ c \in CallType
  /\ Takes(s, c)
  /\ Serves(c, s, t)
  /\ ToSet(s.owners) \cap ToSet(t.owners) \subseteq ToSet(Run(s, c).owners)
  /\ Left(Run(s, c), t) + 1 <= Left(s, t)

\* What is left is a natural, none exactly at the declared set, and bounded.
LEMMA LeftNat ==
  ASSUME NEW s, NEW t, Proper(s), Proper(t)
  PROVE  /\ Left(s, t) \in Nat
         /\ Left(s, t) = 0 <=> SameAs(s, t)
         /\ Left(s, t) <= Len(s.owners) + Len(t.owners)
                          - 2 * Cardinality(ToSet(s.owners) \cap ToSet(t.owners)) + 1
         /\ Left(s, t) <= Len(s.owners) + Len(t.owners) + 1
<1> DEFINE S == ToSet(s.owners)
           T == ToSet(t.owners)
<1>1. /\ IsFiniteSet(S) /\ Cardinality(S) = Len(s.owners)
      /\ IsFiniteSet(T) /\ Cardinality(T) = Len(t.owners)
  BY Counted DEF Proper, OwnerSet
<1> HIDE DEF S, T
<1>2. /\ IsFiniteSet(S \ T) /\ Cardinality(S \ T) = Cardinality(S) - Cardinality(S \cap T)
      /\ IsFiniteSet(T \ S) /\ Cardinality(T \ S) = Cardinality(T) - Cardinality(T \cap S)
  BY <1>1, FS_Difference
<1>3. IsFiniteSet(S \cap T) /\ S \cap T = T \cap S
  BY <1>1, FS_Intersection
<1>4. /\ Cardinality(S \ T) \in Nat /\ Cardinality(T \ S) \in Nat
      /\ Cardinality(S \cap T) \in Nat
      /\ Cardinality(S) \in Nat /\ Cardinality(T) \in Nat
  BY <1>1, <1>2, <1>3, FS_CardinalityType
<1> DEFINE ts == Cardinality(T \ S)
           st == Cardinality(S \ T)
           both == Cardinality(S \cap T)
<1>5. Left(s, t) = IF SameAs(s, t) THEN 0 ELSE ts + st + 1
  BY DEF Left, S, T
<1> DEFINE m == Len(s.owners)
           n == Len(t.owners)
<1>6. st = m - both /\ ts = n - both
  BY <1>1, <1>2, <1>3
<1>7. /\ ts \in Nat /\ st \in Nat /\ both \in Nat
      /\ m \in Nat /\ n \in Nat
  BY <1>1, <1>4
<1> HIDE DEF ts, st, both, m, n
<1>8. m + n - 2 * both + 1 = ts + st + 1
  BY <1>6, <1>7
<1>9. ts + st + 1 \in Nat /\ ts + st + 1 <= m + n + 1 /\ ts + st + 1 # 0
  BY <1>6, <1>7
<1>10. /\ Left(s, t) \in Nat
       /\ Left(s, t) = 0 <=> SameAs(s, t)
       /\ Left(s, t) <= ts + st + 1
  <2>1. CASE SameAs(s, t)
    BY <2>1, <1>5, <1>9
  <2>2. CASE ~SameAs(s, t)
    BY <2>2, <1>5, <1>9
  <2>3. QED BY <2>1, <2>2
<1>11. Left(s, t) <= m + n + 1
  BY <1>7, <1>9, <1>10
<1>12. QED BY <1>8, <1>10, <1>11 DEF both, S, T, m, n

\* Less is left when one owner less differs, and nothing once none does
\* and the thresholds agree.
LEMMA LeftLess ==
  ASSUME NEW s, NEW u, NEW t, Proper(s), Proper(u), Proper(t), ~SameAs(s, t),
         \/ \E o \in ToSet(t.owners) \ ToSet(s.owners) :
              ToSet(u.owners) = ToSet(s.owners) \cup {o}
         \/ \E o \in ToSet(s.owners) \ ToSet(t.owners) :
              ToSet(u.owners) = ToSet(s.owners) \ {o}
         \/ SameAs(u, t)
  PROVE  Left(u, t) + 1 <= Left(s, t)
<1> DEFINE S == ToSet(s.owners)
           T == ToSet(t.owners)
           U == ToSet(u.owners)
<1>1. IsFiniteSet(S) /\ IsFiniteSet(T) /\ IsFiniteSet(U)
  BY Counted DEF Proper, OwnerSet
<1> HIDE DEF S, T, U
<1>2. /\ IsFiniteSet(S \ T) /\ IsFiniteSet(T \ S) /\ IsFiniteSet(U \ T) /\ IsFiniteSet(T \ U)
      /\ Cardinality(S \ T) \in Nat /\ Cardinality(T \ S) \in Nat
      /\ Cardinality(U \ T) \in Nat /\ Cardinality(T \ U) \in Nat
  BY <1>1, FS_Difference, FS_CardinalityType
<1> DEFINE ts == Cardinality(T \ S)
           st == Cardinality(S \ T)
           tu == Cardinality(T \ U)
           ut == Cardinality(U \ T)
<1>3. /\ Left(s, t) = ts + st + 1
      /\ Left(u, t) = IF SameAs(u, t) THEN 0 ELSE tu + ut + 1
  BY DEF Left, S, T, U
<1>4. ts \in Nat /\ st \in Nat /\ tu \in Nat /\ ut \in Nat
  BY <1>2
<1>5. ASSUME NEW o \in T \ S, U = S \cup {o} PROVE tu = ts - 1 /\ ut = st
  <2>1. T \ U = (T \ S) \ {o} /\ U \ T = S \ T
    BY <1>5
  <2>2. Cardinality((T \ S) \ {o}) = Cardinality(T \ S) - 1
    BY <1>5, <1>2, FS_RemoveElement
  <2>3. QED BY <2>1, <2>2
<1>6. ASSUME NEW o \in S \ T, U = S \ {o} PROVE ut = st - 1 /\ tu = ts
  <2>1. U \ T = (S \ T) \ {o} /\ T \ U = T \ S
    BY <1>6
  <2>2. Cardinality((S \ T) \ {o}) = Cardinality(S \ T) - 1
    BY <1>6, <1>2, FS_RemoveElement
  <2>3. QED BY <2>1, <2>2
<1>7. \/ tu = ts - 1 /\ ut = st
      \/ ut = st - 1 /\ tu = ts
      \/ SameAs(u, t)
  BY <1>5, <1>6 DEF S, T, U
<1> HIDE DEF ts, st, tu, ut
<1>8. QED BY <1>3, <1>4, <1>7

\* What the places to add and to take out come to as sets of owners.
LEMMA Places ==
  ASSUME NEW s, NEW t, Proper(s), Proper(t)
  PROVE  /\ Missing(s, t) \in SUBSET (1 .. Len(t.owners))
         /\ Extra(s, t) \in SUBSET (1 .. Len(s.owners))
         /\ Missing(s, t) = {} <=> ToSet(t.owners) \subseteq ToSet(s.owners)
         /\ Extra(s, t) = {} <=> ToSet(s.owners) \subseteq ToSet(t.owners)
<1>1. DOMAIN s.owners = 1 .. Len(s.owners) /\ DOMAIN t.owners = 1 .. Len(t.owners)
  BY LenProperties DEF Proper, OwnerSet
<1>2. Missing(s, t) = {} <=> ToSet(t.owners) \subseteq ToSet(s.owners)
  BY DEF Missing, ToSet
<1>3. Extra(s, t) = {} <=> ToSet(s.owners) \subseteq ToSet(t.owners)
  BY DEF Extra, ToSet
<1>4. QED BY <1>1, <1>2, <1>3 DEF Missing, Extra

\* What the provers need to know of a set a Safe may hold.
LEMMA Bounds ==
  ASSUME NEW s, Proper(s)
  PROVE  /\ s.owners \in Seq(Owner) /\ IsInjective(s.owners)
         /\ Len(s.owners) \in Nat /\ Len(s.owners) <= Cardinality(Owner)
         /\ Cardinality(Owner) \in Nat
         /\ DOMAIN s.owners = 1 .. Len(s.owners)
         /\ \A i \in 1 .. Len(s.owners) : s.owners[i] \in Owner
         /\ s.threshold \in Nat /\ s.threshold >= 1 /\ s.threshold <= Len(s.owners)
         /\ s = [owners |-> s.owners, threshold |-> s.threshold]
<1>1. s.owners \in Seq(Owner) /\ s.threshold \in Nat
  BY DEF Proper, OwnerSet
<1>2. /\ Len(s.owners) \in Nat /\ DOMAIN s.owners = 1 .. Len(s.owners)
      /\ \A i \in 1 .. Len(s.owners) : s.owners[i] \in Owner
  BY <1>1, LenProperties
<1>3. Len(s.owners) <= Cardinality(Owner) /\ Cardinality(Owner) \in Nat
  BY <1>1, Counted, FS_CardinalityType, OwnerConstants DEF Proper
<1>4. QED BY <1>1, <1>2, <1>3 DEF Proper, OwnerSet

\* The three calls, each on its way.
LEMMA AddMoves ==
  ASSUME NEW s, NEW t, Proper(s), Proper(t), Missing(s, t) # {}
  PROVE  LET o == t.owners[Max(Missing(s, t))]
             c == AddCall(o, s.threshold)
         IN  /\ Moves(s, c, t)
             /\ Proper(Run(s, c))
             /\ Run(s, c) = [owners |-> <<o>> \o s.owners, threshold |-> s.threshold]
<1> DEFINE i == Max(Missing(s, t))
           o == t.owners[i]
           c == AddCall(o, s.threshold)
<1>1. /\ s.owners \in Seq(Owner) /\ IsInjective(s.owners)
      /\ Len(s.owners) \in Nat /\ Len(s.owners) <= Cardinality(Owner)
      /\ Cardinality(Owner) \in Nat
      /\ s.threshold \in Nat /\ s.threshold >= 1 /\ s.threshold <= Len(s.owners)
  BY Bounds
<1>2. i \in Missing(s, t)
  BY Places, Bounds, GreatestOf
<1> HIDE DEF i
<1>3. o \in ToSet(t.owners) /\ o \notin ToSet(s.owners) /\ o \in Owner
  BY <1>2, Bounds DEF Missing, ToSet
<1> HIDE DEF o
<1>4. /\ c.op = "add" /\ c.owner = o /\ c.threshold = s.threshold /\ c.prev = Sentinel
      /\ c \in CallType
  BY <1>1, <1>3 DEF AddCall, CallType, CallUnder
<1>5. c \in CallUnder(Nat)
  BY <1>1, <1>3 DEF AddCall, CallUnder
<1> HIDE DEF c
<1>6. Takes(s, c)
  BY <1>1, <1>3, <1>4 DEF Takes
<1>7. Run(s, c) = [owners |-> <<o>> \o s.owners, threshold |-> s.threshold]
  BY <1>4 DEF Run
<1>8. Proper(Run(s, c))
  BY <1>5, <1>6, RunValid
<1>9. ToSet(Run(s, c).owners) = ToSet(s.owners) \cup {o}
  BY <1>1, <1>3, <1>7, InFront
<1>10. ~SameAs(s, t)
  BY <1>3, SameMeans
<1>11. Left(Run(s, c), t) + 1 <= Left(s, t)
  BY <1>3, <1>8, <1>9, <1>10, LeftLess
<1>12. Moves(s, c, t)
  BY <1>3, <1>4, <1>6, <1>9, <1>11 DEF Moves, Serves
<1>13. QED BY <1>7, <1>8, <1>12 DEF c, o, i

\* With none missing, the first extra owner goes.
LEMMA RemoveMoves ==
  ASSUME NEW s, NEW t, Proper(s), Proper(t), Missing(s, t) = {}, Extra(s, t) # {}
  PROVE  LET i == Min(Extra(s, t))
             n == Least(s.threshold, Len(s.owners) - 1)
             c == RemoveCall(Before(s.owners, i), s.owners[i], n)
         IN  /\ Moves(s, c, t)
             /\ Proper(Run(s, c))
             /\ Run(s, c) = [owners |-> RemoveAt(s.owners, i), threshold |-> n]
<1> DEFINE i == Min(Extra(s, t))
           n == Least(s.threshold, Len(s.owners) - 1)
           o == s.owners[i]
           p == Before(s.owners, i)
           c == RemoveCall(p, o, n)
<1>1. /\ s.owners \in Seq(Owner) /\ IsInjective(s.owners)
      /\ Len(s.owners) \in Nat /\ Len(s.owners) <= Cardinality(Owner)
      /\ Cardinality(Owner) \in Nat
      /\ DOMAIN s.owners = 1 .. Len(s.owners)
      /\ \A j \in 1 .. Len(s.owners) : s.owners[j] \in Owner
      /\ s.threshold \in Nat /\ s.threshold >= 1 /\ s.threshold <= Len(s.owners)
  BY Bounds
<1>2. i \in Extra(s, t) /\ i \in 1 .. Len(s.owners)
  <2>1. Extra(s, t) \in SUBSET (1 .. Len(s.owners))
    BY Places
  <2>2. Extra(s, t) \in SUBSET Nat
    BY <2>1
  <2>3. QED BY <2>1, <2>2, SmallestOf
<1> HIDE DEF i
<1>3. o \in ToSet(s.owners) /\ o \notin ToSet(t.owners) /\ o \in Owner
  BY <1>1, <1>2 DEF Extra, ToSet
<1>4. Len(s.owners) >= 2
  <2>1. 1 \in DOMAIN t.owners
    BY Bounds
  <2>2. t.owners[1] \in ToSet(t.owners)
    BY <2>1 DEF ToSet
  <2>3. t.owners[1] \in ToSet(s.owners)
    BY <2>2, Places
  <2>4. PICK j \in 1 .. Len(s.owners) : s.owners[j] = t.owners[1]
    BY <2>3, <1>1 DEF ToSet
  <2>5. i # j
    BY <2>2, <2>4, <1>3
  <2>6. QED BY <2>5, <1>1, <1>2
<1>5. /\ n \in Nat /\ n >= 1 /\ n <= Len(s.owners) - 1
  BY <1>1, <1>4 DEF Least
<1>6. p \in Owner \cup {Sentinel}
  BY <1>1, <1>2 DEF Before
<1>7. Follows(s.owners, p, o)
  BY <1>1, <1>2 DEF Follows
<1> HIDE DEF n, p
<1>8. /\ c.op = "remove" /\ c.owner = o /\ c.threshold = n /\ c.prev = p
      /\ c \in CallType /\ c \in CallUnder(Nat)
  BY <1>1, <1>3, <1>5, <1>6 DEF RemoveCall, CallType, CallUnder
<1> HIDE DEF c
<1>9. Takes(s, c)
  BY <1>1, <1>5, <1>7, <1>8 DEF Takes
<1>10. Place(s.owners, o) = i /\ ToSet(RemoveAt(s.owners, i)) = ToSet(s.owners) \ {o}
  BY <1>1, <1>2, TakenOut
<1>11. Run(s, c) = [owners |-> RemoveAt(s.owners, i), threshold |-> n]
  BY <1>8, <1>10 DEF Run
<1>12. Proper(Run(s, c))
  BY <1>8, <1>9, RunValid
<1>13. ToSet(Run(s, c).owners) = ToSet(s.owners) \ {o}
  BY <1>10, <1>11
<1>14. ~SameAs(s, t)
  BY <1>3, SameMeans
<1>15. Left(Run(s, c), t) + 1 <= Left(s, t)
  BY <1>3, <1>12, <1>13, <1>14, LeftLess
<1>16. Moves(s, c, t)
  BY <1>3, <1>8, <1>9, <1>13, <1>15 DEF Moves, Serves
<1>17. QED BY <1>11, <1>12, <1>16 DEF c, o, p, n, i

\* With the owners as declared, the threshold is set.
LEMMA ChangeMoves ==
  ASSUME NEW s, NEW t, Proper(s), Proper(t), Missing(s, t) = {}, Extra(s, t) = {},
         s.threshold # t.threshold
  PROVE  LET c == ChangeCall(t.threshold)
         IN  /\ Moves(s, c, t)
             /\ Proper(Run(s, c))
             /\ Run(s, c) = [owners |-> s.owners, threshold |-> t.threshold]
<1> DEFINE c == ChangeCall(t.threshold)
<1>1. ToSet(s.owners) = ToSet(t.owners)
  <2>1. ToSet(t.owners) \subseteq ToSet(s.owners) /\ ToSet(s.owners) \subseteq ToSet(t.owners)
    BY Places
  <2>2. QED BY ONLY <2>1
<1>2. Len(s.owners) = Len(t.owners)
  BY <1>1, Counted, Bounds
<1>3. /\ Len(s.owners) \in Nat /\ Len(s.owners) <= Cardinality(Owner)
      /\ Cardinality(Owner) \in Nat
      /\ t.threshold \in Nat /\ t.threshold >= 1 /\ t.threshold <= Len(s.owners)
  BY <1>2, Bounds
<1>4. /\ c.op = "change" /\ c.threshold = t.threshold
      /\ c \in CallType /\ c \in CallUnder(Nat)
  BY <1>3 DEF ChangeCall, CallType, CallUnder
<1> HIDE DEF c
<1>5. Takes(s, c)
  BY <1>3, <1>4 DEF Takes
<1>6. Run(s, c) = [owners |-> s.owners, threshold |-> t.threshold]
  BY <1>4 DEF Run
<1>7. Proper(Run(s, c))
  BY <1>4, <1>5, RunValid
<1>8. SameAs(Run(s, c), t) /\ ~SameAs(s, t)
  BY <1>1, <1>6, <1>7, SameMeans
<1>9. Left(Run(s, c), t) + 1 <= Left(s, t)
  BY <1>7, <1>8, LeftLess
<1>10. Moves(s, c, t)
  BY <1>4, <1>5, <1>6, <1>9 DEF Moves, Serves
<1>11. QED BY <1>6, <1>7, <1>10 DEF c

\* A round moves the set one call on, until it is the declared one.
LEMMA RoundMoves ==
  ASSUME NEW t, Proper(t), NEW b \in LoopState, Proper(b.set)
  PROVE  IF SameAs(b.set, t) THEN Round(t)[b] = b
         ELSE \E c \in CallType : /\ Moves(b.set, c, t)
                                  /\ Proper(Run(b.set, c))
                                  /\ Round(t)[b] = [set   |-> Run(b.set, c),
                                                    calls |-> Append(b.calls, c)]
<1> DEFINE s == b.set
           To(u, c) == [set |-> u, calls |-> Append(b.calls, c)]
           i == Min(Extra(s, t))
           n == Least(s.threshold, Len(s.owners) - 1)
           o == t.owners[Max(Missing(s, t))]
           add == AddCall(o, s.threshold)
           remove == RemoveCall(Before(s.owners, i), s.owners[i], n)
           change == ChangeCall(t.threshold)
<1>1. Round(t)[b] =
        CASE Missing(s, t) # {} -> To([owners |-> <<o>> \o s.owners, threshold |-> s.threshold], add)
          [] Missing(s, t) = {} /\ Extra(s, t) # {} ->
               To([owners |-> RemoveAt(s.owners, i), threshold |-> n], remove)
          [] Missing(s, t) = {} /\ Extra(s, t) = {} ->
               IF s.threshold = t.threshold THEN b
               ELSE To([owners |-> s.owners, threshold |-> t.threshold], change)
  BY DEF Round
<1>2. /\ Missing(s, t) = {} <=> ToSet(t.owners) \subseteq ToSet(s.owners)
      /\ Extra(s, t) = {} <=> ToSet(s.owners) \subseteq ToSet(t.owners)
      /\ SameAs(s, t) <=> s.threshold = t.threshold /\ ToSet(s.owners) = ToSet(t.owners)
  BY Places, SameMeans
<1>3. CASE Missing(s, t) # {}
  <2>1. ~SameAs(s, t)
    BY <1>2, <1>3
  <2>2. /\ Moves(s, add, t) /\ Proper(Run(s, add))
        /\ Run(s, add) = [owners |-> <<o>> \o s.owners, threshold |-> s.threshold]
    BY <1>3, AddMoves
  <2>3. Round(t)[b] = To(Run(s, add), add)
    BY <1>1, <1>3, <2>2
  <2>4. add \in CallType
    BY <2>2 DEF Moves
  <2> HIDE DEF add
  <2>5. QED BY <2>1, <2>2, <2>3, <2>4
<1>4. CASE Missing(s, t) = {} /\ Extra(s, t) # {}
  <2>1. ~SameAs(s, t)
    BY <1>2, <1>4
  <2>2. /\ Moves(s, remove, t) /\ Proper(Run(s, remove))
        /\ Run(s, remove) = [owners |-> RemoveAt(s.owners, i), threshold |-> n]
    BY <1>4, RemoveMoves
  <2>3. Round(t)[b] = To(Run(s, remove), remove)
    BY <1>1, <1>4, <2>2
  <2>4. remove \in CallType
    BY <2>2 DEF Moves
  <2> HIDE DEF remove
  <2>5. QED BY <2>1, <2>2, <2>3, <2>4
<1>5. CASE Missing(s, t) = {} /\ Extra(s, t) = {} /\ s.threshold # t.threshold
  <2>1. ~SameAs(s, t)
    BY <1>2, <1>5
  <2>2. /\ Moves(s, change, t) /\ Proper(Run(s, change))
        /\ Run(s, change) = [owners |-> s.owners, threshold |-> t.threshold]
    BY <1>5, ChangeMoves
  <2>3. Round(t)[b] = To(Run(s, change), change)
    BY <1>1, <1>5, <2>2
  <2>4. change \in CallType
    BY <2>2 DEF Moves
  <2> HIDE DEF change
  <2>5. QED BY <2>1, <2>2, <2>3, <2>4
<1>6. CASE Missing(s, t) = {} /\ Extra(s, t) = {} /\ s.threshold = t.threshold
  <2>1. ToSet(t.owners) \subseteq ToSet(s.owners) /\ ToSet(s.owners) \subseteq ToSet(t.owners)
    BY <1>2, <1>6
  <2>2. ToSet(s.owners) = ToSet(t.owners)
    BY ONLY <2>1
  <2>3. SameAs(s, t)
    BY <1>2, <1>6, <2>2
  <2>4. Round(t)[b] = b
    BY <1>1, <1>6
  <2>5. QED BY <2>3, <2>4
<1>7. QED BY <1>3, <1>4, <1>5, <1>6
-----------------------------------------------------------------------------
\* The rounds of calls_to, one after another.
LEMMA LoopRounds ==
  ASSUME NEW s, NEW t, NEW last \in Nat, last = Rounds(s, t)
  PROVE  /\ Loop(s, t)[0] = [set |-> s, calls |-> <<>>]
         /\ \A k \in 1 .. last : Loop(s, t)[k] = Round(t)[Loop(s, t)[k - 1]]
<1> DEFINE start == [set |-> s, calls |-> <<>>]
           Is(f, n) == f = [k \in 0 .. n |-> IF k = 0 THEN start ELSE Round(t)[f[k - 1]]]
           Never == {n \in 0 .. last : ~ \E f : Is(f, n)}
<1>1. Never = {}
  <2>1. SUFFICES ASSUME Never # {} PROVE FALSE
    OBVIOUS
  <2>2. PICK n \in Never : \A k \in Never : n <= k
    <3>1. Never \in SUBSET Nat
      OBVIOUS
    <3> HIDE DEF Never
    <3>2. QED BY <2>1, <3>1, LeastOf
  <2>3. CASE n = 0
    <3> DEFINE f == [k \in 0 .. 0 |-> start]
    <3>1. f = [k \in 0 .. 0 |-> IF k = 0 THEN start ELSE Round(t)[f[k - 1]]]
      OBVIOUS
    <3>2. Is(f, 0)
      BY ONLY <3>1
    <3>3. QED BY <3>2, <2>3
  <2>4. CASE n # 0
    <3>0. n \in 0 .. last
      BY <2>2
    <3>1. n - 1 \in 0 .. last /\ n \in Nat /\ ~ (n <= n - 1)
      BY <2>4, <3>0
    <3>2. PICK g : Is(g, n - 1)
      BY <2>2, <3>1
    <3> DEFINE f == [k \in 0 .. n |-> IF k = n THEN Round(t)[g[n - 1]] ELSE g[k]]
    <3>3. \A k \in 0 .. n - 1 : g[k] = IF k = 0 THEN start ELSE Round(t)[g[k - 1]]
      BY <3>2
    <3>4. \A k \in 0 .. n : f[k] = IF k = 0 THEN start ELSE Round(t)[f[k - 1]]
      <4>1. TAKE k \in 0 .. n
      <4>2. CASE k = n
        <5>1. k # 0 /\ k - 1 \in 0 .. n /\ k - 1 # n
          BY <4>2, <2>4, <3>1
        <5>2. f[k] = Round(t)[g[n - 1]] /\ f[k - 1] = g[k - 1]
          BY <4>2, <5>1
        <5>3. QED BY <4>2, <5>1, <5>2
      <4>3. CASE k # n /\ k # 0
        <5>1. k \in 0 .. n - 1 /\ k - 1 \in 0 .. n /\ k - 1 # n
          BY <4>3, <3>1
        <5>2. f[k] = g[k] /\ f[k - 1] = g[k - 1]
          BY <4>3, <5>1
        <5>3. QED BY <4>3, <5>1, <5>2, <3>3
      <4>4. CASE k = 0
        <5>1. k \in 0 .. n - 1 /\ k # n
          BY <4>4, <2>4, <3>1
        <5>2. f[k] = g[k]
          BY <5>1
        <5>3. QED BY <4>4, <5>1, <5>2, <3>3
      <4>5. QED BY <4>2, <4>3, <4>4
    <3>5. f = [k \in 0 .. n |-> f[k]]
      OBVIOUS
    <3> HIDE DEF f
    <3>6. Is(f, n)
      BY <3>4, <3>5
    <3>7. QED BY <3>6, <2>2
  <2>5. QED BY <2>3, <2>4
<1>2. \E f : Is(f, last)
  <2>1. last \notin Never
    BY <1>1
  <2>2. last \in 0 .. last
    OBVIOUS
  <2>3. QED BY <2>1, <2>2
<1>3. Loop(s, t) = CHOOSE f : Is(f, last)
  BY DEF Loop
<1>4. Is(Loop(s, t), last)
  <2> HIDE DEF Is
  <2>1. QED BY <1>2, <1>3
<1>5. \A k \in 0 .. last : Loop(s, t)[k] = IF k = 0 THEN start ELSE Round(t)[Loop(s, t)[k - 1]]
  <2> DEFINE L == Loop(s, t)
  <2>1. L = [k \in 0 .. last |-> IF k = 0 THEN start ELSE Round(t)[L[k - 1]]]
    BY <1>4
  <2> HIDE DEF L
  <2>2. \A k \in 0 .. last : L[k] = IF k = 0 THEN start ELSE Round(t)[L[k - 1]]
    BY <2>1
  <2>3. QED BY <2>2 DEF L
<1>6. Loop(s, t)[0] = start
  BY <1>5
<1>7. \A k \in 1 .. last : Loop(s, t)[k] = Round(t)[Loop(s, t)[k - 1]]
  BY <1>5
<1>8. QED BY <1>6, <1>7 DEF start

-----------------------------------------------------------------------------
\* The calls bring s to u, each moving the set on towards t.
Steps(h, calls, t) ==
  \A k \in 1 .. Len(calls) : /\ ~SameAs(h[k - 1], t)
                             /\ Moves(h[k - 1], calls[k], t)
                             /\ h[k] = Run(h[k - 1], calls[k])

Brings(s, calls, u, t) ==
  /\ calls \in Seq(CallType)
  /\ \E h \in [0 .. Len(calls) -> ValidSet] :
       h[0] = s /\ h[Len(calls)] = u /\ Steps(h, calls, t)

\* No call leads from a set to itself.
LEMMA NoneBrings ==
  ASSUME NEW s, Proper(s), NEW t
  PROVE  Brings(s, <<>>, s, t)
<1> DEFINE h == [k \in 0 .. 0 |-> s]
<1>1. s \in ValidSet /\ Len(<<>>) = 0 /\ <<>> \in Seq(CallType)
  BY Valid
<1>2. h \in [0 .. 0 -> ValidSet] /\ h[0] = s
  BY <1>1
<1>3. Steps(h, <<>>, t)
  BY <1>1 DEF Steps
<1>4. QED BY <1>1, <1>2, <1>3 DEF Brings

\* A call behind others leads one set further.
LEMMA OneMore ==
  ASSUME NEW s, NEW u, NEW t, NEW calls, NEW c,
         Brings(s, calls, u, t), ~SameAs(u, t), Moves(u, c, t), Proper(Run(u, c))
  PROVE  Brings(s, Append(calls, c), Run(u, c), t)
<1>1. calls \in Seq(CallType) /\ c \in CallType
  BY DEF Brings, Moves
<1>2. PICK h \in [0 .. Len(calls) -> ValidSet] :
        h[0] = s /\ h[Len(calls)] = u /\ Steps(h, calls, t)
  BY DEF Brings
<1> DEFINE more == Append(calls, c)
           n == Len(calls)
           g == [k \in 0 .. n + 1 |-> IF k = n + 1 THEN Run(u, c) ELSE h[k]]
<1>3. /\ more \in Seq(CallType) /\ Len(more) = n + 1
      /\ \A i \in 1 .. n : more[i] = calls[i]
      /\ more[n + 1] = c
  BY <1>1, AppendProperties
<1>4. n \in Nat
  BY <1>1, LenProperties
<1>5. Run(u, c) \in ValidSet
  BY Valid
<1>6. h[0] = s /\ h[n] = u /\ \A k \in 0 .. n : h[k] \in ValidSet
  BY <1>2
<1>7. \A k \in 1 .. n : /\ ~SameAs(h[k - 1], t)
                        /\ Moves(h[k - 1], calls[k], t)
                        /\ h[k] = Run(h[k - 1], calls[k])
  BY <1>2 DEF Steps
<1> HIDE DEF n, more
<1>8. g \in [0 .. n + 1 -> ValidSet]
  BY <1>4, <1>5, <1>6
<1>9. g[0] = s /\ g[n + 1] = Run(u, c)
  BY <1>4, <1>6
<1>10. \A k \in 1 .. n + 1 : /\ ~SameAs(g[k - 1], t)
                             /\ Moves(g[k - 1], more[k], t)
                             /\ g[k] = Run(g[k - 1], more[k])
  <2>1. TAKE k \in 1 .. n + 1
  <2>2. CASE k = n + 1
    <3>1. g[k] = Run(u, c) /\ g[k - 1] = u /\ more[k] = c
      BY <2>2, <1>3, <1>4, <1>6
    <3>2. QED BY <3>1
  <2>3. CASE k # n + 1
    <3>1. k \in 1 .. n /\ k \in 0 .. n + 1 /\ k - 1 \in 0 .. n + 1 /\ k - 1 # n + 1
      BY <2>3, <1>4
    <3>2. g[k] = h[k] /\ g[k - 1] = h[k - 1] /\ more[k] = calls[k]
      BY <2>3, <3>1, <1>3
    <3>3. QED BY <3>1, <3>2, <1>7
  <2>4. QED BY <2>2, <2>3
<1> HIDE DEF g
<1>11. Steps(g, more, t)
  BY <1>3, <1>10 DEF Steps
<1>12. more \in Seq(CallType) /\ g \in [0 .. Len(more) -> ValidSet] /\ g[Len(more)] = Run(u, c)
  BY <1>3, <1>8, <1>9
<1>13. Brings(s, more, Run(u, c), t)
  BY <1>9, <1>11, <1>12 DEF Brings
<1>14. QED BY <1>13 DEF more

\* Without its first call, a batch leads from the set that call leaves.
LEMMA OneLess ==
  ASSUME NEW s, NEW u, NEW t, NEW calls, Brings(s, calls, u, t), calls # <<>>
  PROVE  /\ ~SameAs(s, t)
         /\ Moves(s, Head(calls), t)
         /\ Brings(Run(s, Head(calls)), Tail(calls), u, t)
<1>1. calls \in Seq(CallType)
  BY DEF Brings
<1>2. PICK h \in [0 .. Len(calls) -> ValidSet] :
        h[0] = s /\ h[Len(calls)] = u /\ Steps(h, calls, t)
  BY DEF Brings
<1> DEFINE rest == Tail(calls)
           n == Len(calls)
           g == [k \in 0 .. n - 1 |-> h[k + 1]]
<1>3. /\ rest \in Seq(CallType) /\ Len(rest) = n - 1
      /\ \A i \in 1 .. Len(rest) : rest[i] = calls[i + 1]
  BY <1>1, HeadTailProperties
<1>4. n \in Nat /\ n >= 1
  BY <1>1, EmptySeq
<1>5. h[0] = s /\ h[n] = u /\ \A k \in 0 .. n : h[k] \in ValidSet
  BY <1>2
<1>6. \A k \in 1 .. n : /\ ~SameAs(h[k - 1], t)
                        /\ Moves(h[k - 1], calls[k], t)
                        /\ h[k] = Run(h[k - 1], calls[k])
  BY <1>2 DEF Steps
<1>7. Head(calls) = calls[1]
  BY <1>1
<1> HIDE DEF n, rest
<1>8. ~SameAs(s, t) /\ Moves(s, calls[1], t) /\ h[1] = Run(s, calls[1])
  <2>1. 1 \in 1 .. n /\ 1 - 1 = 0
    BY <1>4
  <2>2. ~SameAs(h[1 - 1], t) /\ Moves(h[1 - 1], calls[1], t) /\ h[1] = Run(h[1 - 1], calls[1])
    BY <2>1, <1>6
  <2>3. QED BY <2>1, <2>2, <1>5
<1>9. g \in [0 .. n - 1 -> ValidSet] /\ g[0] = h[1] /\ g[n - 1] = u
  BY <1>4, <1>5
<1>10. \A k \in 1 .. n - 1 : /\ ~SameAs(g[k - 1], t)
                             /\ Moves(g[k - 1], rest[k], t)
                             /\ g[k] = Run(g[k - 1], rest[k])
  <2>1. TAKE k \in 1 .. n - 1
  <2>2. k + 1 \in 1 .. n /\ (k + 1) - 1 = k /\ k \in 0 .. n - 1 /\ k - 1 \in 0 .. n - 1
        /\ (k - 1) + 1 = k
    BY <1>4
  <2>3. g[k] = h[k + 1] /\ g[k - 1] = h[k] /\ rest[k] = calls[k + 1]
    BY <2>2, <1>3
  <2>4. /\ ~SameAs(h[(k + 1) - 1], t)
        /\ Moves(h[(k + 1) - 1], calls[k + 1], t)
        /\ h[k + 1] = Run(h[(k + 1) - 1], calls[k + 1])
    BY <2>2, <1>6
  <2>5. QED BY <2>2, <2>3, <2>4
<1> HIDE DEF g
<1>11. Steps(g, rest, t)
  BY <1>3, <1>10 DEF Steps
<1>12. rest \in Seq(CallType) /\ g \in [0 .. Len(rest) -> ValidSet] /\ g[Len(rest)] = u
  BY <1>3, <1>9
<1>13. Brings(Run(s, calls[1]), rest, u, t)
  BY <1>8, <1>9, <1>11, <1>12 DEF Brings
<1>14. QED BY <1>7, <1>8, <1>13 DEF rest

\* Both ends are sets a Safe may hold, and every call takes something away
\* from what is left.
LEMMA Shrinks ==
  ASSUME NEW s, NEW u, NEW t, NEW calls, Proper(t), Brings(s, calls, u, t)
  PROVE  /\ Proper(s) /\ Proper(u)
         /\ Len(calls) \in Nat
         /\ Left(u, t) + Len(calls) <= Left(s, t)
<1>1. calls \in Seq(CallType)
  BY DEF Brings
<1>2. PICK h \in [0 .. Len(calls) -> ValidSet] :
        h[0] = s /\ h[Len(calls)] = u /\ Steps(h, calls, t)
  BY DEF Brings
<1> DEFINE n == Len(calls)
           L(k) == Left(h[k], t)
           Bad == {k \in 0 .. n : ~ (L(k) + k <= L(0))}
<1>3. n \in Nat
  BY <1>1, LenProperties
<1>4. h[0] = s /\ h[n] = u /\ \A k \in 0 .. n : h[k] \in ValidSet
  BY <1>2
<1>5. \A k \in 0 .. n : L(k) \in Nat
  BY <1>4, Valid, LeftNat
<1>6. \A k \in 1 .. n : L(k) + 1 <= L(k - 1)
  BY <1>2 DEF Steps, Moves
<1> HIDE DEF n, L
<1>7. Bad = {}
  <2>1. SUFFICES ASSUME Bad # {} PROVE FALSE
    OBVIOUS
  <2>2. PICK m \in Bad : \A k \in Bad : m <= k
    <3>1. Bad \in SUBSET Nat
      BY <1>3
    <3> HIDE DEF Bad
    <3>2. QED BY <2>1, <3>1, LeastOf
  <2>3. m \in 0 .. n /\ ~ (L(m) + m <= L(0))
    BY <2>2
  <2>4. m # 0
    BY <2>3, <1>3, <1>5
  <2>5. m \in 1 .. n /\ m - 1 \in 0 .. n /\ ~ (m <= m - 1)
    BY <2>3, <2>4, <1>3
  <2>6. L(m - 1) + (m - 1) <= L(0)
    BY <2>2, <2>5
  <2>7. L(m) + 1 <= L(m - 1) /\ L(m) \in Nat /\ L(m - 1) \in Nat /\ L(0) \in Nat
    BY <2>5, <1>3, <1>5, <1>6
  <2>8. QED BY <2>3, <2>5, <2>6, <2>7, <1>3
<1>8. L(n) + n <= L(0)
  BY <1>3, <1>7
<1>9. Proper(s) /\ Proper(u)
  <2>1. 0 \in 0 .. n /\ n \in 0 .. n
    BY <1>3
  <2>2. QED BY <2>1, <1>4, Valid
<1>10. QED BY <1>3, <1>4, <1>8, <1>9 DEF L, n

\* The calls lead from s to the declared set.
Leads(s, calls, t) == \E u : Brings(s, calls, u, t) /\ SameAs(u, t)

\* What the rounds have come to behind the k-th of them.
Reached(s, t, k) ==
  LET b == Loop(s, t)[k]
  IN  /\ b \in LoopState
      /\ Brings(s, b.calls, b.set, t)
      /\ Len(b.calls) = k \/ SameAs(b.set, t)

\* calls_to ends behind the call that leaves the declared set.
LEMMA CallsLead ==
  ASSUME NEW s, NEW t, Proper(s), Proper(t)
  PROVE  Leads(s, CallsTo(s, t), t)
<1> DEFINE last == Rounds(s, t)
           L == Loop(s, t)
           Bad == {k \in 0 .. last : ~Reached(s, t, k)}
<1>1. last \in Nat /\ Left(s, t) <= last
  <2> DEFINE m == Len(s.owners)
             n == Len(t.owners)
  <2>1. m \in Nat /\ n \in Nat
    BY Bounds
  <2>2. Left(s, t) <= m + n + 1
    BY LeftNat
  <2> HIDE DEF m, n
  <2>3. m + n + 1 \in Nat
    BY <2>1
  <2>4. QED BY <2>2, <2>3 DEF m, n, Rounds
<1>2. /\ L[0] = [set |-> s, calls |-> <<>>]
      /\ \A k \in 1 .. last : L[k] = Round(t)[L[k - 1]]
  BY <1>1, LoopRounds
<1>3. CallsTo(s, t) = L[last].calls
  BY DEF CallsTo
<1> HIDE DEF last, L
<1>4. Reached(s, t, 0)
  <2>1. s \in OwnerSet /\ <<>> \in Seq(CallUnder(Nat)) /\ Len(<<>>) = 0
    BY DEF Proper
  <2>2. [set |-> s, calls |-> <<>>] \in LoopState
    BY <2>1 DEF LoopState
  <2>3. QED BY <1>2, <2>1, <2>2, NoneBrings DEF Reached, L
<1>5. ASSUME NEW k \in 1 .. last, Reached(s, t, k - 1) PROVE Reached(s, t, k)
  <2> DEFINE b == L[k - 1]
             u == b.set
  <2>1. /\ b \in LoopState /\ Brings(s, b.calls, u, t)
        /\ Len(b.calls) = k - 1 \/ SameAs(u, t)
    BY <1>5 DEF Reached, L
  <2>2. L[k] = Round(t)[b]
    BY <1>2
  <2> HIDE DEF b
  <2>3. Proper(u)
    BY <2>1, Shrinks
  <2>4. CASE SameAs(u, t)
    <3>1. L[k] = b
      BY <2>1, <2>2, <2>3, <2>4, RoundMoves
    <3>2. QED BY <2>1, <2>4, <3>1 DEF Reached, L
  <2>5. CASE ~SameAs(u, t)
    <3>1. PICK c \in CallType : /\ Moves(u, c, t) /\ Proper(Run(u, c))
                                /\ L[k] = [set |-> Run(u, c), calls |-> Append(b.calls, c)]
      BY <2>1, <2>2, <2>3, <2>5, RoundMoves
    <3>2. Brings(s, Append(b.calls, c), Run(u, c), t)
      BY <2>1, <2>5, <3>1, OneMore
    <3>3. Append(b.calls, c) \in Seq(CallUnder(Nat)) /\ Len(Append(b.calls, c)) = k
      <4>1. b.calls \in Seq(CallUnder(Nat)) /\ c \in CallUnder(Nat)
        BY <2>1, FS_CardinalityType, OwnerConstants DEF LoopState, CallType, CallUnder
      <4>2. Len(b.calls) = k - 1
        BY <2>1, <2>5
      <4>3. Len(Append(b.calls, c)) = Len(b.calls) + 1
        BY <4>1, AppendProperties
      <4>4. QED BY <4>1, <4>2, <4>3, AppendProperties
    <3>4. L[k] \in LoopState
      BY <3>1, <3>3 DEF LoopState, Proper
    <3>5. QED BY <3>1, <3>2, <3>3, <3>4 DEF Reached, L
  <2>6. QED BY <2>4, <2>5
<1>6. Bad = {}
  <2>1. SUFFICES ASSUME Bad # {} PROVE FALSE
    OBVIOUS
  <2>2. PICK m \in Bad : \A k \in Bad : m <= k
    <3>1. Bad \in SUBSET Nat
      BY <1>1
    <3> HIDE DEF Bad
    <3>2. QED BY <2>1, <3>1, LeastOf
  <2>3. m \in 0 .. last /\ ~Reached(s, t, m)
    BY <2>2
  <2>4. m # 0
    BY <2>3, <1>4
  <2>5. m \in 1 .. last /\ m - 1 \in 0 .. last /\ ~ (m <= m - 1)
    BY <1>1, <2>3, <2>4
  <2>6. Reached(s, t, m - 1)
    BY <2>2, <2>5
  <2>7. QED BY <2>3, <2>5, <2>6, <1>5
<1>7. Reached(s, t, last)
  BY <1>1, <1>6
<1> DEFINE b == L[last]
<1>8. /\ Brings(s, b.calls, b.set, t)
      /\ Len(b.calls) = last \/ SameAs(b.set, t)
  BY <1>7 DEF Reached, L
<1> HIDE DEF b
<1>9. SameAs(b.set, t)
  <2>1. Proper(b.set) /\ Len(b.calls) \in Nat /\ Left(b.set, t) + Len(b.calls) <= Left(s, t)
    BY <1>8, Shrinks
  <2>2. Left(b.set, t) \in Nat /\ Left(s, t) \in Nat
    BY <2>1, LeftNat
  <2>3. Len(b.calls) = last => Left(b.set, t) = 0
    BY <1>1, <2>1, <2>2
  <2>4. QED BY <1>8, <2>1, <2>3, LeftNat
<1>10. QED BY <1>3, <1>8, <1>9 DEF Leads, b

\* What is left of the calls behind the first leads there still, and
\* nothing is left exactly at the declared set.
LEMMA LeadsOn ==
  ASSUME NEW s, NEW t, NEW calls, Proper(t), Leads(s, calls, t)
  PROVE  /\ Proper(s) /\ calls \in Seq(CallType)
         /\ calls = <<>> <=> SameAs(s, t)
         /\ Len(calls) <= Left(s, t)
         /\ calls # <<>> => /\ Moves(s, Head(calls), t)
                            /\ Leads(Run(s, Head(calls)), Tail(calls), t)
<1>1. PICK u : Brings(s, calls, u, t) /\ SameAs(u, t)
  BY DEF Leads
<1>2. /\ Proper(s) /\ Proper(u)
      /\ Len(calls) \in Nat
      /\ Left(u, t) + Len(calls) <= Left(s, t)
  BY <1>1, Shrinks
<1>3. Left(u, t) = 0 /\ Left(s, t) \in Nat
  BY <1>1, <1>2, LeftNat
<1>4. Len(calls) <= Left(s, t)
  BY <1>2, <1>3
<1>5. calls = <<>> => SameAs(s, t)
  <2>1. SUFFICES ASSUME calls = <<>> PROVE s = u
    BY <1>1
  <2>2. Len(calls) = 0
    BY <2>1
  <2>3. QED BY <1>1, <2>2 DEF Brings
<1>6. ASSUME calls # <<>>
      PROVE  ~SameAs(s, t) /\ Moves(s, Head(calls), t) /\ Leads(Run(s, Head(calls)), Tail(calls), t)
  BY <1>1, <1>6, OneLess DEF Leads
<1>7. calls \in Seq(CallType)
  BY <1>1 DEF Brings
<1>8. QED BY <1>2, <1>4, <1>5, <1>6, <1>7

\* A batch that runs call by call, each from the sets before it.
After(sets, c) == {Run(u, c) : u \in {v \in sets : Takes(v, c)}}

\* The recursive function of the sets a batch goes through satisfies its equation.
LEMMA RanCalls ==
  ASSUME NEW s, NEW calls, NEW last \in Nat, last = Len(calls)
  PROVE  /\ Ran(s, calls)[0] = {s}
         /\ \A k \in 1 .. last : Ran(s, calls)[k] = After(Ran(s, calls)[k - 1], calls[k])
<1> DEFINE Is(f, n) == f = [k \in 0 .. n |-> IF k = 0 THEN {s} ELSE After(f[k - 1], calls[k])]
           Never == {n \in 0 .. last : ~ \E f : Is(f, n)}
<1>1. Never = {}
  <2>1. SUFFICES ASSUME Never # {} PROVE FALSE
    OBVIOUS
  <2>2. PICK n \in Never : \A k \in Never : n <= k
    <3>1. Never \in SUBSET Nat
      OBVIOUS
    <3> HIDE DEF Never
    <3>2. QED BY <2>1, <3>1, LeastOf
  <2>3. CASE n = 0
    <3> DEFINE f == [k \in 0 .. 0 |-> {s}]
    <3>1. f = [k \in 0 .. 0 |-> IF k = 0 THEN {s} ELSE After(f[k - 1], calls[k])]
      OBVIOUS
    <3>2. Is(f, 0)
      BY ONLY <3>1
    <3>3. QED BY <3>2, <2>3
  <2>4. CASE n # 0
    <3>0. n \in 0 .. last
      BY <2>2
    <3>1. n - 1 \in 0 .. last /\ n \in Nat /\ ~ (n <= n - 1)
      BY <2>4, <3>0
    <3>2. PICK g : Is(g, n - 1)
      BY <2>2, <3>1
    <3> DEFINE f == [k \in 0 .. n |-> IF k = n THEN After(g[n - 1], calls[n]) ELSE g[k]]
    <3>3. \A k \in 0 .. n - 1 : g[k] = IF k = 0 THEN {s} ELSE After(g[k - 1], calls[k])
      BY <3>2
    <3>4. \A k \in 0 .. n : f[k] = IF k = 0 THEN {s} ELSE After(f[k - 1], calls[k])
      <4>1. TAKE k \in 0 .. n
      <4>2. CASE k = n
        <5>1. k # 0 /\ k - 1 \in 0 .. n /\ k - 1 # n
          BY <4>2, <2>4, <3>1
        <5>2. f[k] = After(g[n - 1], calls[n]) /\ f[k - 1] = g[k - 1]
          BY <4>2, <5>1
        <5>3. QED BY <4>2, <5>1, <5>2
      <4>3. CASE k # n /\ k # 0
        <5>1. k \in 0 .. n - 1 /\ k - 1 \in 0 .. n /\ k - 1 # n
          BY <4>3, <3>1
        <5>2. f[k] = g[k] /\ f[k - 1] = g[k - 1]
          BY <4>3, <5>1
        <5>3. QED BY <4>3, <5>1, <5>2, <3>3
      <4>4. CASE k = 0
        <5>1. k \in 0 .. n - 1 /\ k # n
          BY <4>4, <2>4, <3>1
        <5>2. f[k] = g[k]
          BY <5>1
        <5>3. QED BY <4>4, <5>1, <5>2, <3>3
      <4>5. QED BY <4>2, <4>3, <4>4
    <3>5. f = [k \in 0 .. n |-> f[k]]
      OBVIOUS
    <3> HIDE DEF f
    <3>6. Is(f, n)
      BY <3>4, <3>5
    <3>7. QED BY <3>6, <2>2
  <2>5. QED BY <2>3, <2>4
<1>2. \E f : Is(f, last)
  <2>1. last \notin Never
    BY <1>1
  <2>2. last \in 0 .. last
    OBVIOUS
  <2>3. QED BY <2>1, <2>2
<1>3. Ran(s, calls) = CHOOSE f : Is(f, last)
  BY DEF Ran, After
<1>4. Is(Ran(s, calls), last)
  <2> HIDE DEF Is
  <2>1. QED BY <1>2, <1>3
<1>5. \A k \in 0 .. last : Ran(s, calls)[k] = IF k = 0 THEN {s} ELSE After(Ran(s, calls)[k - 1], calls[k])
  <2> DEFINE L == Ran(s, calls)
  <2>1. L = [k \in 0 .. last |-> IF k = 0 THEN {s} ELSE After(L[k - 1], calls[k])]
    BY <1>4
  <2> HIDE DEF L
  <2>2. \A k \in 0 .. last : L[k] = IF k = 0 THEN {s} ELSE After(L[k - 1], calls[k])
    BY <2>1
  <2>3. QED BY <2>2 DEF L
<1>6. Ran(s, calls)[0] = {s}
  BY <1>5
<1>7. \A k \in 1 .. last : Ran(s, calls)[k] = After(Ran(s, calls)[k - 1], calls[k])
  BY <1>5
<1>8. QED BY <1>6, <1>7

\* Whatever batch runs on a set a Safe may hold leaves one.
LEMMA BatchValid ==
  ASSUME NEW s, Proper(s), NEW calls \in Seq(CallType)
  PROVE  Batch(s, calls) \subseteq ValidSet
<1> DEFINE last == Len(calls)
           R == Ran(s, calls)
           Bad == {k \in 0 .. last : ~ (R[k] \subseteq ValidSet)}
<1>1. last \in Nat /\ \A k \in 1 .. last : calls[k] \in CallUnder(Nat)
  <2>1. last \in Nat /\ \A k \in 1 .. last : calls[k] \in CallType
    BY LenProperties
  <2>2. Cardinality(Owner) \in Nat
    BY FS_CardinalityType, OwnerConstants
  <2>3. CallType \subseteq CallUnder(Nat)
    BY <2>2 DEF CallType, CallUnder
  <2>4. QED BY <2>1, <2>3
<1>2. /\ R[0] = {s}
      /\ \A k \in 1 .. last : R[k] = After(R[k - 1], calls[k])
  BY <1>1, RanCalls
<1>3. Batch(s, calls) = R[last]
  BY DEF Batch
<1> HIDE DEF last, R
<1>4. R[0] \subseteq ValidSet
  BY <1>2, Valid
<1>5. ASSUME NEW k \in 1 .. last, R[k - 1] \subseteq ValidSet PROVE R[k] \subseteq ValidSet
  <2>1. SUFFICES ASSUME NEW v \in R[k - 1], Takes(v, calls[k]) PROVE Run(v, calls[k]) \in ValidSet
    BY <1>2 DEF After
  <2>2. Proper(v)
    BY <2>1, <1>5, Valid
  <2>3. Proper(Run(v, calls[k]))
    BY <2>1, <2>2, <1>1, RunValid
  <2>4. QED BY <2>3, Valid
<1>6. Bad = {}
  <2>1. SUFFICES ASSUME Bad # {} PROVE FALSE
    OBVIOUS
  <2>2. PICK m \in Bad : \A k \in Bad : m <= k
    <3>1. Bad \in SUBSET Nat
      BY <1>1
    <3> HIDE DEF Bad
    <3>2. QED BY <2>1, <3>1, LeastOf
  <2>3. m \in 0 .. last /\ ~ (R[m] \subseteq ValidSet)
    BY <2>2
  <2>4. m # 0
    BY <2>3, <1>4
  <2>5. m \in 1 .. last /\ m - 1 \in 0 .. last /\ ~ (m <= m - 1)
    BY <1>1, <2>3, <2>4
  <2>6. R[m - 1] \subseteq ValidSet
    BY <2>2, <2>5
  <2>7. QED BY <2>3, <2>5, <2>6, <1>5
<1>7. R[last] \subseteq ValidSet
  <2>1. last \in 0 .. last /\ last \notin Bad
    BY <1>1, <1>6
  <2>2. QED BY <2>1
<1>8. QED BY <1>3, <1>7

\* Calls that lead from s to t leave t.
LEMMA BatchLeads ==
  ASSUME NEW s, NEW t, NEW calls, Proper(t), Leads(s, calls, t), NEW v \in Batch(s, calls)
  PROVE  Proper(v) /\ SameAs(v, t)
<1>1. PICK u : Brings(s, calls, u, t) /\ SameAs(u, t)
  BY DEF Leads
<1>2. PICK h \in [0 .. Len(calls) -> ValidSet] :
        h[0] = s /\ h[Len(calls)] = u /\ Steps(h, calls, t)
  BY <1>1 DEF Brings
<1> DEFINE last == Len(calls)
           R == Ran(s, calls)
           Bad == {k \in 0 .. last : ~ (R[k] \subseteq {h[k]})}
<1>3. calls \in Seq(CallType) /\ last \in Nat
  BY <1>1, LenProperties DEF Brings
<1>4. /\ R[0] = {s}
      /\ \A k \in 1 .. last : R[k] = After(R[k - 1], calls[k])
  BY <1>3, RanCalls
<1>5. v \in R[last]
  BY DEF Batch
<1>6. h[0] = s /\ h[last] = u /\ \A k \in 1 .. last : h[k] = Run(h[k - 1], calls[k])
  BY <1>2 DEF Steps
<1> HIDE DEF last, R
<1>7. ASSUME NEW k \in 1 .. last, R[k - 1] \subseteq {h[k - 1]} PROVE R[k] \subseteq {h[k]}
  BY <1>4, <1>6, <1>7 DEF After
<1>8. Bad = {}
  <2>1. SUFFICES ASSUME Bad # {} PROVE FALSE
    OBVIOUS
  <2>2. PICK m \in Bad : \A k \in Bad : m <= k
    <3>1. Bad \in SUBSET Nat
      BY <1>3
    <3> HIDE DEF Bad
    <3>2. QED BY <2>1, <3>1, LeastOf
  <2>3. m \in 0 .. last /\ ~ (R[m] \subseteq {h[m]})
    BY <2>2
  <2>4. m # 0
    BY <2>3, <1>4, <1>6
  <2>5. m \in 1 .. last /\ m - 1 \in 0 .. last /\ ~ (m <= m - 1)
    BY <1>3, <2>3, <2>4
  <2>6. R[m - 1] \subseteq {h[m - 1]}
    BY <2>2, <2>5
  <2>7. QED BY <2>3, <2>5, <2>6, <1>7
<1>9. R[last] \subseteq {h[last]}
  <2>1. last \in 0 .. last /\ last \notin Bad
    BY <1>3, <1>8
  <2>2. QED BY <2>1
<1>10. v = u
  BY <1>5, <1>6, <1>9
<1>11. QED BY <1>1, <1>10, Shrinks

\* A batch whose first call is refused leaves nothing.
LEMMA FirstRefused ==
  ASSUME NEW s, NEW calls \in Seq(CallType), calls # <<>>, ~Takes(s, Head(calls))
  PROVE  Batch(s, calls) = {}
<1> DEFINE last == Len(calls)
           R == Ran(s, calls)
           Bad == {k \in 1 .. last : R[k] # {}}
<1>1. last \in Nat /\ last >= 1 /\ Head(calls) = calls[1]
  BY EmptySeq
<1>2. /\ R[0] = {s}
      /\ \A k \in 1 .. last : R[k] = After(R[k - 1], calls[k])
  BY <1>1, RanCalls
<1>3. Batch(s, calls) = R[last]
  BY DEF Batch
<1> HIDE DEF last, R
<1>4. R[1] = {}
  <2>1. R[1] = After(R[1 - 1], calls[1])
    BY <1>1, <1>2
  <2>2. R[1 - 1] = {s}
    BY <1>2
  <2>3. QED BY <2>1, <2>2, <1>1 DEF After
<1>5. Bad = {}
  <2>1. SUFFICES ASSUME Bad # {} PROVE FALSE
    OBVIOUS
  <2>2. PICK m \in Bad : \A k \in Bad : m <= k
    <3>1. Bad \in SUBSET Nat
      BY <1>1
    <3> HIDE DEF Bad
    <3>2. QED BY <2>1, <3>1, LeastOf
  <2>3. m \in 1 .. last /\ R[m] # {}
    BY <2>2
  <2>4. m # 1
    BY <2>3, <1>4
  <2>5. m - 1 \in 1 .. last /\ ~ (m <= m - 1)
    BY <1>1, <2>3, <2>4
  <2>6. R[m - 1] = {}
    BY <2>2, <2>5
  <2>7. QED BY <2>3, <2>6, <1>2 DEF After
<1>6. last \in 1 .. last /\ last \notin Bad
  BY <1>1, <1>5
<1>7. QED BY <1>3, <1>6

\* A batch prepared before another key handed the Safe over whole is
\* refused where that key still signs alone.
LEMMA SecondRefused ==
  ASSUME NEW s, NEW c, NEW t, Proper(s), Proper(c), Proper(t),
         SameAs(s, t), s.threshold = 1, ~SameAs(c, t), c.threshold = 1
  PROVE  Batch(s, CallsTo(c, t)) = {}
<1> DEFINE calls == CallsTo(c, t)
           call == Head(calls)
<1>1. Leads(c, calls, t)
  BY CallsLead
<1> HIDE DEF calls
<1>2. calls \in Seq(CallType) /\ calls # <<>> /\ Moves(c, call, t)
  BY <1>1, LeadsOn
<1>3. s.threshold = t.threshold /\ ToSet(s.owners) = ToSet(t.owners)
  BY SameMeans
<1>4. ~Takes(s, call)
  <2>1. Serves(call, c, t)
    BY <1>2 DEF Moves
  <2>2. CASE call.op = "add" /\ call.owner \in ToSet(t.owners)
    BY <2>2, <1>3 DEF Takes
  <2>3. CASE call.op = "remove" /\ call.owner \notin ToSet(t.owners)
    <3>1. ~Follows(s.owners, call.prev, call.owner)
      BY <2>3, <1>3 DEF Follows, ToSet
    <3>2. QED BY <2>3, <3>1 DEF Takes
  <2>4. CASE call.op = "change" /\ c.threshold # t.threshold
    BY <2>4, <1>3
  <2>5. QED BY <2>1, <2>2, <2>3, <2>4 DEF Serves
<1>5. Batch(s, calls) = {}
  BY <1>2, <1>4, FirstRefused
<1>6. QED BY <1>5 DEF calls
=============================================================================
