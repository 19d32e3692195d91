----------------------------- MODULE StackProofs -----------------------------
(***************************************************************************)
(* Steps 1 to 5 on whatever an older release left, for any files, getters  *)
(* it lacks and --upgrade lists.                                           *)
(***************************************************************************)
EXTENDS Stack, FiniteSetTheorems, TLAPS

Reached == {"read", "send", "count"}
Running == {"code", "upgrade", "read", "send", "count"}

\* The proxies are deployed from the first section on, and a proxy not yet
\* deployed holds nothing.
InOrder ==
  /\ \A i, j \in DOMAIN Sections : i < j /\ Has(Sections[j]) => Has(Sections[i])
  /\ \A s \in Setting : ~Has(Of(s)) => holds[s] = {}

\* Where a run is, and that what it is past is deployed.
PositionOK ==
  /\ pc \in {"code", "upgrade", "count", "done"} => pos = 1
  /\ pc \in {"count", "done"} => sec = Len(Sections)
  /\ pc \in {"read", "send"} => pos \in 1 .. Len(SettingsOf[C])
  /\ pc \in Running \cup {"done"} => \A i \in 1 .. sec - 1 : Has(Sections[i])
  /\ pc \in Reached \cup {"upgrade", "done"} => Has(C)

\* What is behind is as the file says, unless the owner came between.
BehindOK ==
  pc \in Running \cup {"done"} /\ "owner" \notin touched =>
    \A s \in Setting : s \in Behind => Matches(s)

\* The upgrades sent are those the list names among the sections behind.
Upgraded    == {Sections[i] : i \in 1 .. (IF pc \in Reached THEN sec ELSE sec - 1)}
Named(u, A) == {k \in DOMAIN u : u[k] \in A}

CountOK == pc \in Running => upgraded = Cardinality(Named(ups, Upgraded))

\* A component asked for is upgraded before its settings are read; what is
\* sent was read as different.
AtSetting ==
  /\ pc \in {"read", "send"} /\ Times(C) > 0 => impl[C] = "new"
  /\ pc = "send" => Asked(S) /\ S # "registry" /\ Answers(S, C)
  /\ pc = "send" /\ touched = {} => ~Matches(S)

\* What initialize takes no value for: a deploy leaves it to the section.
Unwritten == {"recipient", "verifier"}

\* What the plan before the run told is what there is ahead of it, and what
\* it has sent behind it.  Of the settings of a proxy it told the deploy of
\* it told nothing.
ToldProxy(c) ==
  IF c \in Behind THEN c \in sent <=> c \in foreseen
                  ELSE c \notin sent /\ (c \in foreseen <=> ~Has(c))

ToldSetting(s) ==
  /\ Of(s) \in foreseen => s \notin foreseen
  /\ IF s \in Behind
     THEN /\ s \in warned => Times(Of(s)) > 0
          /\ IF Of(s) \in foreseen
             THEN s \in sent => s \in Unwritten
             ELSE s \notin warned \cup {"roots"} => (s \in sent <=> s \in foreseen)
     ELSE /\ s \notin sent
          /\ s \in warned /\ Times(Of(s)) = 0 => Line(s) = "warn"
          /\ s \notin warned \cup {"roots"} /\ Has(Of(s)) => Line(s) # "warn"
          /\ IF Of(s) \in foreseen
             THEN Has(Of(s)) /\ s \notin Unwritten => Matches(s)
             ELSE s \notin warned \cup {"roots"} => (s \in foreseen <=> Asked(s) /\ ~Matches(s))

Told ==
  /\ "roots" \notin foreseen
  /\ pc \in Running \cup {"done"} /\ touched = {} =>
       /\ \A c \in Component : ToldProxy(c)
       /\ \A s \in Setting : ToldSetting(s)

IInv == TypeOK /\ InOrder /\ PositionOK /\ BehindOK /\ CountOK /\ AtSetting /\ Told
        /\ EveryUpgradeHasItsSection /\ PlanForetellsTheEnd

\* The sections in order, each once.
LEMMA Layout ==
  /\ Len(Sections) = 6 /\ DOMAIN Sections = 1 .. 6
  /\ Component = {"notary_service", "proof_verifier", "identity_registry",
                  "handle_escrow", "jwt_roots", "google_verifier"}
  /\ \A k \in 1 .. 6 : Sections[k] \in Component
  /\ \A c \in Component : \E k \in 1 .. 6 : Sections[k] = c
  /\ \A j, k \in 1 .. 6 : Sections[j] = Sections[k] => j = k
BY DEF Sections, Component, SettingsOf

\* What a section converges is in no other place.
LEMMA OnePlace ==
  ASSUME NEW c \in Component, NEW d \in Component,
         NEW i \in 1 .. Len(SettingsOf[c]), NEW j \in 1 .. Len(SettingsOf[d]),
         SettingsOf[c][i] = SettingsOf[d][j]
  PROVE  c = d /\ i = j
BY Layout DEF SettingsOf

\* The settings of a component are a list of at most three.
LEMMA Places ==
  ASSUME NEW c \in Component
  PROVE  /\ SettingsOf[c] \in Seq(Setting)
         /\ Len(SettingsOf[c]) \in 0 .. 3
         /\ DOMAIN SettingsOf[c] = 1 .. Len(SettingsOf[c])
         /\ (SettingsOf[c] = <<>>) = (Len(SettingsOf[c]) = 0)
         /\ \A i \in 1 .. Len(SettingsOf[c]) : SettingsOf[c][i] \in Setting
<1>1. \/ SettingsOf[c] = <<"signer", "fee", "recipient">> \/ SettingsOf[c] = <<>>
      \/ SettingsOf[c] = <<"verifier">> \/ SettingsOf[c] = <<"registry">>
      \/ SettingsOf[c] = <<"notary">> \/ SettingsOf[c] = <<"roots">>
  BY Layout DEF SettingsOf
<1>2. /\ \A x \in Setting : <<x>> \in Seq(Setting) /\ Len(<<x>>) = 1
      /\ \A x, y, z \in Setting : <<x, y, z>> \in Seq(Setting) /\ Len(<<x, y, z>>) = 3
      /\ <<>> \in Seq(Setting) /\ Len(<<>>) = 0
  OBVIOUS
<1>3. SettingsOf[c] \in Seq(Setting) /\ Len(SettingsOf[c]) \in 0 .. 3
  <2>1. {"signer", "fee", "recipient", "verifier", "registry", "notary", "roots"} \subseteq Setting
    BY DEF Setting, InFile, Pointer
  <2>2. CASE SettingsOf[c] = <<"signer", "fee", "recipient">>
    BY <1>2, <2>1, <2>2
  <2>3. CASE SettingsOf[c] = <<>>
    BY <1>2, <2>3
  <2>4. CASE \E x \in Setting : SettingsOf[c] = <<x>>
    BY <1>2, <2>4
  <2>5. QED BY <1>1, <2>1, <2>2, <2>3, <2>4
<1>4. QED BY <1>3

\* And they are that component's.
LEMMA OfPlace ==
  ASSUME NEW c \in Component, NEW i \in 1 .. Len(SettingsOf[c])
  PROVE  Of(SettingsOf[c][i]) = c
<1>1. \A d \in Component : DOMAIN SettingsOf[d] = 1 .. Len(SettingsOf[d])
  BY Places
<1>2. \A d \in Component : (\E j \in DOMAIN SettingsOf[d] : SettingsOf[d][j] = SettingsOf[c][i])
                             <=> d = c
  BY <1>1, OnePlace
<1>3. QED BY <1>2 DEF Of

\* Every setting has its place.
LEMMA EveryPlace ==
  ASSUME NEW s \in Setting
  PROVE  /\ Of(s) \in Component
         /\ \E i \in 1 .. Len(SettingsOf[Of(s)]) : SettingsOf[Of(s)][i] = s
<1>1. \E c \in Component : \E i \in 1 .. Len(SettingsOf[c]) : SettingsOf[c][i] = s
  BY Layout DEF SettingsOf, Setting, InFile, Pointer
<1>2. QED BY <1>1, OfPlace

\* No component is a setting.
LEMMA Apart == Component \cap Setting = {}
BY Layout DEF Setting, InFile, Pointer

Many(k)     == Len(SettingsOf[Sections[k]])
Place(k, i) == SettingsOf[Sections[k]][i]

\* A place has one setting, and no other place has it.
LEMMA PlaceIs ==
  /\ \A k \in 1 .. 6 : Many(k) \in 0 .. 3
  /\ \A k \in 1 .. 6, i \in Nat :
       i \in 1 .. Many(k) => Place(k, i) \in Setting /\ Of(Place(k, i)) = Sections[k]
  /\ \A k, n \in 1 .. 6, i, j \in Nat :
       i \in 1 .. Many(k) /\ j \in 1 .. Many(n) /\ Place(k, i) = Place(n, j) => k = n /\ i = j
<1>1. \A k \in 1 .. 6 : Many(k) \in 0 .. 3
  BY Layout, Places DEF Many
<1>2. ASSUME NEW k \in 1 .. 6, NEW i \in Nat, i \in 1 .. Many(k)
      PROVE  Place(k, i) \in Setting /\ Of(Place(k, i)) = Sections[k]
  BY <1>2, Layout, Places, OfPlace DEF Many, Place
<1>3. ASSUME NEW k \in 1 .. 6, NEW n \in 1 .. 6, NEW i \in Nat, NEW j \in Nat,
             i \in 1 .. Many(k), j \in 1 .. Many(n), Place(k, i) = Place(n, j)
      PROVE  k = n /\ i = j
  <2> DEFINE c == Sections[k]
             d == Sections[n]
  <2>1. c \in Component /\ d \in Component
    BY Layout
  <2>2. /\ i \in 1 .. Len(SettingsOf[c]) /\ j \in 1 .. Len(SettingsOf[d])
        /\ SettingsOf[c][i] = SettingsOf[d][j]
    BY <1>3 DEF Many, Place
  <2> HIDE DEF c, d
  <2>3. c = d /\ i = j
    BY <2>1, <2>2, OnePlace
  <2> USE DEF c, d
  <2>4. QED BY <2>3, Layout
<1>4. QED BY <1>1, <1>2, <1>3

\* Every component and every setting is somewhere.
LEMMA Everywhere ==
  /\ \A c \in Component : \E k \in 1 .. 6 : c = Sections[k]
  /\ \A s \in Setting : \E k \in 1 .. 6, i \in Nat : i \in 1 .. Many(k) /\ s = Place(k, i)
<1>1. ASSUME NEW s \in Setting
      PROVE  \E k \in 1 .. 6, i \in Nat : i \in 1 .. Many(k) /\ s = Place(k, i)
  <2>1. PICK k \in 1 .. 6 : Sections[k] = Of(s)
    BY EveryPlace, Layout
  <2>2. PICK i \in 1 .. Len(SettingsOf[Of(s)]) : SettingsOf[Of(s)][i] = s
    BY EveryPlace
  <2>3. i \in 1 .. Many(k) /\ s = Place(k, i)
    BY <2>1, <2>2 DEF Many, Place
  <2>4. i \in Nat
    BY <2>3, PlaceIs
  <2>5. QED BY <2>3, <2>4
<1>2. QED BY <1>1, Layout

\* What is behind a run at location l of section n, its setting p: by its
\* place, section k and the i-th setting of section k.
Past(l, n, p) ==
  LET before == {Sections[i] : i \in 1 .. (IF l = "count" \/ l = "done" THEN n ELSE n - 1)}
  IN before \cup {s \in Setting : Of(s) \in before}
     \cup (IF l = "code" THEN {} ELSE {Sections[n]})
     \cup {Place(n, i) : i \in 1 .. p - 1}

\* What is behind a run depends on its place alone.
LEMMA BehindIsPast == Behind = Past(pc, sec, pos) /\ Behind' = Past(pc', sec', pos')
BY DEF Behind, Past, At, C, Place

\* It is what has a place before the run's.
LEMMA PastIs ==
  ASSUME NEW l, NEW n \in 1 .. 6, NEW p \in Nat, p \in 1 .. Many(n) + 1,
         l \in {"count", "done"} => n = 6
  PROVE  /\ Past(l, n, p) \subseteq Component \cup Setting
         /\ \A k \in 1 .. 6 :
              /\ Sections[k] \in Past(l, n, p) <=> k < n \/ (k = n /\ l # "code")
              /\ \A i \in Nat : i \in 1 .. Many(k) =>
                   (Place(k, i) \in Past(l, n, p)
                      <=> k < n \/ (k = n /\ (l \in {"count", "done"} \/ i < p)))
<1> DEFINE m      == IF l = "count" \/ l = "done" THEN n ELSE n - 1
           before == {Sections[j] : j \in 1 .. m}
           read   == {Place(n, j) : j \in 1 .. p - 1}
<1>1. m \in 0 .. 6 /\ Sections[n] \in Component /\ \A k \in 1 .. 6 : Sections[k] \in Component
  BY Layout
<1>2. \A j \in 1 .. p - 1 : j \in Nat /\ j \in 1 .. Many(n)
  BY PlaceIs
<1>3. read \subseteq Setting /\ before \subseteq Component
  BY <1>1, <1>2, PlaceIs, Layout
<1>4. Past(l, n, p) = before \cup {s \in Setting : Of(s) \in before}
                       \cup (IF l = "code" THEN {} ELSE {Sections[n]}) \cup read
  BY DEF Past
<1>5. \A j \in 1 .. 6 : Sections[j] \in before <=> j <= m
  BY <1>1, Layout
<1>6. ASSUME NEW k \in 1 .. 6
      PROVE  Sections[k] \in Past(l, n, p) <=> k < n \/ (k = n /\ l # "code")
  <2>1. Sections[k] = Sections[n] <=> k = n
    BY Layout
  <2>2. Sections[k] \in Past(l, n, p) <=> k <= m \/ (l # "code" /\ k = n)
    BY <1>1, <1>3, <1>4, <1>5, <2>1, Apart
  <2>3. QED BY <1>1, <2>2
<1>7. ASSUME NEW k \in 1 .. 6, NEW i \in Nat, i \in 1 .. Many(k)
      PROVE  Place(k, i) \in Past(l, n, p)
               <=> k < n \/ (k = n /\ (l \in {"count", "done"} \/ i < p))
  <2> DEFINE s == Place(k, i)
  <2>1. s \in Setting /\ Of(s) = Sections[k]
    BY <1>7, PlaceIs
  <2>2. s \in read <=> k = n /\ i < p
    <3>1. ASSUME s \in read PROVE k = n /\ i < p
      <4>1. PICK j \in 1 .. p - 1 : s = Place(n, j)
        BY <3>1
      <4>2. k = n /\ i = j
        BY <1>2, <1>7, <4>1, PlaceIs
      <4>3. QED BY <4>1, <4>2
    <3>2. ASSUME k = n, i < p PROVE s \in read
      <4>1. i \in 1 .. p - 1
        BY <1>7, <3>2, PlaceIs
      <4>2. QED BY <3>2, <4>1
    <3>3. QED BY <3>1, <3>2
  <2>3. s \in Past(l, n, p) <=> k <= m \/ (k = n /\ i < p)
    BY <1>1, <1>3, <1>4, <1>5, <2>1, <2>2, Apart
  <2>4. QED BY <1>1, <2>3
<1>8. Past(l, n, p) \subseteq Component \cup Setting
  BY <1>1, <1>3, <1>4
<1>9. QED BY <1>6, <1>7, <1>8

\* Two stretches of a run are one when they have the same places.
LEMMA SamePlaces ==
  ASSUME NEW A, NEW B, A \subseteq Component \cup Setting, B \subseteq Component \cup Setting,
         \A k \in 1 .. 6 :
           /\ Sections[k] \in A <=> Sections[k] \in B
           /\ \A i \in Nat : i \in 1 .. Many(k) => (Place(k, i) \in A <=> Place(k, i) \in B)
  PROVE  A = B
BY Everywhere

\* A section ends where the next begins.
LEMMA PastSection ==
  ASSUME NEW l, NEW n \in 1 .. 6, NEW p \in Nat, l \in {"upgrade", "read", "send"},
         p = Many(n) + 1
  PROVE  Past(l, n, p) = IF n = 6 THEN Past("count", n, 1) ELSE Past("code", n + 1, 1)
<1>1. \A k \in 1 .. 6 : Many(k) \in Nat /\ 1 \in 1 .. Many(k) + 1
  BY PlaceIs
<1>2. p \in 1 .. Many(n) + 1 /\ \A i \in Nat : i \in 1 .. Many(n) => i < p
  BY <1>1
<1>3. /\ Past(l, n, p) \subseteq Component \cup Setting
      /\ \A k \in 1 .. 6 :
           /\ Sections[k] \in Past(l, n, p) <=> k <= n
           /\ \A i \in Nat : i \in 1 .. Many(k) => (Place(k, i) \in Past(l, n, p) <=> k <= n)
  <2>1. /\ Past(l, n, p) \subseteq Component \cup Setting
        /\ \A k \in 1 .. 6 :
             /\ Sections[k] \in Past(l, n, p) <=> k < n \/ (k = n /\ l # "code")
             /\ \A i \in Nat : i \in 1 .. Many(k) =>
                  (Place(k, i) \in Past(l, n, p)
                     <=> k < n \/ (k = n /\ (l \in {"count", "done"} \/ i < p)))
    <3>1. ASSUME NEW q \in Nat, q \in 1 .. Many(n) + 1
          PROVE  /\ Past(l, n, q) \subseteq Component \cup Setting
                 /\ \A k \in 1 .. 6 :
                      /\ Sections[k] \in Past(l, n, q) <=> k < n \/ (k = n /\ l # "code")
                      /\ \A i \in Nat : i \in 1 .. Many(k) =>
                           (Place(k, i) \in Past(l, n, q)
                              <=> k < n \/ (k = n /\ (l \in {"count", "done"} \/ i < q)))
      <4>1. l \in {"count", "done"} => n = 6
        OBVIOUS
      <4>2. QED BY <3>1, <4>1, PastIs
    <3>2. QED BY <1>2, <3>1
  <2>2. QED BY <1>2, <2>1
<1>4. CASE n = 6
  <2>1. /\ Past("count", n, 1) \subseteq Component \cup Setting
        /\ \A k \in 1 .. 6 :
             /\ Sections[k] \in Past("count", n, 1)
             /\ \A i \in Nat : i \in 1 .. Many(k) => Place(k, i) \in Past("count", n, 1)
    <3>1. /\ Past("count", n, 1) \subseteq Component \cup Setting
          /\ \A k \in 1 .. 6 :
               /\ Sections[k] \in Past("count", n, 1) <=> k < n \/ (k = n /\ "count" # "code")
               /\ \A i \in Nat : i \in 1 .. Many(k) =>
                    (Place(k, i) \in Past("count", n, 1)
                       <=> k < n \/ (k = n /\ ("count" \in {"count", "done"} \/ i < 1)))
      <4>1. /\ "count" \in {"count", "done"} => n = 6
            /\ 1 \in Nat /\ 1 \in 1 .. Many(n) + 1
        BY <1>1, <1>4
      <4>2. QED BY <4>1, PastIs
    <3>2. QED BY <1>4, <3>1
  <2>2. Past(l, n, p) = Past("count", n, 1)
    BY <1>3, <1>4, <2>1, SamePlaces
  <2>3. QED BY <1>4, <2>2
<1>5. CASE n # 6
  <2>1. n + 1 \in 1 .. 6
    BY <1>5
  <2>2. /\ Past("code", n + 1, 1) \subseteq Component \cup Setting
        /\ \A k \in 1 .. 6 :
             /\ Sections[k] \in Past("code", n + 1, 1) <=> k < n + 1
             /\ \A i \in Nat : i \in 1 .. Many(k) =>
                  (Place(k, i) \in Past("code", n + 1, 1) <=> k < n + 1 \/ (k = n + 1 /\ i < 1))
    <3>1. /\ Past("code", n + 1, 1) \subseteq Component \cup Setting
          /\ \A k \in 1 .. 6 :
               /\ Sections[k] \in Past("code", n + 1, 1)
                    <=> k < n + 1 \/ (k = n + 1 /\ "code" # "code")
               /\ \A i \in Nat : i \in 1 .. Many(k) =>
                    (Place(k, i) \in Past("code", n + 1, 1)
                       <=> k < n + 1 \/ (k = n + 1 /\ ("code" \in {"count", "done"} \/ i < 1)))
      BY <1>1, <2>1, PastIs
    <3>2. QED BY <3>1
  <2>3. \A k \in 1 .. 6 :
          /\ Sections[k] \in Past("code", n + 1, 1) <=> k <= n
          /\ \A i \in Nat : i \in 1 .. Many(k) =>
               (Place(k, i) \in Past("code", n + 1, 1) <=> k <= n)
    BY <1>1, <2>2
  <2>4. Past(l, n, p) = Past("code", n + 1, 1)
    BY <1>3, <2>2, <2>3, SamePlaces
  <2>5. QED BY <1>5, <2>4
<1>6. QED BY <1>4, <1>5
-----------------------------------------------------------------------------
\* Where the run is, and what is behind it.
LEMMA Here ==
  ASSUME TypeOK, PositionOK
  PROVE  /\ sec \in 1 .. 6 /\ C \in Component /\ C = Sections[sec]
         /\ Len(SettingsOf[C]) = Many(sec) /\ Many(sec) \in 0 .. 3
         /\ (SettingsOf[C] = <<>>) = (Many(sec) = 0)
         /\ pc \in Running \cup {"done"} => pos \in Nat /\ pos \in 1 .. Many(sec) + 1
         /\ pc \in {"count", "done"} => sec = 6
         /\ pc \in {"read", "send"} =>
              pos \in 1 .. Many(sec) /\ S = Place(sec, pos) /\ S \in Setting /\ Of(S) = C
<1>1. sec \in 1 .. 6 /\ C \in Component /\ C = Sections[sec]
  BY Layout DEF TypeOK, C
<1>2. Len(SettingsOf[C]) = Many(sec)
  BY DEF Many, C
<1>3. Many(sec) \in 0 .. 3 /\ (SettingsOf[C] = <<>>) = (Many(sec) = 0)
  BY <1>1, <1>2, Places
<1>4. pc \in {"read", "send"} => pos \in 1 .. Many(sec)
  BY <1>2 DEF PositionOK
<1>5. pc \in {"read", "send"} => pos \in Nat /\ S = Place(sec, pos) /\ S \in Setting /\ Of(S) = C
  BY <1>1, <1>3, <1>4, PlaceIs DEF S, C, Place
<1>6. pc \in Running \cup {"done"} => pos \in Nat /\ pos \in 1 .. Many(sec) + 1
  BY <1>3, <1>4 DEF PositionOK, Running
<1>7. pc \in {"count", "done"} => sec = 6
  BY Layout DEF PositionOK
<1>8. QED BY <1>1, <1>2, <1>3, <1>4, <1>5, <1>6, <1>7

\* The same, of a run that is under way or through.
LEMMA BehindIs ==
  ASSUME TypeOK, PositionOK, pc \in Running \cup {"done"}
  PROVE  /\ Behind \subseteq Component \cup Setting
         /\ \A k \in 1 .. 6 :
              /\ Sections[k] \in Behind <=> k < sec \/ (k = sec /\ pc # "code")
              /\ \A i \in Nat : i \in 1 .. Many(k) =>
                   (Place(k, i) \in Behind
                      <=> k < sec \/ (k = sec /\ (pc \in {"count", "done"} \/ i < pos)))
<1>1. /\ sec \in 1 .. 6 /\ pos \in Nat /\ pos \in 1 .. Many(sec) + 1
      /\ pc \in {"count", "done"} => sec = 6
  BY Here
<1>2. Behind = Past(pc, sec, pos)
  BY BehindIsPast
<1>3. QED BY <1>1, <1>2, PastIs

\* The sections and settings a run has not come to.
LEMMA Ahead ==
  ASSUME TypeOK, PositionOK, pc \in Running \cup {"done"}
  PROVE  /\ pc = "code" => C \notin Behind
         /\ pc \in {"code", "upgrade"} => \A s \in Setting : Of(s) = C => s \notin Behind
         /\ pc # "code" => C \in Behind
         /\ pc \in {"read", "send"} => S \notin Behind
         /\ \A c \in Component : c \in Behind => Has(c)
         /\ \A s \in Setting : s \in Behind => Has(Of(s)) /\ Of(s) \in Behind
<1>1. /\ sec \in 1 .. 6 /\ C \in Component /\ C = Sections[sec]
      /\ pos \in Nat /\ pos \in 1 .. Many(sec) + 1
      /\ pc \in {"read", "send"} => pos \in 1 .. Many(sec) /\ S = Place(sec, pos)
  BY Here
<1>2. (pc = "code" => C \notin Behind) /\ (pc # "code" => C \in Behind)
  BY <1>1, BehindIs
<1>3. pc \in {"read", "send"} => S \notin Behind
  <2>1. SUFFICES ASSUME pc \in {"read", "send"} PROVE Place(sec, pos) \notin Behind
    BY <1>1
  <2>2. QED BY <1>1, <2>1, BehindIs
<1>4. \A c \in Component : c \in Behind => Has(c)
  <2>1. SUFFICES ASSUME NEW k \in 1 .. 6, Sections[k] \in Behind PROVE Has(Sections[k])
    BY Everywhere
  <2>2. k < sec \/ (k = sec /\ pc # "code")
    BY <2>1, BehindIs
  <2>3. CASE k < sec
    BY <1>1, <2>3 DEF PositionOK
  <2>4. CASE k = sec /\ pc # "code"
    BY <1>1, <2>4 DEF PositionOK, Running, Reached
  <2>5. QED BY <2>2, <2>3, <2>4
<1>5. ASSUME NEW k \in 1 .. 6, NEW i \in Nat, i \in 1 .. Many(k), Place(k, i) \in Behind
      PROVE  Sections[k] \in Behind /\ (Sections[k] = C => pc # "code" /\ pc # "upgrade")
  <2>1. k < sec \/ (k = sec /\ (pc \in {"count", "done"} \/ i < pos))
    BY <1>5, BehindIs
  <2>2. pc \in {"code", "upgrade"} => pos = 1
    BY DEF PositionOK
  <2>3. k < sec \/ (k = sec /\ pc \notin {"code", "upgrade"})
    BY <1>5, <2>1, <2>2, PlaceIs
  <2>4. Sections[k] \in Behind
    BY <2>3, BehindIs
  <2>5. Sections[k] = C => k = sec
    BY <1>1, Layout
  <2>6. QED BY <1>1, <2>3, <2>4, <2>5
<1>6. ASSUME NEW s \in Setting, s \in Behind
      PROVE  Of(s) \in Behind /\ (Of(s) = C => pc \notin {"code", "upgrade"})
  <2>1. PICK k \in 1 .. 6, i \in Nat : i \in 1 .. Many(k) /\ s = Place(k, i)
    BY Everywhere
  <2>2. Of(s) = Sections[k]
    BY <2>1, PlaceIs
  <2>3. QED BY <1>5, <1>6, <2>1, <2>2
<1>7. \A s \in Setting : s \in Behind => Has(Of(s)) /\ Of(s) \in Behind
  BY <1>4, <1>6, EveryPlace
<1>8. QED BY <1>2, <1>3, <1>4, <1>6, <1>7

\* What comes behind when the run goes on.
LEMMA Moves ==
  ASSUME TypeOK, PositionOK
  PROVE  /\ pc = "code" /\ Goto("upgrade") => Behind' = Behind \cup {C}
         /\ pc = "upgrade" /\ (IF SettingsOf[C] = <<>> THEN NextSection ELSE Goto("read"))
              => Behind' = Behind
         /\ pc = "read" /\ Goto("send") => Behind' = Behind
         /\ pc \in {"read", "send"} /\ NextSetting => Behind' = Behind \cup {S}
         /\ pc = "count" /\ Goto("done") => Behind' = Behind
<1>1. /\ sec \in 1 .. 6 /\ C = Sections[sec] /\ Len(SettingsOf[C]) = Many(sec) /\ Many(sec) \in 0 .. 3
      /\ (SettingsOf[C] = <<>>) = (Many(sec) = 0)
      /\ pc \in Running \cup {"done"} => pos \in Nat /\ pos \in 1 .. Many(sec) + 1
      /\ pc \in {"read", "send"} => pos \in 1 .. Many(sec) /\ S = Place(sec, pos)
      /\ pc = "upgrade" => pos = 1
  BY Here DEF PositionOK
<1>2. Behind = Past(pc, sec, pos) /\ Behind' = Past(pc', sec', pos')
  BY BehindIsPast
<1>3. ASSUME pc = "code", Goto("upgrade") PROVE Behind' = Behind \cup {C}
  BY <1>1, <1>2, <1>3 DEF Goto, Past
<1>4. ASSUME pc \in {"upgrade", "read", "send"}, NextSection
      PROVE  Behind' = Past(pc, sec, Many(sec) + 1)
  <2>1. pc' = (IF sec = 6 THEN "count" ELSE "code") /\ sec' = (IF sec = 6 THEN sec ELSE sec + 1)
        /\ pos' = 1
    BY <1>4, Layout DEF NextSection
  <2>2. Past(pc, sec, Many(sec) + 1) = IF sec = 6 THEN Past("count", sec, 1)
                                                  ELSE Past("code", sec + 1, 1)
    <3>1. Many(sec) + 1 \in Nat
      BY <1>1
    <3>2. QED BY <1>1, <1>4, <3>1, PastSection
  <2>3. QED BY <1>2, <2>1, <2>2
<1>5. ASSUME pc = "upgrade", IF SettingsOf[C] = <<>> THEN NextSection ELSE Goto("read")
      PROVE  Behind' = Behind
  <2>1. CASE SettingsOf[C] = <<>>
    <3>1. Behind' = Past(pc, sec, Many(sec) + 1)
      BY <1>4, <1>5, <2>1
    <3>2. Many(sec) + 1 = pos
      BY <1>1, <1>5, <2>1
    <3>3. QED BY <1>2, <3>1, <3>2
  <2>2. CASE SettingsOf[C] # <<>>
    BY <1>2, <1>5, <2>2 DEF Goto, Past
  <2>3. QED BY <2>1, <2>2
<1>6. ASSUME pc = "read", Goto("send") PROVE Behind' = Behind
  BY <1>2, <1>6 DEF Goto, Past
<1>7. ASSUME pc \in {"read", "send"}, NextSetting PROVE Behind' = Behind \cup {S}
  <2>1. Past(pc, sec, pos + 1) = Past(pc, sec, pos) \cup {S}
    <3>1. {Place(sec, i) : i \in 1 .. pos + 1 - 1}
            = {Place(sec, i) : i \in 1 .. pos - 1} \cup {Place(sec, pos)}
      <4>1. \A i : i \in 1 .. pos + 1 - 1 <=> i \in 1 .. pos - 1 \/ i = pos
        BY <1>1, <1>7
      <4>2. QED BY <4>1
    <3>2. QED BY <1>1, <1>7, <3>1 DEF Past
  <2>2. CASE pos < Len(SettingsOf[C])
    <3>1. pc' = "read" /\ sec' = sec /\ pos' = pos + 1
      BY <1>7, <2>2 DEF NextSetting
    <3>2. Past("read", sec, pos + 1) = Past(pc, sec, pos + 1)
      BY <1>7 DEF Past
    <3>3. QED BY <1>2, <2>1, <3>1, <3>2
  <2>3. CASE ~(pos < Len(SettingsOf[C]))
    <3>1. Behind' = Past(pc, sec, Many(sec) + 1)
      BY <1>4, <1>7, <2>3 DEF NextSetting
    <3>2. Many(sec) = pos
      BY <1>1, <1>7, <2>3
    <3>3. QED BY <1>2, <2>1, <3>1, <3>2
  <2>4. QED BY <2>2, <2>3
<1>8. ASSUME pc = "count", Goto("done") PROVE Behind' = Behind
  BY <1>2, <1>8 DEF Goto, Past
<1>9. QED BY <1>3, <1>5, <1>6, <1>7, <1>8

\* Behind the last section is everything.
LEMMA AllBehind ==
  ASSUME TypeOK, PositionOK, pc \in {"count", "done"}
  PROVE  Behind = Component \cup Setting
<1>1. sec = 6
  BY Here
<1>2. /\ Behind \subseteq Component \cup Setting
      /\ \A k \in 1 .. 6 :
           /\ Sections[k] \in Behind <=> k < sec \/ (k = sec /\ pc # "code")
           /\ \A i \in Nat : i \in 1 .. Many(k) =>
                (Place(k, i) \in Behind
                   <=> k < sec \/ (k = sec /\ (pc \in {"count", "done"} \/ i < pos)))
  <2>1. pc \in Running \cup {"done"}
    BY DEF Running
  <2>2. QED BY <2>1, BehindIs
<1>3. \A k \in 1 .. 6 : Sections[k] \in Behind /\ \A i \in Nat : i \in 1 .. Many(k) => Place(k, i) \in Behind
  BY <1>1, <1>2
<1>4. Component \cup Setting \subseteq Behind
  BY <1>3, Everywhere
<1>5. QED BY <1>2, <1>4

\* The components are finitely many.
LEMMA FiniteComponent == IsFiniteSet(Component)
<1> DEFINE f == [k \in 1 .. 6 |-> Sections[k]]
<1>1. f \in Surjection(1 .. 6, Component)
  BY Layout DEF Surjection
<1>2. IsFiniteSet(1 .. 6)
  <2>1. 1 \in Int /\ 6 \in Int
    OBVIOUS
  <2>2. QED BY <2>1, FS_Interval
<1>3. QED BY <1>1, <1>2, FS_Surjection

\* The list of a set of components.
LEMMA ListOf ==
  ASSUME NEW A \in SUBSET Component
  PROVE  SetToSeq(A) \in Seq(Component)
<1> DEFINE n == Cardinality(A)
<1>1. IsFiniteSet(A)
  BY FiniteComponent, FS_Subset
<1>2. n \in Nat /\ ExistsBijection(1 .. n, A)
  BY <1>1, FS_CardinalityType
<1>3. \E f \in [1 .. n -> A] : IsInjective(f)
  BY <1>2 DEF ExistsBijection, Bijection, Injection
<1>4. SetToSeq(A) \in [1 .. n -> A]
  BY <1>3 DEF SetToSeq
<1>5. QED BY <1>2, <1>4

-----------------------------------------------------------------------------
\* The places of a list that name one of A are finitely many.
LEMMA NamedIs ==
  ASSUME NEW u \in Seq(Component), NEW A
  PROVE  IsFiniteSet(Named(u, A)) /\ Cardinality(Named(u, A)) \in 0 .. Len(u)
<1>1. Len(u) \in Nat /\ DOMAIN u = 1 .. Len(u)
  OBVIOUS
<1>2. IsFiniteSet(1 .. Len(u)) /\ Cardinality(1 .. Len(u)) = Len(u)
  <2>1. 1 \in Int /\ Len(u) \in Int
    BY <1>1
  <2>2. IsFiniteSet(1 .. Len(u)) /\ Cardinality(1 .. Len(u)) = IF 1 > Len(u) THEN 0 ELSE Len(u) - 1 + 1
    BY <2>1, FS_Interval
  <2>3. QED BY <1>1, <2>2
<1>3. Named(u, A) \in SUBSET (1 .. Len(u))
  BY <1>1 DEF Named
<1>4. IsFiniteSet(Named(u, A)) /\ Cardinality(Named(u, A)) <= Len(u)
  BY <1>2, <1>3, FS_Subset
<1>5. QED BY <1>1, <1>4, FS_CardinalityType

\* Every place names some component, and none names nothing.
LEMMA NamedAll ==
  ASSUME NEW u \in Seq(Component)
  PROVE  Cardinality(Named(u, Component)) = Len(u) /\ Cardinality(Named(u, {})) = 0
<1>1. Len(u) \in Nat /\ Named(u, Component) = 1 .. Len(u) /\ Named(u, {}) = {}
  BY DEF Named
<1>2. 1 \in Int /\ Len(u) \in Int
  BY <1>1
<1>3. Cardinality(1 .. Len(u)) = IF 1 > Len(u) THEN 0 ELSE Len(u) - 1 + 1
  BY <1>2, FS_Interval
<1>4. Cardinality(1 .. Len(u)) = Len(u)
  BY <1>1, <1>3
<1>5. QED BY <1>1, <1>4, FS_EmptySet

\* Times counts the places that name c.
LEMMA TimesIs ==
  ASSUME TypeOK, NEW c
  PROVE  Times(c) \in Nat /\ Times(c) = Cardinality(Named(ups, {c}))
<1>1. ups \in Seq(Component)
  BY DEF TypeOK
<1>2. Times(c) = Cardinality(Named(ups, {c}))
  <2>1. {i \in DOMAIN ups : ups[i] = c} = Named(ups, {c})
    BY DEF Named
  <2>2. QED BY <2>1 DEF Times
<1>3. Len(ups) \in Nat /\ Cardinality(Named(ups, {c})) \in 0 .. Len(ups)
  BY <1>1, NamedIs
<1>4. QED BY <1>2, <1>3

\* One more component, its places more.
LEMMA NamedMore ==
  ASSUME NEW u \in Seq(Component), NEW A, NEW c, c \notin A
  PROVE  Cardinality(Named(u, A \cup {c})) = Cardinality(Named(u, A)) + Cardinality(Named(u, {c}))
<1>1. /\ Named(u, A \cup {c}) = Named(u, A) \cup Named(u, {c})
      /\ Named(u, A) \cap Named(u, {c}) = {}
  BY DEF Named
<1>2. /\ IsFiniteSet(Named(u, A)) /\ IsFiniteSet(Named(u, {c})) /\ Len(u) \in Nat
      /\ Cardinality(Named(u, A)) \in 0 .. Len(u) /\ Cardinality(Named(u, {c})) \in 0 .. Len(u)
  BY NamedIs
<1>3. Cardinality({}) = 0
  BY FS_EmptySet
<1>4. Cardinality(Named(u, A \cup {c}))
        = Cardinality(Named(u, A)) + Cardinality(Named(u, {c})) - Cardinality({})
  BY <1>1, <1>2, FS_Union
<1>5. QED BY <1>2, <1>3, <1>4

\* A step moves on, or leaves, or begins, or another acts.
LEMMA CountStep ==
  ASSUME TypeOK, PositionOK, CountOK, [Next]_vars, ups' \in Seq(Component)
  PROVE  CountOK'
<1> USE DEF CountOK
<1>1. ASSUME NEW u, Begin(u) PROVE CountOK'
  <2>1. Upgraded' = {} /\ upgraded' = 0
    BY <1>1 DEF Begin, Upgraded, Reached
  <2>2. QED BY <2>1, NamedAll
<1>2. CASE Deploy
  <2>1. pc = "code" /\ pc' \in {"upgrade", "refused"} /\ sec' = sec /\ ups' = ups /\ upgraded' = upgraded
    BY <1>2 DEF Deploy, At, Goto, Kept
  <2>2. Upgraded' = Upgraded
    BY <2>1 DEF Upgraded, Reached
  <2>3. QED BY <2>1, <2>2 DEF Running
<1>3. CASE UpgradeIfRequested
  <2>1. pc = "upgrade" /\ ups' = ups /\ upgraded' = upgraded + Times(C)
    BY <1>3 DEF UpgradeIfRequested, At, Kept
  <2>2. sec \in 1 .. 6 /\ C = Sections[sec]
    BY Here
  <2>3. Upgraded' = Upgraded \cup {C} /\ C \notin Upgraded
    <3>1. Upgraded = {Sections[i] : i \in 1 .. sec - 1}
      BY <2>1 DEF Upgraded, Reached
    <3>2. Upgraded' = {Sections[i] : i \in 1 .. sec}
      <4>1. \/ pc' \in Reached /\ sec' = sec
            \/ pc' \notin Reached /\ sec' = sec + 1
        BY <1>3 DEF UpgradeIfRequested, NextSection, Goto, Reached
      <4>2. CASE pc' \in Reached /\ sec' = sec
        BY <4>2 DEF Upgraded
      <4>3. CASE pc' \notin Reached /\ sec' = sec + 1
        <5>1. sec' - 1 = sec
          BY <2>2, <4>3
        <5>2. QED BY <4>3, <5>1 DEF Upgraded
      <4>4. QED BY <4>1, <4>2, <4>3
    <3>3. \A i : i \in 1 .. sec <=> i \in 1 .. sec - 1 \/ i = sec
      BY <2>2
    <3>4. \A i \in 1 .. sec - 1 : Sections[i] # C
      BY <2>2, Layout
    <3>5. QED BY <2>2, <3>1, <3>2, <3>3, <3>4
  <2>4. upgraded = Cardinality(Named(ups, Upgraded))
    BY <2>1 DEF Running
  <2>5. Cardinality(Named(ups, Upgraded \cup {C})) = Cardinality(Named(ups, Upgraded)) + Times(C)
    <3>1. ups \in Seq(Component)
      BY DEF TypeOK
    <3>2. Cardinality(Named(ups, Upgraded \cup {C}))
            = Cardinality(Named(ups, Upgraded)) + Cardinality(Named(ups, {C}))
      BY <2>3, <3>1, NamedMore
    <3>3. Times(C) = Cardinality(Named(ups, {C}))
      BY TimesIs
    <3>4. QED BY <3>2, <3>3
  <2>6. QED BY <2>1, <2>3, <2>4, <2>5
<1>4. CASE Read \/ Send
  <2>1. pc \in {"read", "send"} /\ ups' = ups /\ upgraded' = upgraded
    BY <1>4 DEF Read, Send, At, Kept
  <2>2. \/ pc' \in Reached /\ sec' = sec
        \/ pc' = "code" /\ sec' = sec + 1
        \/ pc' = "refused"
    BY <1>4 DEF Read, Send, NextSetting, NextSection, Goto, Reached
  <2>3. pc' # "refused" => Upgraded' = Upgraded
    <3>1. Upgraded = {Sections[i] : i \in 1 .. sec}
      BY <2>1 DEF Upgraded, Reached
    <3>2. CASE pc' \in Reached /\ sec' = sec
      BY <3>1, <3>2 DEF Upgraded
    <3>3. CASE pc' = "code" /\ sec' = sec + 1
      <4>1. sec' - 1 = sec
        BY <3>3, Here
      <4>2. QED BY <3>1, <3>3, <4>1 DEF Upgraded, Reached
    <3>4. QED BY <2>2, <3>2, <3>3
  <2>4. QED BY <2>1, <2>3 DEF Running, Reached
<1>5. CASE CountUpgrades \/ Abort \/ EditFile
  BY <1>5 DEF CountUpgrades, Abort, EditFile, Goto, Running
<1>6. CASE OwnerSets \/ OtherDeploys \/ UNCHANGED vars
  <2>1. UNCHANGED <<pc, sec, ups, upgraded>>
    BY <1>6 DEF OwnerSets, OtherDeploys, Interfere, run, vars
  <2>2. QED BY <2>1 DEF Upgraded
<1>7. QED BY <1>1, <1>2, <1>3, <1>4, <1>5, <1>6 DEF Next, Step, Start, Settle

-----------------------------------------------------------------------------
\* Declared and initial values are values.
LEMMA DeclaredIs ==
  ASSUME TypeOK, NEW s \in Setting
  PROVE  /\ Initialized(s) \in SUBSET Value
         /\ Asked(s) => Declared(s) \in Value
<1>1. /\ file \in Files /\ DOMAIN file = InFile /\ None \notin {file.signer, file.fee}
      /\ Default \in Value /\ Canonical \in Value
  BY StackConstants DEF TypeOK, Value
<1>2. ASSUME s \in InFile, s = "recipient" => file.recipient # None PROVE file[s] \in Value
  <2>1. file[s] # None
    BY <1>1, <1>2 DEF InFile
  <2>2. file[s] \in {f[k] : f \in Files, k \in InFile}
    BY <1>1, <1>2
  <2>3. QED BY <2>1, <2>2 DEF Value
<1>3. Asked(s) => Declared(s) \in Value
  BY <1>1, <1>2 DEF Asked, Declared
<1>4. s # "recipient" => Asked(s)
  BY DEF Asked
<1>5. QED BY <1>1, <1>3, <1>4 DEF Initialized

\* A deploy makes one more proxy present and fills its settings.
LEMMA DeployedIs ==
  ASSUME TypeOK, NEW c \in Component, Deployed(c)
  PROVE  /\ impl' \in [Component -> {None, "old", "new"}]
         /\ holds' \in [Setting -> SUBSET Value]
         /\ impl'[c] = "new" /\ \A d \in Component : d # c => impl'[d] = impl[d]
         /\ \A s \in Setting : Of(s) = c => holds'[s] = Initialized(s)
         /\ \A s \in Setting : Of(s) # c => holds'[s] = holds[s]
<1>1. \A s \in Setting : Initialized(s) \in SUBSET Value
  BY DeclaredIs
<1>2. QED BY <1>1 DEF TypeOK, Deployed

\* Every step keeps the types.
LEMMA TypeStep ==
  ASSUME IInv, [Next]_vars
  PROVE  TypeOK'
<1> USE DEF TypeOK
<1>1. TypeOK /\ PositionOK /\ CountOK
  BY DEF IInv
<1>2. /\ sec \in 1 .. 6 /\ C \in Component /\ Many(sec) \in 0 .. 3 /\ Len(SettingsOf[C]) = Many(sec)
      /\ pc \in Running \cup {"done"} => pos \in 1 .. Many(sec) + 1
      /\ pc \in {"read", "send"} => pos \in 1 .. Many(sec) /\ S \in Setting
  BY <1>1, Here
<1>3. ASSUME NEW u \in Seq(Component), Begin(u), turns' \in 0 .. MaxTurns PROVE TypeOK'
  <2>1. Foreseen \subseteq Component \cup Setting /\ Warned \subseteq Setting
    BY DEF Foreseen, Warned
  <2>2. 0 \in 0 .. Len(u) /\ 1 \in 1 .. Len(Sections) /\ 1 \in 1 .. 3 /\ "code" \in Location
    BY Layout DEF Location, Stopped
  <2>3. QED BY <1>1, <1>3, <2>1, <2>2 DEF Begin, chain
<1>4. CASE Start
  <2>1. turns' \in 0 .. MaxTurns
    BY <1>1, <1>4, StackConstants DEF Start
  <2>2. PICK u \in Upgrades : Begin(u)
    BY <1>4 DEF Start
  <2>3. u \in Seq(Component)
    BY StackConstants
  <2>4. QED BY <1>3, <2>1, <2>2, <2>3
<1>5. CASE Settle
  <2>1. Advised \in SUBSET Component
    BY EveryPlace DEF Advised, Warned, Advises
  <2>2. SetToSeq(Advised) \in Seq(Component)
    BY <2>1, ListOf
  <2>3. turns' \in 0 .. MaxTurns
    BY <1>1, <1>5 DEF Settle
  <2>4. QED BY <1>3, <1>5, <2>2, <2>3 DEF Settle
<1>6. ASSUME NextSection \/ (NextSetting /\ pc \in {"read", "send"})
      PROVE  sec' \in 1 .. Len(Sections) /\ pos' \in 1 .. 3 /\ pc' \in Location
  <2>1. /\ sec' \in 1 .. 6 /\ pc' \in {"code", "count", "read"}
        /\ pos' = 1 \/ (pos' = pos + 1 /\ pos < Many(sec))
    BY <1>2, <1>6, Layout DEF NextSetting, NextSection
  <2>2. pos' \in 1 .. 3
    BY <1>1, <1>2, <2>1
  <2>3. QED BY <2>1, <2>2, Layout DEF Location, Stopped
<1>7. ASSUME Step,
             sec' \in 1 .. Len(Sections) /\ pos' \in 1 .. 3 /\ pc' \in Location,
             /\ impl' \in [Component -> {None, "old", "new"}]
             /\ holds' \in [Setting -> SUBSET Value],
             upgraded' \in 0 .. Len(ups),
             sent' \in SUBSET (Component \cup Setting)
      PROVE  TypeOK'
  <2>1. Kept
    BY <1>7 DEF Step, Deploy, UpgradeIfRequested, Read, Send, CountUpgrades
  <2>2. QED BY <1>1, <1>7, <2>1 DEF Kept, bounds
<1>8. CASE Deploy
  <2>1. /\ impl' \in [Component -> {None, "old", "new"}]
        /\ holds' \in [Setting -> SUBSET Value]
    BY <1>1, <1>2, <1>8, DeployedIs DEF Deploy, chain
  <2>2. sec' = sec /\ pos' = pos /\ pc' \in Location /\ upgraded' = upgraded
    BY <1>8 DEF Deploy, Goto, Location, Stopped
  <2>3. sent' \in SUBSET (Component \cup Setting)
    BY <1>1, <1>2, <1>8 DEF Deploy
  <2>4. QED BY <1>1, <1>7, <1>8, <2>1, <2>2, <2>3 DEF Step
<1>9. CASE UpgradeIfRequested
  <2>1. /\ impl' \in [Component -> {None, "old", "new"}]
        /\ holds' = holds /\ sent' = sent
    BY <1>1, <1>9 DEF UpgradeIfRequested
  <2>2. sec' \in 1 .. Len(Sections) /\ pos' \in 1 .. 3 /\ pc' \in Location /\ pc' \in Running
    BY <1>1, <1>6, <1>9 DEF UpgradeIfRequested, Goto, NextSection, Location, Stopped, Running
  <2>3. ups' = ups
    BY <1>9 DEF UpgradeIfRequested, Kept
  <2>4. upgraded' \in 0 .. Len(ups)
    <3>1. CountOK'
      BY <1>1, <2>3, CountStep
    <3>2. upgraded' = Cardinality(Named(ups', Upgraded'))
      BY <2>2, <3>1 DEF CountOK
    <3>3. QED BY <1>1, <2>3, <3>2, NamedIs
  <2>5. QED BY <1>1, <1>7, <1>9, <2>1, <2>2, <2>4 DEF Step
<1>10. CASE Read
  <2>1. impl' = impl /\ holds' = holds /\ sent' = sent /\ upgraded' = upgraded
    BY <1>10 DEF Read, chain
  <2>2. NextSetting \/ (pc' \in {"refused", "send"} /\ UNCHANGED <<sec, pos>>)
    BY <1>10 DEF Read, Goto
  <2>3. sec' \in 1 .. Len(Sections) /\ pos' \in 1 .. 3 /\ pc' \in Location
    BY <1>1, <1>6, <1>10, <2>2 DEF Read, At, Location, Stopped
  <2>4. QED BY <1>1, <1>7, <1>10, <2>1, <2>3 DEF Step
<1>11. CASE Send
  <2>1. pc = "send" /\ impl' = impl /\ upgraded' = upgraded
    BY <1>11 DEF Send, At
  <2>2. sec' \in 1 .. Len(Sections) /\ pos' \in 1 .. 3 /\ pc' \in Location
    BY <1>6, <1>11, <2>1 DEF Send
  <2>3. S \in Setting /\ Declared(S) \in Value
    <3>1. S \in Setting
      BY <1>2, <2>1
    <3>2. Asked(S)
      BY <2>1 DEF IInv, AtSetting
    <3>3. QED BY <1>1, <3>1, <3>2, DeclaredIs
  <2>4. holds' \in [Setting -> SUBSET Value]
    BY <1>1, <1>11, <2>3 DEF Send
  <2>5. sent' \in SUBSET (Component \cup Setting)
    BY <1>1, <1>11, <2>3 DEF Send
  <2>6. QED BY <1>1, <1>7, <1>11, <2>1, <2>2, <2>4, <2>5 DEF Step
<1>12. CASE CountUpgrades
  <2>1. /\ UNCHANGED <<sec, pos, impl, holds, upgraded, sent>> /\ pc' \in Location
    BY <1>12 DEF CountUpgrades, Goto, chain, Location, Stopped
  <2>2. QED BY <1>1, <1>7, <1>12, <2>1 DEF Step
<1>13. CASE Abort
  <2>1. aborts' \in 0 .. MaxAborts
    BY <1>1, <1>13, StackConstants DEF Abort
  <2>2. QED BY <1>1, <1>13, <2>1 DEF Abort, Goto, chain, Location, Stopped
<1>14. ASSUME NEW who \in {"owner", "other"}, Interfere(who),
              impl' \in [Component -> {None, "old", "new"}], holds' \in [Setting -> SUBSET Value]
       PROVE  TypeOK'
  <2>1. drift' \in 0 .. MaxDrift
    BY <1>1, <1>14, StackConstants DEF Interfere
  <2>2. QED BY <1>1, <1>14, <2>1 DEF Interfere, run
<1>15. CASE OwnerSets
  <2>1. holds' \in [Setting -> SUBSET Value] /\ impl' = impl
    BY <1>1, <1>15 DEF OwnerSets, Value
  <2>2. QED BY <1>1, <1>14, <1>15, <2>1 DEF OwnerSets
<1>16. CASE OtherDeploys
  <2>1. PICK i \in DOMAIN Sections : Deployed(Sections[i])
    BY <1>16 DEF OtherDeploys
  <2>2. /\ impl' \in [Component -> {None, "old", "new"}]
        /\ holds' \in [Setting -> SUBSET Value]
    BY <1>1, <2>1, Layout, DeployedIs
  <2>3. QED BY <1>14, <1>16, <2>2 DEF OtherDeploys
<1>17. CASE EditFile
  <2>1. turns' \in 0 .. MaxTurns
    BY <1>1, <1>17, StackConstants DEF EditFile
  <2>2. QED BY <1>1, <1>17, <2>1 DEF EditFile, chain, Location, Stopped
<1>18. CASE UNCHANGED vars
  BY <1>1, <1>18 DEF vars, chain, run, bounds
<1>19. QED BY <1>4, <1>5, <1>8, <1>9, <1>10, <1>11, <1>12, <1>13, <1>15, <1>16, <1>17, <1>18
       DEF Next, Step

-----------------------------------------------------------------------------
\* No step takes a proxy or a new implementation away.
LEMMA Grows ==
  ASSUME TypeOK, PositionOK, [Next]_vars
  PROVE  /\ \A c \in Component : Has(c) => Has(c)'
         /\ \A c \in Component : impl[c] = "new" => impl'[c] = "new"
<1>1. C \in Component /\ \A i \in DOMAIN Sections : Sections[i] \in Component
  BY Here, Layout
<1>2. ASSUME NEW c \in Component, Deployed(c) PROVE \A d \in Component : impl'[d] \in {impl[d], "new"}
  BY <1>2, DeployedIs
<1>3. \A c \in Component : impl'[c] \in {impl[c], "new"}
  <2>1. CASE Deploy
    BY <1>1, <1>2, <2>1 DEF Deploy, chain
  <2>2. CASE UpgradeIfRequested
    BY <2>2 DEF UpgradeIfRequested, TypeOK
  <2>3. CASE OtherDeploys
    BY <1>1, <1>2, <2>3 DEF OtherDeploys
  <2>4. CASE Start \/ Settle \/ Read \/ Send \/ CountUpgrades \/ Abort \/ OwnerSets \/ EditFile
             \/ UNCHANGED vars
    BY <2>4 DEF Start, Settle, Begin, Read, Send, CountUpgrades, Abort, OwnerSets, EditFile,
                vars, chain
  <2>5. QED BY <2>1, <2>2, <2>3, <2>4 DEF Next, Step
<1>4. None # "new"
  BY StackConstants
<1>5. QED BY <1>3, <1>4 DEF Has

\* What a deploy leaves of the order.
LEMMA OrderDeployed ==
  ASSUME TypeOK, InOrder, NEW k \in 1 .. 6, \A i \in 1 .. k - 1 : Has(Sections[i]),
         Deployed(Sections[k])
  PROVE  InOrder'
<1>1. /\ impl'[Sections[k]] = "new"
      /\ \A d \in Component : d # Sections[k] => impl'[d] = impl[d]
      /\ \A s \in Setting : Of(s) # Sections[k] => holds'[s] = holds[s]
  BY Layout, DeployedIs
<1>2. None # "new" /\ \A i \in 1 .. 6 : Sections[i] \in Component
  BY StackConstants, Layout
<1>3. \A d \in Component : Has(d)' <=> d = Sections[k] \/ Has(d)
  BY <1>1, <1>2 DEF Has
<1>4. ASSUME NEW i \in 1 .. 6, NEW j \in 1 .. 6, i < j, Has(Sections[j])' PROVE Has(Sections[i])'
  <2>1. CASE Sections[j] = Sections[k]
    <3>1. i \in 1 .. k - 1
      BY <1>4, <2>1, Layout
    <3>2. QED BY <1>2, <1>3, <3>1
  <2>2. CASE Has(Sections[j])
    BY <1>2, <1>3, <1>4, <2>2, Layout DEF InOrder
  <2>3. QED BY <1>2, <1>3, <1>4, <2>1, <2>2
<1>5. ASSUME NEW s \in Setting, ~Has(Of(s))' PROVE holds'[s] = {}
  <2>1. Of(s) \in Component /\ Of(s) # Sections[k] /\ ~Has(Of(s))
    BY <1>3, <1>5, EveryPlace
  <2>2. QED BY <1>1, <2>1 DEF InOrder
<1>6. QED BY <1>4, <1>5, Layout DEF InOrder

\* A section deploys its proxy behind those of the sections before it.
LEMMA OrderStep ==
  ASSUME TypeOK, PositionOK, InOrder, [Next]_vars
  PROVE  InOrder'
<1>1. CASE Deploy /\ Deployed(C)
  <2>1. sec \in 1 .. 6 /\ C = Sections[sec] /\ \A i \in 1 .. sec - 1 : Has(Sections[i])
    BY <1>1, Here DEF Deploy, At, PositionOK, Running
  <2>2. QED BY <1>1, <2>1, OrderDeployed
<1>2. CASE OtherDeploys
  <2>1. PICK i \in 1 .. 6 : Deployed(Sections[i]) /\ \A j \in 1 .. i - 1 : Has(Sections[j])
    BY <1>2, Layout DEF OtherDeploys
  <2>2. QED BY <2>1, OrderDeployed
<1>3. ASSUME \A c \in Component : Has(c)' <=> Has(c),
             \A s \in Setting : holds'[s] = holds[s] \/ Has(Of(s))
      PROVE  InOrder'
  <2>1. \A i \in 1 .. 6 : Sections[i] \in Component
    BY Layout
  <2>2. \A s \in Setting : Of(s) \in Component
    BY EveryPlace
  <2>3. QED BY <1>3, <2>1, <2>2, Layout DEF InOrder
<1>4. ASSUME UNCHANGED chain PROVE InOrder'
  BY <1>3, <1>4 DEF chain, Has
<1>5. CASE UpgradeIfRequested
  <2>1. C \in Component /\ Has(C)
    BY <1>5, Here DEF UpgradeIfRequested, At, PositionOK
  <2>2. \A c \in Component : Has(c)' <=> Has(c)
    BY <1>5, <2>1, StackConstants DEF UpgradeIfRequested, Has, TypeOK
  <2>3. QED BY <1>3, <1>5, <2>2 DEF UpgradeIfRequested
<1>6. CASE Send
  <2>1. S \in Setting /\ Has(Of(S))
    BY <1>6, Here DEF Send, At, PositionOK, Reached
  <2>2. impl' = impl /\ \A s \in Setting : s # S => holds'[s] = holds[s]
    BY <1>6, <2>1 DEF Send, TypeOK
  <2>3. QED BY <1>3, <2>1, <2>2 DEF Has
<1>7. CASE OwnerSets
  <2>1. PICK t \in Setting : Has(Of(t)) /\ holds' = [holds EXCEPT ![t] = {Elsewhere}]
    BY <1>7 DEF OwnerSets
  <2>2. impl' = impl /\ \A s \in Setting : s # t => holds'[s] = holds[s]
    BY <1>7, <2>1 DEF OwnerSets, TypeOK
  <2>3. QED BY <1>3, <2>1, <2>2 DEF Has
<1>8. CASE Start \/ Settle \/ Read \/ CountUpgrades \/ Abort \/ EditFile \/ UNCHANGED vars
  BY <1>4, <1>8 DEF Start, Settle, Begin, Read, CountUpgrades, Abort, EditFile, vars
<1>9. CASE Deploy /\ ~Deployed(C)
  BY <1>4, <1>9 DEF Deploy
<1>10. QED BY <1>1, <1>2, <1>5, <1>6, <1>7, <1>8, <1>9 DEF Next, Step

\* A run moves to the next setting, the next section or its end.
LEMMA PositionStep ==
  ASSUME TypeOK, PositionOK, [Next]_vars
  PROVE  PositionOK'
<1> USE DEF PositionOK
<1>1. /\ sec \in 1 .. 6 /\ C \in Component /\ C = Sections[sec]
      /\ Many(sec) \in 0 .. 3 /\ Len(SettingsOf[C]) = Many(sec)
      /\ (SettingsOf[C] = <<>>) = (Many(sec) = 0)
      /\ pc \in {"read", "send"} => pos \in 1 .. Many(sec)
  BY Here
<1>2. Len(Sections) = 6 /\ \A i \in 1 .. 6 : Sections[i] \in Component
  BY Layout
<1>3. /\ \A c \in Component : Has(c) => Has(c)'
      /\ C' = Sections[sec']
  BY Grows DEF C
<1>4. ASSUME sec' = sec, pos' = pos, pc' = pc PROVE PositionOK'
  <2>1. C' = C
    BY <1>4 DEF C
  <2>2. \A i \in 1 .. sec - 1 : i \in 1 .. 6
    BY <1>1
  <2>3. QED BY <1>1, <1>2, <1>3, <1>4, <2>1, <2>2
<1>5. ASSUME pc \in {"upgrade", "read", "send"}, NextSection PROVE PositionOK'
  <2>1. \A i \in 1 .. sec : Has(Sections[i])'
    <3>1. \A i \in 1 .. sec : i \in 1 .. 6 /\ (i \in 1 .. sec - 1 \/ i = sec)
      BY <1>1
    <3>2. \A i \in 1 .. sec : Has(Sections[i])
      BY <1>1, <1>5, <3>1 DEF Running, Reached
    <3>3. QED BY <1>2, <1>3, <3>1, <3>2
  <2>2. CASE sec = 6
    <3>1. pc' = "count" /\ sec' = sec /\ pos' = 1
      BY <1>2, <1>5, <2>2 DEF NextSection
    <3>2. Has(C)' /\ \A i \in 1 .. sec' - 1 : Has(Sections[i])'
      BY <1>1, <1>3, <2>1, <3>1 DEF Has
    <3>3. QED BY <1>2, <2>2, <3>1, <3>2
  <2>3. CASE sec # 6
    <3>1. pc' = "code" /\ sec' = sec + 1 /\ pos' = 1
      BY <1>2, <1>5, <2>3 DEF NextSection
    <3>2. \A i \in 1 .. sec' - 1 : Has(Sections[i])'
      BY <1>1, <2>1, <3>1
    <3>3. QED BY <3>1, <3>2 DEF Reached
  <2>4. QED BY <2>2, <2>3
<1>6. ASSUME pc \in {"code", "upgrade", "read", "send"}, sec' = sec,
             pc' \in {"upgrade", "read", "send"}, Has(C)', pc' = "upgrade" => pos' = 1,
             pc' \in {"read", "send"} => pos' \in 1 .. Many(sec)
      PROVE  PositionOK'
  <2>1. C' = C /\ Len(SettingsOf[C])' = Many(sec)
    BY <1>1, <1>6 DEF C
  <2>2. \A i \in 1 .. sec - 1 : i \in 1 .. 6 /\ Has(Sections[i])
    BY <1>1, <1>6 DEF Running
  <2>3. QED BY <1>2, <1>3, <1>6, <2>1, <2>2
<1>7. ASSUME pc' \in {"idle", "refused", "miscounted", "crashed"} PROVE PositionOK'
  BY <1>7 DEF Running, Reached
<1>8. CASE Start \/ Settle
  <2>1. pc' = "code" /\ sec' = 1 /\ pos' = 1
    BY <1>8 DEF Start, Settle, Begin
  <2>2. QED BY <2>1 DEF Reached
<1>9. CASE Deploy
  <2>1. pc = "code" /\ (pc' = "refused" \/ (Goto("upgrade") /\ (Has(C) \/ Deployed(C))))
    BY <1>9 DEF Deploy, At, Goto
  <2>2. CASE Goto("upgrade") /\ (Has(C) \/ Deployed(C))
    <3>1. Has(C)'
      <4>1. CASE Has(C)
        <5>1. C' = C
          BY <2>2 DEF Goto, C
        <5>2. QED BY <1>1, <1>3, <4>1, <5>1 DEF Has
      <4>2. CASE Deployed(C)
        <5>1. C' = C
          BY <2>2 DEF Goto, C
        <5>2. QED BY <1>1, <4>2, <5>1, DeployedIs, StackConstants DEF Has
      <4>3. QED BY <2>2, <4>1, <4>2
    <3>2. QED BY <1>6, <2>1, <2>2, <3>1 DEF Goto
  <2>3. QED BY <1>7, <2>1, <2>2
<1>10. CASE UpgradeIfRequested
  <2>1. pc = "upgrade"
    BY <1>10 DEF UpgradeIfRequested, At
  <2>2. CASE SettingsOf[C] = <<>>
    BY <1>5, <1>10, <2>1, <2>2 DEF UpgradeIfRequested
  <2>3. CASE SettingsOf[C] # <<>>
    <3>1. pc' = "read" /\ sec' = sec /\ pos' = 1 /\ 1 \in 1 .. Many(sec)
      BY <1>1, <1>10, <2>1, <2>3 DEF UpgradeIfRequested, Goto
    <3>2. Has(C)'
      <4>1. C' = C /\ Has(C)
        BY <2>1, <3>1 DEF C
      <4>2. QED BY <1>1, <1>3, <4>1 DEF Has
    <3>3. QED BY <1>6, <2>1, <3>1, <3>2
  <2>4. QED BY <2>2, <2>3
<1>11. CASE Read \/ Send
  <2>1. pc \in {"read", "send"} /\ Has(C)
    BY <1>11 DEF Read, Send, At, Reached
  <2>2. sec' = sec => Has(C)'
    <3>1. sec' = sec => C' = C
      BY DEF C
    <3>2. QED BY <1>1, <1>3, <2>1, <3>1 DEF Has
  <2>3. \/ NextSection
        \/ pc' = "read" /\ sec' = sec /\ pos' = pos + 1 /\ pos < Many(sec)
        \/ pc' = "send" /\ sec' = sec /\ pos' = pos
        \/ pc' = "refused"
    BY <1>1, <1>11 DEF Read, Send, NextSetting, Goto
  <2>4. CASE NextSection
    BY <1>5, <2>1, <2>4
  <2>5. CASE pc' = "read" /\ sec' = sec /\ pos' = pos + 1 /\ pos < Many(sec)
    <3>1. pos' \in 1 .. Many(sec)
      BY <1>1, <2>1, <2>5
    <3>2. QED BY <1>6, <2>1, <2>2, <2>5, <3>1
  <2>6. CASE pc' = "send" /\ sec' = sec /\ pos' = pos
    BY <1>1, <1>6, <2>1, <2>2, <2>6
  <2>7. QED BY <1>7, <2>3, <2>4, <2>5, <2>6
<1>12. CASE CountUpgrades
  <2>1. pc = "count" /\ pc' \in {"done", "miscounted"} /\ sec' = sec /\ pos' = pos
    BY <1>12 DEF CountUpgrades, At, Goto
  <2>2. C' = C
    BY <2>1 DEF C
  <2>3. \A i \in 1 .. sec - 1 : i \in 1 .. 6 /\ Has(Sections[i])
    BY <1>1, <2>1 DEF Running, Reached
  <2>4. pc' = "done" => PositionOK'
    BY <1>1, <1>2, <1>3, <2>1, <2>2, <2>3 DEF Running, Reached, Has
  <2>5. QED BY <1>7, <2>1, <2>4
<1>13. CASE Abort \/ EditFile
  BY <1>7, <1>13 DEF Abort, EditFile, Goto
<1>14. CASE OwnerSets \/ OtherDeploys \/ UNCHANGED vars
  BY <1>4, <1>14 DEF OwnerSets, OtherDeploys, Interfere, run, vars
<1>15. QED BY <1>8, <1>9, <1>10, <1>11, <1>12, <1>13, <1>14 DEF Next, Step

-----------------------------------------------------------------------------
\* What stays behind when neither the run nor the file moves.
LEMMA Unmoved ==
  ASSUME UNCHANGED <<pc, sec, pos>>
  PROVE  Behind' = Behind /\ C' = C /\ S' = S
BY BehindIsPast DEF C, S

\* Nothing is behind a run that begins.
LEMMA Begun == ASSUME NEW u, Begin(u) PROVE Behind' = {}
<1>1. pc' = "code" /\ sec' = 1 /\ pos' = 1
  BY DEF Begin
<1>2. Past("code", 1, 1) = {}
  BY DEF Past
<1>3. QED BY <1>1, <1>2, BehindIsPast

\* What a step of the run leaves in place.
LEMMA RunKeeps ==
  ASSUME Step
  PROVE  file' = file /\ lacks' = lacks /\ ups' = ups /\ warned' = warned
         /\ foreseen' = foreseen /\ touched' = touched
BY DEF Step, Deploy, UpgradeIfRequested, Read, Send, CountUpgrades, Kept

\* A setting nobody touched matches as before.
LEMMA Same ==
  ASSUME file' = file, NEW s, holds'[s] = holds[s]
  PROVE  Matches(s)' <=> Matches(s)
BY DEF Matches, Asked, Declared

\* A setting gets behind a run only as the file says.
LEMMA BehindStep ==
  ASSUME TypeOK, PositionOK, BehindOK, [Next]_vars
  PROVE  BehindOK'
<1> USE DEF BehindOK
<1>1. CASE Start \/ Settle
  <2>1. Behind' = {}
    BY <1>1, Begun DEF Start, Settle
  <2>2. QED BY <2>1
<1>2. ASSUME Step, pc \in Running, Behind' \in {Behind, Behind \cup {C}}, touched' = touched,
             \A s \in Setting : s \in Behind => holds'[s] = holds[s]
      PROVE  BehindOK'
  <2>1. C \notin Setting
    BY Here, Apart
  <2>2. file' = file
    BY <1>2, RunKeeps
  <2>3. QED BY <1>2, <2>1, <2>2, Same
<1>3. CASE Deploy
  <2>1. pc = "code" /\ (pc' = "refused" \/ Goto("upgrade")) /\ touched' = touched
    BY <1>3 DEF Deploy, At, Goto, Kept
  <2>2. \A s \in Setting : s \in Behind => holds'[s] = holds[s]
    <3>1. \A s \in Setting : s \in Behind => Of(s) # C
      BY <2>1, Ahead DEF Running
    <3>2. C \in Component
      BY Here
    <3>3. QED BY <1>3, <3>1, <3>2, DeployedIs DEF Deploy, chain
  <2>3. CASE Goto("upgrade")
    BY <1>2, <1>3, <2>1, <2>2, <2>3, Moves DEF Running, Step
  <2>4. QED BY <2>1, <2>3 DEF Running, Reached
<1>4. CASE UpgradeIfRequested
  <2>1. pc = "upgrade" /\ touched' = touched /\ holds' = holds
    BY <1>4 DEF UpgradeIfRequested, At, Kept
  <2>2. Behind' = Behind
    BY <1>4, <2>1, Moves DEF UpgradeIfRequested
  <2>3. QED BY <1>2, <1>4, <2>1, <2>2 DEF Running, Step
<1>5. CASE Read
  <2>1. pc = "read" /\ touched' = touched /\ holds' = holds /\ file' = file
    BY <1>5 DEF Read, At, Kept, chain
  <2>2. (NextSetting /\ Matches(S)) \/ pc' = "refused" \/ Goto("send")
    BY <1>5 DEF Read, Goto, Matches
  <2>3. CASE NextSetting /\ Matches(S)
    <3>1. Behind' = Behind \cup {S}
      BY <2>1, <2>3, Moves
    <3>2. QED BY <2>1, <2>3, <3>1, Same DEF Running
  <2>4. CASE Goto("send")
    BY <1>2, <1>5, <2>1, <2>4, Moves DEF Running, Step
  <2>5. QED BY <2>2, <2>3, <2>4 DEF Running, Reached
<1>6. CASE Send
  <2>1. pc = "send" /\ touched' = touched /\ file' = file /\ S \in Setting
    BY <1>6, Here DEF Send, At, Kept
  <2>2. Behind' = Behind \cup {S}
    BY <1>6, <2>1, Moves DEF Send
  <2>3. Declared(S) \in holds'[S] /\ \A s \in Setting : s # S => holds'[s] = holds[s]
    BY <1>6, <2>1 DEF Send, TypeOK
  <2>4. ASSUME "owner" \notin touched, NEW s \in Setting, s \in Behind' PROVE Matches(s)'
    <3>1. CASE s = S
      <4>1. Declared(s)' = Declared(S)
        BY <2>1, <3>1 DEF Declared
      <4>2. Declared(s)' \in holds'[s]
        BY <2>3, <3>1, <4>1
      <4>3. QED BY <4>2 DEF Matches
    <3>2. CASE s # S
      BY <2>1, <2>2, <2>3, <2>4, <3>2, Same DEF Running
    <3>3. QED BY <3>1, <3>2
  <2>5. QED BY <2>1, <2>4
<1>7. CASE CountUpgrades
  <2>1. pc = "count" /\ touched' = touched /\ holds' = holds
    BY <1>7 DEF CountUpgrades, At, Kept, chain
  <2>2. pc' = "miscounted" \/ Goto("done")
    BY <1>7 DEF CountUpgrades, Goto
  <2>3. CASE Goto("done")
    BY <1>2, <1>7, <2>1, <2>3, Moves DEF Running, Step
  <2>4. QED BY <2>2, <2>3 DEF Running, Reached
<1>8. CASE Abort \/ EditFile
  BY <1>8 DEF Abort, EditFile, Goto, Running, Reached
<1>9. CASE OwnerSets
  BY <1>9 DEF OwnerSets, Interfere
<1>10. CASE OtherDeploys
  <2>1. PICK i \in 1 .. 6 : ~Has(Sections[i]) /\ Deployed(Sections[i])
    BY <1>10, Layout DEF OtherDeploys
  <2>2. UNCHANGED <<pc, sec, pos, file>> /\ touched \subseteq touched'
    BY <1>10 DEF OtherDeploys, Interfere, run
  <2>3. ASSUME pc \in Running \cup {"done"}, NEW s \in Setting, s \in Behind
        PROVE  Matches(s)' <=> Matches(s)
    <3>1. Of(s) # Sections[i]
      BY <2>1, <2>3, Ahead
    <3>2. holds'[s] = holds[s]
      BY <2>1, <3>1, Layout, DeployedIs
    <3>3. QED BY <2>2, <3>2, Same
  <2>4. QED BY <2>2, <2>3, Unmoved
<1>11. CASE UNCHANGED vars
  <2>1. UNCHANGED <<pc, sec, pos, file, touched, holds>>
    BY <1>11 DEF vars, run, chain
  <2>2. QED BY <2>1, Unmoved, Same
<1>12. QED BY <1>1, <1>3, <1>4, <1>5, <1>6, <1>7, <1>8, <1>9, <1>10, <1>11 DEF Next, Step

\* A setting is sent only as it was read.
LEMMA AtSettingStep ==
  ASSUME TypeOK, PositionOK, AtSetting, [Next]_vars
  PROVE  AtSetting'
<1> USE DEF AtSetting
<1>1. \A c \in Component : impl[c] = "new" => impl'[c] = "new"
  BY Grows
<1>2. C \in Component /\ (pc \in {"read", "send"} => S \in Setting /\ Of(S) = C)
  BY Here
<1>3. ASSUME pc' \notin {"read", "send"} PROVE AtSetting'
  BY <1>3
<1>4. CASE Start \/ Settle \/ Deploy \/ CountUpgrades \/ Abort \/ EditFile
  BY <1>3, <1>4 DEF Start, Settle, Begin, Deploy, CountUpgrades, Abort, EditFile, Goto
<1>5. CASE UpgradeIfRequested
  <2>1. NextSection => pc' \notin {"read", "send"}
    BY DEF NextSection
  <2>2. CASE Goto("read")
    <3>1. ups' = ups /\ pc' = "read" /\ C' = C /\ (Times(C) > 0 => impl'[C] = "new")
      BY <1>2, <1>5, <2>2 DEF UpgradeIfRequested, Kept, Goto, C, TypeOK
    <3>2. Times(C)' = Times(C)
      BY <3>1 DEF Times
    <3>3. QED BY <3>1, <3>2
  <2>3. QED BY <1>3, <1>5, <2>1, <2>2 DEF UpgradeIfRequested
<1>6. CASE Read \/ Send
  <2>1. pc \in {"read", "send"} /\ ups' = ups /\ touched' = touched /\ impl' = impl
        /\ file' = file /\ lacks' = lacks
    BY <1>6 DEF Read, Send, At, Kept, chain
  <2>2. \/ pc' \notin {"read", "send"}
        \/ pc' = "read" /\ sec' = sec
        \/ Goto("send") /\ Read
    BY <1>6 DEF Read, Send, NextSetting, NextSection, Goto
  <2>3. sec' = sec => C' = C /\ Times(C)' = Times(C)
    BY <2>1 DEF C, Times
  <2>4. CASE pc' = "read" /\ sec' = sec
    BY <2>1, <2>3, <2>4
  <2>5. CASE Goto("send") /\ Read
    <3>1. pc' = "send" /\ pc = "read" /\ sec' = sec /\ pos' = pos /\ holds' = holds
      BY <2>5 DEF Goto, Read, At, chain
    <3>2. Asked(S) /\ S # "registry" /\ Answers(S, C) /\ ~Matches(S)
      BY <2>5, <3>1 DEF Goto, Read, NextSetting, NextSection
    <3>3. S' = S /\ C' = C
      BY <3>1 DEF S, C
    <3>4. Asked(S)' /\ S' # "registry" /\ Answers(S, C)' /\ ~Matches(S)'
      BY <2>1, <3>1, <3>2, <3>3 DEF Asked, Answers, Matches, Declared
    <3>5. QED BY <2>1, <2>3, <3>1, <3>4
  <2>6. QED BY <1>3, <2>2, <2>4, <2>5
<1>7. CASE OwnerSets \/ OtherDeploys \/ UNCHANGED vars
  <2>1. UNCHANGED <<pc, sec, pos, ups, file, lacks>>
    BY <1>7 DEF OwnerSets, OtherDeploys, Interfere, run, vars
  <2>2. C' = C /\ S' = S /\ Times(C)' = Times(C)
    BY <2>1, Unmoved DEF Times
  <2>3. Answers(S, C) => Answers(S, C)'
    <3>1. impl'[C] = impl[C] \/ impl'[C] = "new"
      <4>1. CASE OtherDeploys
        BY <1>2, <4>1, Layout, DeployedIs DEF OtherDeploys
      <4>2. QED BY <1>7, <4>1 DEF OwnerSets, vars, chain
    <3>2. QED BY <2>1, <2>2, <3>1 DEF Answers
  <2>4. Asked(S)' <=> Asked(S)
    BY <2>1, <2>2 DEF Asked
  <2>5. touched' = {} => touched = {} /\ (Matches(S)' <=> Matches(S))
    <3>1. touched' = {} => UNCHANGED vars
      BY <1>7 DEF OwnerSets, OtherDeploys, Interfere
    <3>2. UNCHANGED vars => touched' = touched /\ (Matches(S)' <=> Matches(S))
      BY <2>2 DEF vars, run, chain, Matches, Asked, Declared
    <3>3. QED BY <3>1, <3>2
  <2>6. QED BY <1>1, <1>2, <2>1, <2>2, <2>3, <2>4, <2>5
<1>8. QED BY <1>4, <1>5, <1>6, <1>7 DEF Next, Step

-----------------------------------------------------------------------------
\* What Line says, by what it reads.
LEMMA LineIs ==
  ASSUME NEW s \in Setting
  PROVE  /\ Line(s) = "warn" <=> /\ s # "roots" /\ Has(Of(s)) /\ Asked(s)
                                 /\ ~Answers(s, Of(s)) \/ (s = "registry" /\ ~Matches(s))
         /\ Line(s) = "configure" <=> /\ s # "roots" /\ Has(Of(s)) /\ Asked(s)
                                      /\ Answers(s, Of(s)) /\ ~Matches(s) /\ s # "registry"
BY DEF Line

\* Neither does plan's line about it change.
LEMMA SameLine ==
  ASSUME NEW s \in Setting, file' = file, lacks' = lacks, impl'[Of(s)] = impl[Of(s)],
         holds'[s] = holds[s]
  PROVE  /\ Line(s)' = Line(s) /\ (Has(Of(s))' <=> Has(Of(s)))
         /\ (Asked(s)' <=> Asked(s)) /\ (Matches(s)' <=> Matches(s))
         /\ Declared(s)' = Declared(s) /\ Initialized(s)' = Initialized(s)
<1>1. /\ (Asked(s)' <=> Asked(s)) /\ Declared(s)' = Declared(s)
  BY DEF Asked, Declared
<1>2. /\ (Has(Of(s))' <=> Has(Of(s))) /\ (Matches(s)' <=> Matches(s))
      /\ (Answers(s, Of(s))' <=> Answers(s, Of(s))) /\ Initialized(s)' = Initialized(s)
  BY <1>1 DEF Has, Matches, Answers, Initialized
<1>3. Line(s)' = Line(s)
  BY <1>1, <1>2 DEF Line
<1>4. QED BY <1>1, <1>2, <1>3

\* What the plan tells as a run begins.
LEMMA ToldBegun ==
  ASSUME NEW u, Begin(u)
  PROVE  Told'
<1>1. /\ Behind' = {} /\ sent' = {} /\ foreseen' = Foreseen /\ warned' = Warned
      /\ UNCHANGED <<file, lacks, impl, holds>>
  BY Begun DEF Begin, chain
<1>2. "roots" \notin Foreseen /\ "roots" \in Setting
  <2>1. "roots" \in Setting /\ "roots" \notin Component
    BY Layout DEF Setting, Pointer
  <2>2. Line("roots") # "configure"
    BY <2>1, LineIs
  <2>3. QED BY <2>1, <2>2 DEF Foreseen
<1>3. ASSUME NEW c \in Component PROVE ToldProxy(c)'
  <2>1. c \in Foreseen <=> ~Has(c)
    BY Apart DEF Foreseen, CodeLine
  <2>2. Has(c)' <=> Has(c)
    BY <1>1 DEF Has
  <2>3. QED BY <1>1, <2>1, <2>2 DEF ToldProxy
<1>4. ASSUME NEW s \in Setting PROVE ToldSetting(s)'
  <2>1. /\ Line(s)' = Line(s) /\ (Has(Of(s))' <=> Has(Of(s)))
        /\ (Asked(s)' <=> Asked(s)) /\ (Matches(s)' <=> Matches(s))
        /\ Declared(s)' = Declared(s) /\ Initialized(s)' = Initialized(s)
    BY <1>1, SameLine
  <2>2. s \in Warned <=> Line(s) = "warn"
    BY DEF Warned
  <2>3. /\ s \in Foreseen <=> Line(s) = "configure"
        /\ Of(s) \in Foreseen <=> ~Has(Of(s))
    BY Apart, EveryPlace DEF Foreseen, CodeLine
  <2>4. Of(s) \in Foreseen => s \notin Foreseen
    BY <2>3, LineIs
  <2>5. ASSUME s \notin Warned \cup {"roots"}, Has(Of(s))
        PROVE  Line(s) # "warn" /\ (s \in Foreseen <=> Asked(s) /\ ~Matches(s))
    BY <2>2, <2>3, <2>5, LineIs
  <2>6. QED BY <1>1, <2>1, <2>2, <2>3, <2>4, <2>5 DEF ToldSetting
<1>5. QED BY <1>1, <1>2, <1>3, <1>4 DEF Told

\* What a step leaves told of a setting it does not come to.
LEMMA ToldStays ==
  ASSUME NEW s \in Setting, ToldSetting(s), file' = file, lacks' = lacks, ups' = ups,
         warned' = warned, foreseen' = foreseen,
         impl'[Of(s)] = impl[Of(s)], holds'[s] = holds[s],
         s \in Behind' <=> s \in Behind, s \in sent' <=> s \in sent
  PROVE  ToldSetting(s)'
<1>1. /\ Line(s)' = Line(s) /\ (Has(Of(s))' <=> Has(Of(s)))
      /\ (Asked(s)' <=> Asked(s)) /\ (Matches(s)' <=> Matches(s))
      /\ Declared(s)' = Declared(s) /\ Initialized(s)' = Initialized(s)
  BY SameLine
<1>2. Times(Of(s))' = Times(Of(s))
  BY DEF Times
<1>3. QED BY <1>1, <1>2 DEF ToldSetting

\* A proxy is deployed exactly where plan said so.
LEMMA ToldDeploy ==
  ASSUME TypeOK, PositionOK, Told, Deploy, touched' = {}, pc' \in Running \cup {"done"}
  PROVE  /\ \A c \in Component : ToldProxy(c)'
         /\ \A s \in Setting : ToldSetting(s)'
<1>1. /\ pc = "code" /\ Goto("upgrade") /\ file' = file /\ lacks' = lacks /\ ups' = ups
      /\ warned' = warned /\ foreseen' = foreseen /\ touched = {}
  BY DEF Deploy, At, Goto, Kept, Running, Reached
<1>2. /\ \A c \in Component : ToldProxy(c)
      /\ \A s \in Setting : ToldSetting(s)
  BY <1>1 DEF Told, Running
<1>3. C \in Component /\ C \notin Behind /\ Behind' = Behind \cup {C}
      /\ \A s \in Setting : Of(s) = C => s \notin Behind
  BY <1>1, Here, Ahead, Moves DEF Running
<1>4. \A s \in Setting : s # C /\ Of(s) \in Component
  BY <1>3, Apart, EveryPlace
<1>5. CASE Has(C)
  <2>1. impl' = impl /\ holds' = holds /\ sent' = sent
    BY <1>1, <1>5 DEF Deploy, chain, Goto
  <2>2. \A c \in Component : ToldProxy(c)'
    BY <1>1, <1>2, <1>3, <1>5, <2>1 DEF ToldProxy, Has
  <2>3. \A s \in Setting : ToldSetting(s)'
    BY <1>1, <1>2, <1>3, <1>4, <2>1, ToldStays
  <2>4. QED BY <2>2, <2>3
<1>6. CASE ~Has(C)
  <2>1. Deployed(C) /\ sent' = sent \cup {C}
    BY <1>1, <1>6 DEF Deploy, Goto
  <2>2. /\ impl'[C] = "new" /\ \A d \in Component : d # C => impl'[d] = impl[d]
        /\ \A s \in Setting : Of(s) = C => holds'[s] = Initialized(s)
        /\ \A s \in Setting : Of(s) # C => holds'[s] = holds[s]
    BY <1>3, <2>1, DeployedIs
  <2>3. \A c \in Component : ToldProxy(c)'
    BY <1>1, <1>2, <1>3, <1>6, <2>1, <2>2 DEF ToldProxy, Has
  <2>4. ASSUME NEW s \in Setting, Of(s) # C PROVE ToldSetting(s)'
    BY <1>1, <1>2, <1>3, <1>4, <2>1, <2>2, <2>4, ToldStays
  <2>5. ASSUME NEW s \in Setting, Of(s) = C PROVE ToldSetting(s)'
    <3>1. /\ s \notin Behind /\ s \notin Behind' /\ s \notin sent /\ s \notin sent'
      BY <1>2, <1>3, <1>4, <2>1, <2>5 DEF ToldSetting
    <3>2. ~(Line(s) = "warn")
      BY <1>6, <2>5, LineIs
    <3>3. Times(Of(s))' = Times(Of(s))
      BY <1>1 DEF Times
    <3>4. Has(Of(s))' /\ Answers(s, Of(s))'
      BY <2>2, <2>5, StackConstants DEF Has, Answers
    <3>5. /\ Asked(s)' <=> Asked(s)
          /\ Matches(s)' <=> (Asked(s) => Declared(s) \in Initialized(s))
      BY <1>1, <2>2, <2>5 DEF Asked, Matches, Declared
    <3>6. s \notin Unwritten => Matches(s)'
      BY <3>5 DEF Initialized, Unwritten
    <3>7. Line(s)' # "warn"
      BY <3>4, <3>6, LineIs DEF Line, Unwritten
    <3>8. C \in foreseen
      BY <1>2, <1>3, <1>6 DEF ToldProxy
    <3>9. ~(s \in warned /\ Times(Of(s)) = 0) /\ s \notin foreseen
      BY <1>2, <2>5, <3>1, <3>2, <3>8 DEF ToldSetting
    <3>10. QED BY <1>1, <2>5, <3>1, <3>3, <3>6, <3>7, <3>8, <3>9 DEF ToldSetting
  <2>6. QED BY <2>3, <2>4, <2>5
<1>7. QED BY <1>5, <1>6

\* An upgrade makes the settings answer that plan warned of.
LEMMA ToldUpgrade ==
  ASSUME TypeOK, PositionOK, Told, UpgradeIfRequested, touched' = {}
  PROVE  /\ \A c \in Component : ToldProxy(c)'
         /\ \A s \in Setting : ToldSetting(s)'
<1>1. /\ pc = "upgrade" /\ file' = file /\ lacks' = lacks /\ ups' = ups /\ holds' = holds
      /\ warned' = warned /\ foreseen' = foreseen /\ touched = {} /\ sent' = sent
  BY DEF UpgradeIfRequested, At, Kept
<1>2. /\ \A c \in Component : ToldProxy(c)
      /\ \A s \in Setting : ToldSetting(s)
  BY <1>1 DEF Told, Running
<1>3. C \in Component /\ Behind' = Behind /\ Has(C)
      /\ \A s \in Setting : Of(s) = C => s \notin Behind
  BY <1>1, Here, Ahead, Moves DEF Running, UpgradeIfRequested
<1>4. \A d \in Component : impl'[d] = (IF d = C /\ Times(C) > 0 THEN "new" ELSE impl[d])
  BY <1>3 DEF UpgradeIfRequested, TypeOK
<1>5. \A d \in Component : Has(d)' <=> Has(d)
  BY <1>3, <1>4, StackConstants DEF Has
<1>6. \A c \in Component : ToldProxy(c)'
  BY <1>1, <1>2, <1>3, <1>5 DEF ToldProxy
<1>7. ASSUME NEW s \in Setting PROVE ToldSetting(s)'
  <2>1. Of(s) \in Component
    BY EveryPlace
  <2>2. CASE ~(Of(s) = C /\ Times(C) > 0)
    <3>1. impl'[Of(s)] = impl[Of(s)]
      BY <1>4, <2>1, <2>2
    <3>2. QED BY <1>1, <1>2, <1>3, <3>1, ToldStays
  <2>3. CASE Of(s) = C /\ Times(C) > 0
    <3>1. s \notin Behind /\ s \notin Behind' /\ s \notin sent'
      BY <1>1, <1>2, <1>3, <2>3 DEF ToldSetting
    <3>2. Times(Of(s))' = Times(Of(s)) /\ Times(Of(s)) # 0
      BY <1>1, <2>3, TimesIs DEF Times
    <3>3. Has(Of(s))' /\ Answers(s, Of(s))' /\ Has(Of(s))
      BY <1>3, <1>4, <1>5, <2>3 DEF Answers
    <3>4. /\ Asked(s)' <=> Asked(s)
          /\ Matches(s)' <=> Matches(s)
      BY <1>1, Same DEF Asked
    <3>5. s \notin warned \cup {"roots"} => Line(s)' # "warn"
      BY <1>2, <2>3, <3>1, <3>3, <3>4, LineIs DEF ToldSetting, Line
    <3>6. QED BY <1>1, <1>2, <3>1, <3>2, <3>3, <3>4, <3>5 DEF ToldSetting
  <2>4. QED BY <2>2, <2>3
<1>8. QED BY <1>6, <1>7

\* A setting the run has come past: what it came to there, the plan told.
LEMMA ToldPast ==
  ASSUME TypeOK, PositionOK, Told, pc \in {"read", "send"}, touched = {}, Step, NextSetting,
         sent' \in {sent, sent \cup {S}},
         \A c \in Component : impl'[c] = impl[c],
         \A s \in Setting : s # S => holds'[s] = holds[s],
         S \in warned => Times(Of(S)) > 0,
         IF C \in foreseen THEN S \in sent' => S \in Unwritten
                           ELSE S \notin warned \cup {"roots"} => (S \in sent' <=> S \in foreseen)
  PROVE  /\ \A c \in Component : ToldProxy(c)'
         /\ \A s \in Setting : ToldSetting(s)'
<1>1. /\ file' = file /\ lacks' = lacks /\ ups' = ups /\ warned' = warned /\ foreseen' = foreseen
  BY RunKeeps
<1>2. /\ \A c \in Component : ToldProxy(c)
      /\ \A s \in Setting : ToldSetting(s)
  BY DEF Told, Running
<1>3. S \in Setting /\ Of(S) = C /\ Behind' = Behind \cup {S}
  BY Here, Moves
<1>4. \A c \in Component : ToldProxy(c)'
  <2>1. S \notin Component
    BY <1>3, Apart
  <2>2. QED BY <1>1, <1>2, <1>3, <2>1 DEF ToldProxy, Has
<1>5. ASSUME NEW s \in Setting, s # S PROVE ToldSetting(s)'
  <2>1. Of(s) \in Component
    BY EveryPlace
  <2>2. QED BY <1>1, <1>2, <1>3, <1>5, <2>1, ToldStays
<1>6. ToldSetting(S)
  BY <1>2, <1>3
<1>7. ASSUME NEW s \in Setting, s = S PROVE ToldSetting(s)'
  <2>1. Times(Of(s))' = Times(Of(s))
    BY <1>1 DEF Times
  <2>2. s \in Behind'
    BY <1>3, <1>7
  <2>3. /\ s \in warned' => Times(Of(s))' > 0
        /\ IF Of(s) \in foreseen'
           THEN s \in sent' => s \in Unwritten
           ELSE s \notin warned' \cup {"roots"} => (s \in sent' <=> s \in foreseen')
    BY <1>1, <1>3, <1>7, <2>1
  <2>4. Of(s) \in foreseen' => s \notin foreseen'
    BY <1>1, <1>6, <1>7 DEF ToldSetting
  <2>5. QED BY <2>2, <2>3, <2>4 DEF ToldSetting
<1>8. QED BY <1>4, <1>5, <1>7

\* A setting left as it is was no line of plan's.
LEMMA ToldRead ==
  ASSUME TypeOK, PositionOK, Told, Read, touched' = {}, pc' \in Running \cup {"done"}
  PROVE  /\ \A c \in Component : ToldProxy(c)'
         /\ \A s \in Setting : ToldSetting(s)'
<1>1. /\ pc = "read" /\ file' = file /\ lacks' = lacks /\ ups' = ups /\ holds' = holds
      /\ warned' = warned /\ foreseen' = foreseen /\ touched = {} /\ sent' = sent /\ impl' = impl
  BY DEF Read, At, Kept, chain
<1>2. /\ \A c \in Component : ToldProxy(c)
      /\ \A s \in Setting : ToldSetting(s)
  BY <1>1 DEF Told, Running
<1>3. S \in Setting /\ S \notin Behind /\ Of(S) = C /\ C \in Component /\ Has(C)
  BY <1>1, Here, Ahead DEF Running, PositionOK, Reached
<1>4. CASE Goto("send")
  <2>1. Behind' = Behind
    BY <1>1, <1>4, Moves
  <2>2. \A c \in Component : ToldProxy(c)'
    BY <1>1, <1>2, <2>1 DEF ToldProxy, Has
  <2>3. \A s \in Setting : ToldSetting(s)'
    BY <1>1, <1>2, <2>1, ToldStays
  <2>4. QED BY <2>2, <2>3
<1>5. CASE ~Goto("send")
  <2>1. NextSetting /\ (~Asked(S) \/ (Asked(S) /\ Answers(S, C) /\ Matches(S)))
    BY <1>1, <1>5 DEF Read, Goto, Running, Reached
  <2>2. Line(S) # "warn"
    BY <1>3, <2>1, LineIs
  <2>3. ToldSetting(S) /\ S \notin sent
    BY <1>2, <1>3 DEF ToldSetting
  <2>4. S \in warned => Times(Of(S)) > 0
    <3>1. Times(Of(S)) \in Nat
      BY TimesIs
    <3>2. S \in warned => Times(Of(S)) # 0
      BY <1>3, <2>2, <2>3 DEF ToldSetting
    <3>3. QED BY <3>1, <3>2
  <2>5. IF C \in foreseen THEN S \in sent' => S \in Unwritten
                          ELSE S \notin warned \cup {"roots"} => (S \in sent' <=> S \in foreseen)
    BY <1>1, <1>3, <2>1, <2>3 DEF ToldSetting, Matches
  <2>6. Step
    BY DEF Step
  <2>7. QED BY <1>1, <2>1, <2>4, <2>5, <2>6, ToldPast
<1>6. QED BY <1>4, <1>5

\* One that is sent was foreseen, hidden by a warning, or the roots.
LEMMA ToldSend ==
  ASSUME TypeOK, PositionOK, AtSetting, Told, Send, touched' = {}
  PROVE  /\ \A c \in Component : ToldProxy(c)'
         /\ \A s \in Setting : ToldSetting(s)'
<1>1. pc = "send" /\ touched = {} /\ NextSetting /\ impl' = impl /\ sent' = sent \cup {S}
  BY DEF Send, At, Kept
<1>2. S \in Setting /\ S \notin Behind /\ Of(S) = C /\ Has(C) /\ ToldSetting(S)
  BY <1>1, Here, Ahead DEF Running, PositionOK, Reached, Told
<1>3. Asked(S) /\ S # "registry" /\ Answers(S, C) /\ ~Matches(S)
  BY <1>1 DEF AtSetting
<1>4. \A s \in Setting : s # S => holds'[s] = holds[s]
  BY <1>2 DEF Send, TypeOK
<1>5. Line(S) # "warn"
  BY <1>2, <1>3, LineIs
<1>6. S \in warned => Times(Of(S)) > 0
  <2>1. Times(Of(S)) \in Nat
    BY TimesIs
  <2>2. S \in warned => Times(Of(S)) # 0
    BY <1>2, <1>5 DEF ToldSetting
  <2>3. QED BY <2>1, <2>2
<1>7. IF C \in foreseen THEN S \in sent' => S \in Unwritten
                        ELSE S \notin warned \cup {"roots"} => (S \in sent' <=> S \in foreseen)
  BY <1>1, <1>2, <1>3 DEF ToldSetting
<1>8. Step
  BY DEF Step
<1>9. QED BY <1>1, <1>4, <1>6, <1>7, <1>8, ToldPast

\* Every step keeps what plan told.
LEMMA ToldStep ==
  ASSUME TypeOK, PositionOK, AtSetting, Told, [Next]_vars
  PROVE  Told'
<1>1. CASE Start \/ Settle
  BY <1>1, ToldBegun DEF Start, Settle
<1>2. ASSUME foreseen' = foreseen,
             pc' \in Running \cup {"done"} /\ touched' = {} =>
               /\ \A c \in Component : ToldProxy(c)'
               /\ \A s \in Setting : ToldSetting(s)'
      PROVE  Told'
  BY <1>2 DEF Told
<1>3. CASE Deploy
  BY <1>2, <1>3, RunKeeps, ToldDeploy DEF Step
<1>4. CASE UpgradeIfRequested
  BY <1>2, <1>4, RunKeeps, ToldUpgrade DEF Step
<1>5. CASE Read
  BY <1>2, <1>5, RunKeeps, ToldRead DEF Step
<1>6. CASE Send
  BY <1>2, <1>6, RunKeeps, ToldSend DEF Step
<1>7. ASSUME UNCHANGED <<file, lacks, impl, holds, ups, sent, foreseen, warned, touched>>,
             Behind' = Behind, pc \in Running \cup {"done"}
      PROVE  Told'
  <2>1. \A c \in Component : ToldProxy(c) => ToldProxy(c)'
    BY <1>7 DEF ToldProxy, Has
  <2>2. \A s \in Setting : ToldSetting(s) => ToldSetting(s)'
    BY <1>7, ToldStays
  <2>3. QED BY <1>2, <1>7, <2>1, <2>2 DEF Told
<1>8. CASE CountUpgrades
  <2>1. pc = "count" /\ (pc' = "miscounted" \/ Goto("done"))
        /\ UNCHANGED <<file, lacks, impl, holds, ups, sent, foreseen, warned, touched>>
    BY <1>8 DEF CountUpgrades, At, Goto, Kept, chain
  <2>2. CASE Goto("done")
    BY <1>7, <2>1, <2>2, Moves DEF Running, Reached
  <2>3. CASE pc' = "miscounted"
    BY <1>2, <2>1, <2>3 DEF Running, Reached
  <2>4. QED BY <2>1, <2>2, <2>3
<1>9. CASE Abort \/ EditFile
  BY <1>2, <1>9 DEF Abort, EditFile, Goto, Running, Reached
<1>10. CASE OwnerSets \/ OtherDeploys
  BY <1>2, <1>10 DEF OwnerSets, OtherDeploys, Interfere, run
<1>11. CASE UNCHANGED vars
  <2>1. UNCHANGED <<file, lacks, impl, holds, ups, sent, foreseen, warned, touched, pc, sec, pos>>
    BY <1>11 DEF vars, run, chain
  <2>2. CASE pc \in Running \cup {"done"}
    BY <1>7, <2>1, <2>2, Unmoved
  <2>3. CASE pc \notin Running \cup {"done"}
    BY <1>2, <2>1, <2>3
  <2>4. QED BY <2>2, <2>3
<1>12. QED BY <1>1, <1>3, <1>4, <1>5, <1>6, <1>8, <1>9, <1>10, <1>11 DEF Next, Step

\* The count at the end is that of the list.
LEMMA SectionStep ==
  ASSUME IInv, [Next]_vars
  PROVE  EveryUpgradeHasItsSection'
<1> USE DEF EveryUpgradeHasItsSection
<1>1. ASSUME CountUpgrades PROVE upgraded = Len(ups)
  <2>1. pc = "count" /\ sec = 6 /\ ups \in Seq(Component)
    BY <1>1, Here DEF IInv, CountUpgrades, At, TypeOK
  <2>2. Upgraded = Component
    <3>1. Upgraded = {Sections[i] : i \in 1 .. 6}
      BY <2>1 DEF Upgraded, Reached
    <3>2. QED BY <3>1, Layout
  <2>3. QED BY <2>1, <2>2, NamedAll DEF IInv, CountOK, Running, Reached
<1>2. pc # "miscounted"
  BY DEF IInv
<1>3. QED BY <1>1, <1>2
      DEF Next, Step, Start, Settle, Begin, Deploy, UpgradeIfRequested, Read, Send, CountUpgrades,
          NextSetting, NextSection, Goto, Abort, OwnerSets, OtherDeploys, Interfere, run, EditFile,
          vars

\* How a run ends: the plan has warned of what refuses it, or has no line
\* for it.
LEMMA WarnedUpgraded ==
  ASSUME TypeOK, PositionOK, Told, touched = {}, pc \in {"count", "done"}
  PROVE  \A s \in warned : Times(Of(s)) > 0
<1>1. warned \subseteq Setting /\ Behind = Component \cup Setting
  BY AllBehind DEF TypeOK
<1>2. \A s \in Setting : ToldSetting(s)
  BY DEF Told, Running, Reached
<1>3. QED BY <1>1, <1>2 DEF ToldSetting

Excused ==
  \/ \E s \in warned : Times(Of(s)) = 0 \/ s = "registry"
  \/ ~Has("handle_escrow") /\ ~Initializes("handle_escrow")
  \/ Has("google_verifier") /\ ~Answers("roots", "google_verifier")

\* What refuses a run excuses the plan.
LEMMA RefusedExcused ==
  ASSUME TypeOK, PositionOK, AtSetting, Told, touched = {}, Deploy \/ Read, pc' = "refused"
  PROVE  Excused
<1>1. CASE Deploy
  <2>1. ~Has(C) /\ ~Initializes(C)
    BY <1>1 DEF Deploy, Goto
  <2>2. C = "handle_escrow"
    BY <2>1 DEF Initializes
  <2>3. QED BY <2>1, <2>2 DEF Excused
<1>2. CASE Read
  <2>1. pc = "read" /\ S \in Setting /\ Of(S) = C /\ C \in Component /\ Has(C) /\ S \notin Behind
    BY <1>2, Here, Ahead DEF Read, At, Running, Reached, PositionOK
  <2>2. Asked(S) /\ (~Answers(S, C) \/ (S = "registry" /\ ~Matches(S)))
    BY <1>2 DEF Read, Goto, NextSetting, NextSection
  <2>3. CASE S = "roots"
    <3>1. C = "google_verifier"
      <4>1. Len(SettingsOf["google_verifier"]) = 1 /\ SettingsOf["google_verifier"][1] = "roots"
            /\ "google_verifier" \in Component
        BY Layout DEF SettingsOf
      <4>2. Of("roots") = "google_verifier"
        BY <4>1, OfPlace
      <4>3. QED BY <2>1, <2>3, <4>2
    <3>2. QED BY <2>1, <2>2, <2>3, <3>1 DEF Excused
  <2>4. CASE S # "roots"
    <3>1. Line(S) = "warn"
      BY <2>1, <2>2, <2>4, LineIs
    <3>2. S \in warned
      BY <2>1, <2>4, <3>1 DEF Told, ToldSetting, Running
    <3>3. CASE S = "registry"
      BY <3>2, <3>3 DEF Excused
    <3>4. CASE S # "registry"
      <4>1. ~Answers(S, C)
        BY <2>2, <3>4
      <4>2. impl[C] # "new"
        BY <4>1 DEF Answers
      <4>3. ~(Times(C) > 0) /\ Times(C) \in Nat
        BY <2>1, <4>2, TimesIs DEF AtSetting
      <4>4. QED BY <2>1, <3>2, <4>3 DEF Excused
    <3>5. QED BY <3>3, <3>4
  <2>5. QED BY <2>3, <2>4
<1>3. QED BY <1>1, <1>2

\* A run ends as the warnings foretold.
LEMMA EndStep ==
  ASSUME IInv, [Next]_vars
  PROVE  PlanForetellsTheEnd'
<1>1. TypeOK /\ PositionOK /\ AtSetting /\ Told /\ PlanForetellsTheEnd
  BY DEF IInv
<1>2. ASSUME UNCHANGED <<lacks, impl, ups, warned>>
      PROVE  (Excused => Excused') /\ \A s : Times(Of(s))' = Times(Of(s))
  BY <1>2 DEF Excused, Times, Has, Initializes, Answers
<1>3. ASSUME touched' = {}, pc' \in {"done", "refused"}
      PROVE  /\ touched = {} /\ UNCHANGED <<lacks, impl, ups, warned>>
             /\ pc' = pc \/ (pc' = "done" /\ pc = "count") \/ (pc' = "refused" /\ (Deploy \/ Read))
  <2>1. CASE Deploy
    BY <1>3, <2>1 DEF Deploy, Goto, Kept, chain
  <2>2. CASE Read
    BY <1>3, <2>2 DEF Read, At, Goto, NextSetting, NextSection, Kept, chain
  <2>3. CASE CountUpgrades
    BY <1>3, <2>3 DEF CountUpgrades, At, Goto, Kept, chain
  <2>4. CASE UNCHANGED vars
    BY <1>3, <2>4 DEF vars, run, chain
  <2>5. CASE Start \/ Settle \/ UpgradeIfRequested \/ Send \/ Abort \/ OwnerSets \/ OtherDeploys
             \/ EditFile
    BY <1>3, <2>5 DEF Start, Settle, Begin, UpgradeIfRequested, Send, NextSetting, NextSection, Goto,
                      Abort, OwnerSets, OtherDeploys, Interfere, EditFile
  <2>6. QED BY <2>1, <2>2, <2>3, <2>4, <2>5 DEF Next, Step
<1>4. ASSUME touched' = {}, pc' = "done" PROVE \A s \in warned' : Times(Of(s))' > 0
  <2>1. touched = {} /\ pc \in {"count", "done"}
    BY <1>3, <1>4
  <2>2. \A s \in warned : Times(Of(s)) > 0
    BY <1>1, <2>1, WarnedUpgraded
  <2>3. QED BY <1>2, <1>3, <1>4, <2>2
<1>5. ASSUME touched' = {}, pc' = "refused" PROVE Excused'
  <2>1. Excused
    BY <1>1, <1>3, <1>5, RefusedExcused DEF PlanForetellsTheEnd, Excused
  <2>2. QED BY <1>2, <1>3, <1>5, <2>1
<1>6. QED BY <1>4, <1>5 DEF PlanForetellsTheEnd, Excused
-----------------------------------------------------------------------------
\* No run has begun on what the older release left.
LEMMA InitOK == Init => IInv
<1> SUFFICES ASSUME Init PROVE IInv
  OBVIOUS
<1> USE DEF Init
<1>1. PICK n \in 0 .. 6, g \in Files, off \in SUBSET {"registry"} :
        LET old == {Sections[i] : i \in 1 .. n}
        IN /\ impl = [c \in Component |-> IF c \in old THEN "old" ELSE None]
           /\ holds = [s \in Setting |->
                         CASE Of(s) \notin old -> {}
                           [] OTHER -> CASE s = "recipient" -> {Default}
                                         [] s \in {"signer", "fee"} -> {g[s]}
                                         [] s \in off -> {Elsewhere}
                                         [] OTHER -> {Canonical}]
  BY Layout
<1> DEFINE old == {Sections[i] : i \in 1 .. n}
<1>2. None # "old" /\ \A c \in Component : Has(c) <=> c \in old
  BY <1>1, StackConstants DEF Has
<1>3. \A k \in 1 .. 6 : Sections[k] \in old <=> k <= n
  BY Layout
<1>4. TypeOK
  <2>1. impl \in [Component -> {None, "old", "new"}]
    BY <1>1
  <2>2. {Default, Canonical, Elsewhere} \subseteq Value /\ g.signer \in Value /\ g.fee \in Value
    <3>1. g.signer # None /\ g.fee # None
      BY StackConstants
    <3>2. g["signer"] \in {f[k] : f \in Files, k \in InFile}
          /\ g["fee"] \in {f[k] : f \in Files, k \in InFile}
      BY DEF InFile
    <3>3. QED BY <3>1, <3>2 DEF Value
  <2>3. holds \in [Setting -> SUBSET Value]
    <3>1. \A s \in Setting : holds[s] \in {{}, {Default}, {g.signer}, {g.fee}, {Elsewhere}, {Canonical}}
      BY <1>1
    <3>2. \A x \in {{}, {Default}, {g.signer}, {g.fee}, {Elsewhere}, {Canonical}} : x \in SUBSET Value
      <4> HIDE DEF Init
      <4>1. QED BY <2>2
    <3>3. holds = [s \in Setting |-> holds[s]]
      BY <1>1
    <3>4. QED BY <3>1, <3>2, <3>3
  <2>4. <<>> \in Seq(Component) /\ Len(<<>>) = 0 /\ "idle" \in Location
    BY DEF Location, Stopped
  <2>5. QED BY <2>1, <2>3, <2>4, Layout, StackConstants DEF TypeOK
<1>5. InOrder
  <2>1. \A i, j \in 1 .. 6 : i < j /\ Has(Sections[j]) => Has(Sections[i])
    <3>1. \A k \in 1 .. 6 : Has(Sections[k]) <=> k <= n
      BY <1>2, <1>3, Layout
    <3>2. QED BY <3>1
  <2>2. \A s \in Setting : ~Has(Of(s)) => holds[s] = {}
    BY <1>1, <1>2, EveryPlace
  <2>3. QED BY <2>1, <2>2, Layout DEF InOrder
<1>6. PositionOK /\ BehindOK /\ CountOK /\ AtSetting /\ Told
      /\ EveryUpgradeHasItsSection /\ PlanForetellsTheEnd
  BY DEF PositionOK, BehindOK, CountOK, AtSetting, Told, EveryUpgradeHasItsSection,
         PlanForetellsTheEnd, Running, Reached
<1>7. QED BY <1>4, <1>5, <1>6 DEF IInv

\* Every step keeps the invariant.
LEMMA Inductive == IInv /\ [Next]_vars => IInv'
<1> SUFFICES ASSUME IInv, [Next]_vars PROVE IInv'
  OBVIOUS
<1>1. TypeOK /\ InOrder /\ PositionOK /\ BehindOK /\ CountOK /\ AtSetting /\ Told
  BY DEF IInv
<1>2. TypeOK'
  BY TypeStep
<1>3. CountOK'
  BY <1>1, <1>2, CountStep DEF TypeOK
<1>4. InOrder' /\ PositionOK' /\ BehindOK'
  BY <1>1, OrderStep, PositionStep, BehindStep
<1>5. AtSetting' /\ Told'
  BY <1>1, AtSettingStep, ToldStep
<1>6. EveryUpgradeHasItsSection' /\ PlanForetellsTheEnd'
  BY SectionStep, EndStep
<1>7. QED BY <1>2, <1>3, <1>4, <1>5, <1>6 DEF IInv

\* So it holds in every reachable state.
LEMMA Invariance == Spec => []IInv
BY InitOK, Inductive, PTL DEF Spec

-----------------------------------------------------------------------------
\* Every run, whatever died before it and whoever acts beside it, stays
\* within the types of the model.
THEOREM TypeCorrect == Spec => []TypeOK
<1>1. IInv => TypeOK
  BY DEF IInv
<1>2. QED BY <1>1, Invariance, PTL

\* Wherever a run dies, no proxy points at a declared address that has no
\* code: the sections deploy what a pointer is meant for before the pointer.
THEOREM NothingDangles == Spec => []NoDanglingPointer
<1>1. ASSUME InOrder, NEW s \in Pointer, Canonical \in holds[s] PROVE Has(Target[s])
  <2>1. s \in Setting /\ holds[s] # {}
    BY <1>1 DEF Setting
  <2>2. Has(Of(s))
    BY <1>1, <2>1 DEF InOrder
  <2>3. \A c \in Component : \A i \in 1 .. Len(SettingsOf[c]) : SettingsOf[c][i] = s => Of(s) = c
    BY OfPlace
  <2>4. \/ s = "verifier" /\ Of(s) = "identity_registry"
        \/ s = "registry" /\ Of(s) = "handle_escrow"
        \/ s = "notary" /\ Of(s) = "jwt_roots"
        \/ s = "roots" /\ Of(s) = "google_verifier"
    BY <2>3, Layout DEF Pointer, SettingsOf
  <2>5. \E i, j \in 1 .. 6 : i < j /\ Sections[i] = Target[s] /\ Sections[j] = Of(s)
    BY <2>4, Layout DEF Sections, Target
  <2>6. QED BY <1>1, <2>2, <2>5, Layout DEF InOrder
<1>2. IInv => NoDanglingPointer
  BY <1>1 DEF IInv, NoDanglingPointer
<1>3. QED BY <1>2, Invariance, PTL

\* A run that ends well has everything as the file says, unless the owner
\* set something after its read.
THEOREM DoneIsConverged == Spec => []DoneMeansConverged
<1>1. IInv => DoneMeansConverged
  <2>1. SUFFICES ASSUME IInv, pc = "done", "owner" \notin touched
                 PROVE  /\ \A c \in Component : Has(c)
                        /\ \A s \in Setting : Matches(s)
    BY DEF DoneMeansConverged
  <2>2. Behind = Component \cup Setting
    BY <2>1, AllBehind DEF IInv
  <2>3. \A c \in Component : Has(c)
    BY <2>1, <2>2, Ahead DEF IInv
  <2>4. \A s \in Setting : Matches(s)
    BY <2>1, <2>2 DEF IInv, BehindOK
  <2>5. QED BY <2>3, <2>4
<1>2. QED BY <1>1, Invariance, PTL

\* The count of the upgrades never stops a run at its end: every component
\* --upgrade takes has its section, however often the list names it.
THEOREM UpgradesCounted == Spec => []EveryUpgradeHasItsSection
<1>1. IInv => EveryUpgradeHasItsSection
  BY DEF IInv
<1>2. QED BY <1>1, Invariance, PTL

\* On a chain nobody else touches, a run that ends well sent what the plan
\* before it told, but for the roots plan does not read, what a getter that
\* did not answer hid, and the two settings initialize does not take of the
\* proxies the plan said would be deployed.
THEOREM PlanTellsSends == Spec => []PlanForetellsSends
<1>1. IInv => PlanForetellsSends
  <2> DEFINE unlisted == {s \in Setting : Of(s) \in foreseen}
  <2>1. SUFFICES ASSUME IInv, pc = "done", touched = {}
                 PROVE  /\ sent \ (warned \cup {"roots"} \cup unlisted) = foreseen \ warned
                        /\ sent \cap unlisted \subseteq {"recipient", "verifier"}
    BY DEF PlanForetellsSends
  <2>2. /\ sent \subseteq Component \cup Setting /\ foreseen \subseteq Component \cup Setting
        /\ warned \subseteq Setting /\ "roots" \notin foreseen
    BY <2>1 DEF IInv, TypeOK, Told
  <2>3. "roots" \notin Component /\ Component \cap Setting = {}
    BY Layout, Apart
  <2>4. Behind = Component \cup Setting
    BY <2>1, AllBehind DEF IInv
  <2>5. \A c \in Component : c \in sent <=> c \in foreseen
    BY <2>1, <2>4 DEF IInv, Told, ToldProxy
  <2>6. ASSUME NEW s \in Setting
        PROVE  IF Of(s) \in foreseen
               THEN s \notin foreseen /\ (s \in sent => s \in {"recipient", "verifier"})
               ELSE s \notin warned \cup {"roots"} => (s \in sent <=> s \in foreseen)
    BY <2>1, <2>4 DEF IInv, Told, ToldSetting, Unwritten
  <2>7. sent \cap unlisted \subseteq {"recipient", "verifier"}
    BY <2>6
  <2>8. ASSUME NEW x \in Component \cup Setting
        PROVE  x \in sent \ (warned \cup {"roots"} \cup unlisted) <=> x \in foreseen \ warned
    BY <2>2, <2>3, <2>5, <2>6
  <2>9. QED BY <2>2, <2>7, <2>8
<1>2. QED BY <1>1, Invariance, PTL

\* And how the run ends: well only if every warning was upgraded away,
\* refused only behind a warning or where plan has no line.
THEOREM PlanTellsTheEnd == Spec => []PlanForetellsTheEnd
<1>1. IInv => PlanForetellsTheEnd
  BY DEF IInv
<1>2. QED BY <1>1, Invariance, PTL
-----------------------------------------------------------------------------
(* Stack implements Convergence.                                           *)

True     == {c \in Component : Has(c)} \cup {s \in Setting : Matches(s)}
Found    == IF pc \in Stopped \ {"done"} THEN {} ELSE Behind
Progress == CASE pc = "done"               -> "done"
              [] pc \in Stopped \ {"done"} -> "stopped"
              [] OTHER                     -> "running"

\* No step of a run takes back what is true.
LEMMA RunKeepsTrue ==
  ASSUME TypeOK, InOrder, PositionOK, Step
  PROVE  True \subseteq True'
<1>1. \A c \in Component : Has(c) => Has(c)'
  BY Grows DEF Next
<1>2. file' = file
  BY RunKeeps
<1>3. ASSUME NEW s \in Setting, Matches(s) PROVE Matches(s)'
  <2>1. CASE holds'[s] = holds[s]
    BY <1>2, <1>3, <2>1, Same
  <2>2. CASE Deploy /\ Deployed(C) /\ ~Has(C)
    <3>1. Of(s) = C => ~Asked(s)
      BY <1>3, <2>2 DEF InOrder, Matches
    <3>2. Of(s) # C => holds'[s] = holds[s]
      BY <2>2, Here, DeployedIs
    <3>3. QED BY <1>2, <2>1, <3>1, <3>2 DEF Matches, Asked
  <2>3. CASE Send
    <3>1. S \in Setting
      BY <2>3, Here DEF Send, At
    <3>2. CASE s = S
      <4>1. Declared(s)' = Declared(S)
        BY <1>2, <3>2 DEF Declared
      <4>2. Declared(S) \in holds'[s]
        BY <2>3, <3>1, <3>2 DEF Send, TypeOK
      <4>3. QED BY <4>1, <4>2 DEF Matches
    <3>3. CASE s # S
      BY <2>1, <2>3, <3>1, <3>3 DEF Send, TypeOK
    <3>4. QED BY <3>2, <3>3
  <2>4. holds' = holds \/ (Deploy /\ Deployed(C) /\ ~Has(C)) \/ Send
    BY DEF Step, Deploy, UpgradeIfRequested, Read, CountUpgrades, chain
  <2>5. QED BY <2>1, <2>2, <2>3, <2>4
<1>4. QED BY <1>1, <1>3 DEF True

\* Where a run has come, and that all it is past is true.
LEMMA RunFinds ==
  ASSUME IInv, Step, pc' \in Running \cup {"done"}
  PROVE  /\ Behind \subseteq Behind' /\ Behind' \ Behind \subseteq True'
         /\ pc' = "done" => Behind' = Component \cup Setting
<1>1. TypeOK /\ PositionOK
  BY DEF IInv
<1>2. CASE Deploy
  <2>1. pc = "code" /\ Goto("upgrade")
    BY <1>2 DEF Deploy, At, Goto, Running, Reached
  <2>2. Behind' = Behind \cup {C} /\ pc' # "done"
    BY <1>1, <2>1, Moves DEF Goto
  <2>3. C \in Component /\ impl'[C] # None
    <3>1. C' = C /\ C \in Component
      BY <1>1, <2>1, Here DEF Goto, C
    <3>2. PositionOK'
      BY <1>1, <1>2, PositionStep DEF Next, Step
    <3>3. Has(C)'
      BY <2>1, <3>2 DEF PositionOK, Goto
    <3>4. QED BY <3>1, <3>3 DEF Has
  <2>4. C \in True'
    BY <2>3 DEF True, Has
  <2>5. QED BY <2>2, <2>4
<1>3. CASE UpgradeIfRequested
  <2>1. Behind' = Behind /\ pc' # "done"
    BY <1>1, <1>3, Moves DEF UpgradeIfRequested, At, NextSection, Goto
  <2>2. QED BY <2>1
<1>4. CASE Read
  <2>1. pc = "read" /\ holds' = holds /\ file' = file
        /\ (Goto("send") \/ (NextSetting /\ Matches(S)))
    BY <1>4 DEF Read, At, Goto, Kept, chain, Matches, Running, Reached
  <2>2. CASE Goto("send")
    BY <1>1, <2>1, <2>2, Moves DEF Goto
  <2>3. CASE NextSetting /\ Matches(S)
    <3>1. Behind' = Behind \cup {S} /\ pc' # "done" /\ S \in Setting
      BY <1>1, <2>1, <2>3, Here, Moves DEF NextSetting, NextSection
    <3>2. S \in True'
      <4>1. ASSUME NEW s \in Setting, Matches(s) PROVE Matches(s)'
        BY <2>1, <4>1, Same
      <4>2. QED BY <2>3, <3>1, <4>1 DEF True
    <3>3. QED BY <3>1, <3>2
  <2>4. QED BY <2>1, <2>2, <2>3
<1>5. CASE Send
  <2>1. pc = "send" /\ file' = file /\ S \in Setting /\ NextSetting
    BY <1>1, <1>5, Here DEF Send, At, Kept
  <2>2. Behind' = Behind \cup {S} /\ pc' # "done"
    BY <1>1, <2>1, Moves DEF NextSetting, NextSection
  <2>3. ASSUME NEW s \in Setting, s = S PROVE Matches(s)'
    <3>1. Declared(s)' = Declared(S)
      BY <2>1, <2>3 DEF Declared
    <3>2. Declared(S) \in holds'[s]
      BY <1>1, <1>5, <2>3 DEF Send, TypeOK
    <3>3. QED BY <3>1, <3>2 DEF Matches
  <2>4. S \in True'
    BY <2>1, <2>3 DEF True
  <2>5. QED BY <2>2, <2>4
<1>6. CASE CountUpgrades
  <2>1. pc = "count" /\ Goto("done")
    BY <1>6 DEF CountUpgrades, At, Goto, Running, Reached
  <2>2. Behind' = Behind /\ Behind = Component \cup Setting
    BY <1>1, <2>1, Moves, AllBehind
  <2>3. QED BY <2>2
<1>7. QED BY <1>2, <1>3, <1>4, <1>5, <1>6 DEF Step

\* Every step maps to a step of the abstract specification, or to none.
LEMMA StepMaps ==
  ASSUME IInv, [Next]_vars
  PROVE  Promise!Next \/ UNCHANGED Promise!vars
<1> DEFINE apply == "apply"
<1>1. Promise!Only(apply)
  BY DEF Promise!Only
<1>2. TypeOK /\ InOrder /\ PositionOK
  BY DEF IInv
<1>3. CASE Start \/ Settle
  <2>1. /\ pc \in Stopped /\ pc' = "code" /\ drift' = drift /\ Behind' = {}
        /\ UNCHANGED <<file, impl, holds>>
    BY <1>3, Begun DEF Start, Settle, Begin, chain
  <2>2. True' = True
    BY <2>1 DEF True, Has, Matches, Asked, Declared
  <2>3. Promise!Begin(apply)
    BY <1>1, <2>1, <2>2 DEF Promise!Begin, Promise!Keeps, True, Stopped
  <2>4. QED BY <2>3 DEF Promise!Next
<1>4. CASE Step
  <2>1. pc \in Running /\ drift' = drift
    BY <1>4 DEF Step, Deploy, UpgradeIfRequested, Read, Send, CountUpgrades, At, Kept, bounds,
                Running, Reached
  <2>2. Promise!Keeps
    BY <1>2, <1>4, <2>1, RunKeepsTrue DEF Promise!Keeps, True
  <2>3. CASE pc' \in Running \cup {"done"}
    <3>1. /\ Behind \subseteq Behind' /\ Behind' \ Behind \subseteq True'
          /\ pc' = "done" => Behind' = Component \cup Setting
      BY <1>4, <2>3, RunFinds
    <3>2. Promise!Advance(apply)
      BY <1>1, <2>1, <2>2, <2>3, <3>1 DEF Promise!Advance, True, Stopped, Running, Reached
    <3>3. QED BY <3>2 DEF Promise!Next
  <2>4. CASE pc' \notin Running \cup {"done"}
    <3>1. pc' \in {"refused", "miscounted"}
      BY <1>4, <2>4 DEF Step, Deploy, UpgradeIfRequested, Read, Send, CountUpgrades, Goto,
                        NextSetting, NextSection, Running, Reached
    <3>2. Promise!Stop(apply)
      BY <1>1, <2>1, <2>2, <3>1 DEF Promise!Stop, Stopped, Running, Reached
    <3>3. QED BY <3>2 DEF Promise!Next
  <2>5. QED BY <2>3, <2>4
<1>5. CASE Abort
  <2>1. /\ pc \notin Stopped /\ pc' = "crashed" /\ drift' = drift
        /\ UNCHANGED <<file, impl, holds>>
    BY <1>5 DEF Abort, Goto, chain
  <2>2. True' = True
    BY <2>1 DEF True, Has, Matches, Asked, Declared
  <2>3. Promise!Stop(apply)
    BY <1>1, <2>1, <2>2 DEF Promise!Stop, Promise!Keeps, True, Stopped
  <2>4. QED BY <2>3 DEF Promise!Next
<1>6. CASE OwnerSets \/ OtherDeploys
  <2>1. UNCHANGED <<pc, sec, pos>> /\ drift' = drift + 1
    BY <1>6 DEF OwnerSets, OtherDeploys, Interfere, run
  <2>2. Behind' = Behind
    BY <2>1, Unmoved
  <2>3. Promise!Interfere
    BY <2>1, <2>2 DEF Promise!Interfere
  <2>4. QED BY <2>3 DEF Promise!Next
<1>7. CASE EditFile
  <2>1. pc \in Stopped /\ pc' = "idle" /\ drift' = drift
    BY <1>7 DEF EditFile
  <2>2. Promise!Redeclare
    BY <2>1 DEF Promise!Redeclare, Stopped
  <2>3. QED BY <2>2 DEF Promise!Next
<1>8. CASE UNCHANGED vars
  <2>1. UNCHANGED <<pc, sec, pos, drift, file, impl, holds>>
    BY <1>8 DEF vars, run, chain, bounds
  <2>2. Behind' = Behind /\ True' = True
    BY <2>1, Unmoved DEF True, Has, Matches, Asked, Declared
  <2>3. QED BY <2>1, <2>2 DEF Promise!vars, True
<1>9. QED BY <1>3, <1>4, <1>5, <1>6, <1>7, <1>8 DEF Next

\* A run takes nothing for done that it has not seen true or set itself,
\* undoes nothing of what the file asks for, and ends well only with all of
\* it.
THEOREM KeepsIt == Spec => KeepsPromise
<1>1. Init => Promise!Init
  BY DEF Init, Promise!Init, Stopped
<1>2. IInv /\ [Next]_vars => [Promise!Next]_Promise!vars
  BY StepMaps
<1>3. QED BY <1>1, <1>2, Invariance, PTL DEF Spec, KeepsPromise, Promise!Spec
=============================================================================
