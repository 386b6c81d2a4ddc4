----------------------- MODULE CampaignAdmissionProofs -----------------------
(* What holds of every pack, review, plan and run, for all packs, campaigns,    *)
(* keys, manifests and clocks that satisfy the assumptions.                     *)
EXTENDS CampaignAdmission, SequenceTheorems, FiniteSetTheorems, WellFoundedInduction, TLAPS

-----------------------------------------------------------------------------
(* Sequences: what the prover's library does not say of FlattenSeq and Append.  *)

Less == {p \in Nat \X Nat : p[1] < p[2]}

LEMMA LessWellFounded == IsWellFoundedOn(Less, Nat)
  BY NatLessThanWellFounded DEF OpToRel, Less

LEMMA SetInduction ==
    ASSUME NEW S, 0 \in S, \A n \in Nat : n \in S => n + 1 \in S
    PROVE  Nat \subseteq S
<1> SUFFICES ASSUME Nat \ S # {} PROVE FALSE
  OBVIOUS
<1> DEFINE T == Nat \ S
<1>1. PICK x \in T : \A y \in T : ~(<<y, x>> \in Less)
  <2>1. T \subseteq Nat /\ T # {}
    OBVIOUS
  <2> HIDE DEF T
  <2> QED
    BY <2>1, LessWellFounded, WFMin
<1>2. x \in Nat /\ x # 0 /\ x - 1 \in Nat /\ x - 1 < x
  OBVIOUS
<1>3. x - 1 \in S
  BY <1>1, <1>2 DEF Less
<1>4. (x - 1) + 1 \in S
  BY <1>2, <1>3
<1> QED
  BY <1>2, <1>4

LEMMA ZeroSum ==
    ASSUME NEW a \in Nat, NEW b \in Nat, a + b = 0
    PROVE  a = 0 /\ b = 0
  OBVIOUS

\* The recursion of FlattenSeq: the concatenations of the first parts.
Concatenations(S, ss, f) ==
    /\ f \in [1..Len(ss) -> Seq(S)]
    /\ \A i \in 1..Len(ss) : f[i] = IF i = 1 THEN ss[i] ELSE f[i - 1] \o ss[i]

LEMMA ConcatenationsExist ==
    ASSUME NEW S, NEW ss \in Seq(Seq(S)), ss # <<>>
    PROVE  \E f : Concatenations(S, ss, f)
<1> DEFINE L == Len(ss)
           Upto(f, n) == /\ f \in [1..n -> Seq(S)]
                         /\ \A i \in 1..n : f[i] = IF i = 1 THEN ss[i] ELSE f[i - 1] \o ss[i]
           Exist(n) == \E f : Upto(f, n)
           T == {n \in Nat : n <= L => Exist(n)}
<1>1. L \in Nat \ {0} /\ \A i \in 1..L : ss[i] \in Seq(S)
  BY EmptySeq
<1>2. 0 \in T
  <2>1. Upto([i \in 1..0 |-> <<>>], 0)
    OBVIOUS
  <2>2. Exist(0)
    BY <2>1, Zenon
  <2> HIDE DEF Exist
  <2> QED
    BY <2>2
<1>3. ASSUME NEW n \in Nat, n \in T PROVE n + 1 \in T
  <2> SUFFICES ASSUME n + 1 <= L PROVE Exist(n + 1)
    <3> HIDE DEF Exist
    <3> QED
      OBVIOUS
  <2>1. n <= L
    BY <1>1
  <2>2. Exist(n)
    <3> HIDE DEF Exist
    <3> QED
      BY <1>3, <2>1
  <2>3. PICK f : Upto(f, n)
    BY <2>2
  <2> DEFINE g == [i \in 1..(n + 1) |-> IF i <= n THEN f[i] ELSE IF i = 1 THEN ss[i] ELSE f[i - 1] \o ss[i]]
  <2>4. \A i \in 1..(n + 1) : g[i] \in Seq(S)
    <3>1. SUFFICES ASSUME NEW i \in 1..(n + 1) PROVE g[i] \in Seq(S)
      OBVIOUS
    <3>2. ss[i] \in Seq(S)
      BY <1>1
    <3>3. CASE i <= n
      <4>1. f[i] \in Seq(S)
        BY <2>3, <3>3
      <4> QED
        BY <3>3, <4>1
    <3>4. CASE i > n /\ i = 1
      BY <3>2, <3>4
    <3>5. CASE i > n /\ i # 1
      <4>1. f[i - 1] \in Seq(S)
        BY <2>3, <3>5
      <4>2. f[i - 1] \o ss[i] \in Seq(S)
        BY <3>2, <4>1, ConcatProperties
      <4> QED
        BY <3>5, <4>2
    <3> QED
      BY <3>3, <3>4, <3>5
  <2>5. \A i \in 1..(n + 1) : g[i] = IF i = 1 THEN ss[i] ELSE g[i - 1] \o ss[i]
    <3>1. SUFFICES ASSUME NEW i \in 1..(n + 1) PROVE g[i] = IF i = 1 THEN ss[i] ELSE g[i - 1] \o ss[i]
      OBVIOUS
    <3>2. CASE i <= n
      <4>1. f[i] = IF i = 1 THEN ss[i] ELSE f[i - 1] \o ss[i]
        <5>1. i \in 1..n
          BY <3>2
        <5>2. \A j \in 1..n : f[j] = IF j = 1 THEN ss[j] ELSE f[j - 1] \o ss[j]
          BY <2>3
        <5> HIDE DEF Upto
        <5> QED
          BY <5>1, <5>2
      <4>2. i # 1 => g[i - 1] = f[i - 1]
        BY <3>2
      <4> QED
        BY <3>2, <4>1, <4>2
    <3>3. CASE i > n
      <4>1. i # 1 => i - 1 \in 1..(n + 1) /\ i - 1 <= n
        BY <3>3
      <4>2. i # 1 => g[i - 1] = f[i - 1]
        BY <4>1
      <4> QED
        BY <3>3, <4>2
    <3> QED
      BY <3>2, <3>3
  <2>6. Upto(g, n + 1)
    <3>1. g \in [1..(n + 1) -> Seq(S)]
      BY <2>4
    <3> HIDE DEF g
    <3> QED
      BY <2>5, <3>1
  <2> HIDE DEF Upto, g
  <2> QED
    BY <2>6
<1>4. L \in T
  <2> HIDE DEF T
  <2> QED
    BY <1>1, <1>2, <1>3, SetInduction
<1>5. Exist(L)
  <2> HIDE DEF Exist
  <2> QED
    BY <1>1, <1>4
<1> QED
  BY <1>5 DEF Concatenations

LEMMA Flattened ==
    ASSUME NEW S, NEW ss \in Seq(Seq(S)), ss # <<>>
    PROVE  \E f : Concatenations(S, ss, f) /\ FlattenSeq(ss) = f[Len(ss)]
<1> DEFINE Flat(f) == [i \in 1..Len(ss) |-> IF i = 1 THEN ss[i] ELSE f[i - 1] \o ss[i]]
           flat == CHOOSE f : f = Flat(f)
<1>1. PICK f : Concatenations(S, ss, f)
  BY ConcatenationsExist
<1>2. f = Flat(f)
  BY <1>1 DEF Concatenations
<1>3. flat = Flat(flat)
  <2> HIDE DEF Flat
  <2> QED
    BY <1>2
<1>4. Len(ss) # 0 /\ Len(ss) \in Nat /\ \A i \in 1..Len(ss) : ss[i] \in Seq(S)
  BY EmptySeq
<1>5. FlattenSeq(ss) = flat[Len(ss)]
  BY <1>4 DEF FlattenSeq
<1> HIDE DEF flat
<1>6. \A i \in 1..Len(ss) : flat[i] = IF i = 1 THEN ss[i] ELSE flat[i - 1] \o ss[i]
  BY <1>3
<1>7. \A i \in 1..Len(ss) : flat[i] \in Seq(S)
  <2> DEFINE T == {n \in Nat : n \in 1..Len(ss) => flat[n] \in Seq(S)}
  <2>1. 0 \in T
    OBVIOUS
  <2>2. ASSUME NEW n \in Nat, n \in T PROVE n + 1 \in T
    <3>1. CASE n + 1 = 1 /\ n + 1 \in 1..Len(ss)
      <4>1. flat[n + 1] = ss[n + 1]
        BY <1>6, <3>1
      <4>2. flat[n + 1] \in Seq(S)
        BY <1>4, <3>1, <4>1
      <4> QED
        BY <4>2
    <3>2. CASE n + 1 # 1 /\ n + 1 \in 1..Len(ss)
      <4>1. n \in 1..Len(ss) /\ (n + 1) - 1 = n
        BY <1>4, <3>2
      <4>2. flat[n] \in Seq(S) /\ ss[n + 1] \in Seq(S)
        BY <1>4, <2>2, <3>2, <4>1
      <4>3. flat[n + 1] = flat[n] \o ss[n + 1]
        BY <1>6, <3>2, <4>1
      <4>4. flat[n] \o ss[n + 1] \in Seq(S)
        BY <4>2, ConcatProperties
      <4>5. flat[n + 1] \in Seq(S)
        BY <4>3, <4>4
      <4> QED
        BY <4>5
    <3> QED
      BY <3>1, <3>2
  <2>3. Nat \subseteq T
    <3> HIDE DEF T
    <3> QED
      BY <2>1, <2>2, SetInduction
  <2> QED
    BY <2>3
<1>8. flat \in [1..Len(ss) -> Seq(S)]
  BY <1>3, <1>7
<1> QED
  BY <1>5, <1>6, <1>8 DEF Concatenations

\* FlattenSeq of one sequence and of two.
LEMMA FlattenOne ==
    ASSUME NEW S, NEW s \in Seq(S)
    PROVE  FlattenSeq(<<s>>) = s
<1>1. <<s>> \in Seq(Seq(S)) /\ <<s>> # <<>> /\ Len(<<s>>) = 1 /\ <<s>>[1] = s
  OBVIOUS
<1>2. PICK f : Concatenations(S, <<s>>, f) /\ FlattenSeq(<<s>>) = f[1]
  BY <1>1, Flattened
<1> QED
  BY <1>1, <1>2 DEF Concatenations

LEMMA FlattenTwo ==
    ASSUME NEW S, NEW s \in Seq(S), NEW t \in Seq(S)
    PROVE  FlattenSeq(<<s, t>>) = s \o t
<1> DEFINE ss == <<s, t>>
<1>1. ss \in Seq(Seq(S)) /\ ss # <<>> /\ Len(ss) = 2 /\ ss[1] = s /\ ss[2] = t
  OBVIOUS
<1> HIDE DEF ss
<1>2. PICK f : Concatenations(S, ss, f) /\ FlattenSeq(ss) = f[2]
  BY <1>1, Flattened
<1>3. f[1] = ss[1] /\ f[2] = f[1] \o ss[2]
  BY <1>1, <1>2 DEF Concatenations
<1> QED
  BY <1>1, <1>2, <1>3 DEF ss

\* FlattenSeq of any number of sequences is empty only if all of them are.
LEMMA FlattenParts ==
    ASSUME NEW S, NEW ss \in Seq(Seq(S))
    PROVE  /\ FlattenSeq(ss) \in Seq(S)
           /\ FlattenSeq(ss) = <<>> => \A i \in 1..Len(ss) : ss[i] = <<>>
<1>1. CASE ss = <<>>
  <2>1. Len(ss) = 0
    BY <1>1
  <2>2. FlattenSeq(ss) = <<>>
    BY <1>1, <2>1 DEF FlattenSeq
  <2> QED
    BY <2>1, <2>2
<1>2. CASE ss # <<>>
  <2>1. PICK f : Concatenations(S, ss, f) /\ FlattenSeq(ss) = f[Len(ss)]
    BY <1>2, Flattened
  <2>2. Len(ss) \in Nat \ {0} /\ \A i \in 1..Len(ss) : ss[i] \in Seq(S)
    BY <1>2, EmptySeq
  <2>3. f[Len(ss)] \in Seq(S)
    BY <2>1, <2>2 DEF Concatenations
  <2>a. \A i \in 1..Len(ss) : f[i] = IF i = 1 THEN ss[i] ELSE f[i - 1] \o ss[i]
    BY <2>1 DEF Concatenations
  <2> DEFINE T == {n \in Nat : n \in 1..Len(ss) /\ f[n] = <<>> => \A i \in 1..n : ss[i] = <<>>}
  <2>4. 0 \in T
    OBVIOUS
  <2>5. ASSUME NEW n \in Nat, n \in T PROVE n + 1 \in T
    <3> SUFFICES ASSUME n + 1 \in 1..Len(ss), f[n + 1] = <<>>, NEW i \in 1..(n + 1) PROVE ss[i] = <<>>
      OBVIOUS
    <3>1. CASE n = 0
      <4>1. f[1] = ss[1]
        BY <2>2, <2>a
      <4> QED
        BY <3>1, <4>1
    <3>2. CASE n # 0
      <4>1. n \in 1..Len(ss) /\ (n + 1) - 1 = n
        BY <2>2, <3>2
      <4>2. f[n + 1] = f[n] \o ss[n + 1]
        <5>1. f[n + 1] = IF n + 1 = 1 THEN ss[n + 1] ELSE f[(n + 1) - 1] \o ss[n + 1]
          BY <2>a
        <5>2. n + 1 # 1
          BY <3>2
        <5> QED
          BY <4>1, <5>1, <5>2
      <4>3. f[n] \in Seq(S) /\ ss[n + 1] \in Seq(S)
        BY <2>1, <2>2, <4>1 DEF Concatenations
      <4>4. Len(f[n]) + Len(ss[n + 1]) = 0 /\ Len(f[n]) \in Nat /\ Len(ss[n + 1]) \in Nat
        <5>1. Len(f[n] \o ss[n + 1]) = 0
          BY <4>2, EmptySeq
        <5> QED
          BY <4>3, <5>1, ConcatProperties, LenProperties
      <4>5. Len(f[n]) = 0 /\ Len(ss[n + 1]) = 0
        BY <4>4, ZeroSum
      <4>6. f[n] = <<>> /\ ss[n + 1] = <<>>
        BY <4>3, <4>5, EmptySeq
      <4>7. \A j \in 1..n : ss[j] = <<>>
        BY <2>5, <4>1, <4>6
      <4>8. i = n + 1 \/ i \in 1..n
        OBVIOUS
      <4> QED
        BY <4>6, <4>7, <4>8
    <3> QED
      BY <3>1, <3>2
  <2>6. Nat \subseteq T
    <3> HIDE DEF T
    <3> QED
      BY <2>4, <2>5, SetInduction
  <2>7. Len(ss) \in T
    <3> HIDE DEF T
    <3> QED
      BY <2>2, <2>6
  <2>8. f[Len(ss)] = <<>> => \A i \in 1..Len(ss) : ss[i] = <<>>
    BY <2>2, <2>7
  <2> QED
    BY <2>1, <2>3, <2>8
<1> QED
  BY <1>1, <1>2

-----------------------------------------------------------------------------
(* The policy.                                                                 *)

\* The checks are thirteen, and only the second looks at the clock.
LEMMA ThirteenChecks ==
    ASSUME NEW a, NEW mode, NEW target, NEW manifest, NEW network, NEW time
    PROVE  /\ DOMAIN Checks(a, mode, target, manifest, network, time) = 1..13
           /\ Checks(a, mode, target, manifest, network, time)[2] = <<Expired(manifest, time), "expired">>
  BY DEF Checks

LEMMA AllowedPassesChecks ==
    ASSUME NEW a, NEW mode, NEW target, NEW manifest, NEW network, NEW time,
           Authorize(a, mode, target, manifest, network, time).allowed
    PROVE  \A i \in 1..13 : ~Checks(a, mode, target, manifest, network, time)[i][1]
<1> DEFINE checks == Checks(a, mode, target, manifest, network, time)
           failing == {i \in DOMAIN checks : checks[i][1]}
<1>1. DOMAIN checks = 1..13
  BY ThirteenChecks
<1>2. failing = {}
  BY DEF Authorize
<1> QED
  BY <1>1, <1>2

\* A decision is allowed or not.
LEMMA DecidedAllowed ==
    ASSUME NEW a, NEW mode, NEW target, NEW manifest, NEW network, NEW time
    PROVE  Authorize(a, mode, target, manifest, network, time).allowed \in BOOLEAN
  BY DEF Authorize

LEMMA SameDecision ==
    ASSUME NEW a, NEW mode, NEW target, NEW manifest, NEW network, NEW s, NEW t,
           Expired(manifest, s) = Expired(manifest, t)
    PROVE  Authorize(a, mode, target, manifest, network, s) = Authorize(a, mode, target, manifest, network, t)
<1>1. Checks(a, mode, target, manifest, network, s) = Checks(a, mode, target, manifest, network, t)
  BY DEF Checks
<1> QED
  BY <1>1 DEF Authorize

\* A manifest expires once and for all.
LEMMA ExpiredAlike ==
    ASSUME NEW manifest, manifest.expires_at \in Nat, NEW s \in Nat, NEW t \in Nat,
           s < manifest.expires_at <=> t < manifest.expires_at
    PROVE  Expired(manifest, s) = Expired(manifest, t)
  BY DEF Expired

LEMMA ExpiredDenies ==
    ASSUME NEW a, NEW mode \in DOMAIN ModeProvider, NEW target, NEW manifest, NEW network, NEW time \in Nat,
           manifest.expires_at \in Nat, time >= manifest.expires_at
    PROVE  Authorize(a, mode, target, manifest, network, time) = [allowed |-> FALSE, reason |-> "expired"]
<1> DEFINE checks == Checks(a, mode, target, manifest, network, time)
           failing == {i \in DOMAIN checks : checks[i][1]}
<1>1. DOMAIN checks = 1..13 /\ checks[2][1] /\ checks[2][2] = "expired"
  <2>1. DOMAIN checks = 1..13 /\ checks[2] = <<Expired(manifest, time), "expired">>
    BY ThirteenChecks
  <2>2. Expired(manifest, time) = TRUE
    BY DEF Expired
  <2>3. checks[2] = <<TRUE, "expired">>
    BY <2>1, <2>2
  <2> HIDE DEF checks
  <2>4. checks[2][1] = TRUE
    BY <2>3
  <2>5. checks[2][2] = "expired"
    BY <2>3
  <2>6. checks[2][1]
    BY <2>4, Zenon
  <2> QED
    BY <2>1, <2>5, <2>6
<1>2. ModeProvider[mode] # ""
  BY DEF ModeProvider
<1>3. ~checks[1][1]
  BY <1>2 DEF Checks
<1>4. Authorize(a, mode, target, manifest, network, time)
        = IF failing = {} THEN [allowed |-> TRUE, reason |-> "authorized"]
          ELSE [allowed |-> FALSE, reason |-> checks[Min(failing)][2]]
  BY DEF Authorize
<1> HIDE DEF checks
<1>5. failing \subseteq 2..13 /\ 2 \in failing
  BY <1>1, <1>3
<1>6. Min(failing) = 2
  <2> HIDE DEF failing
  <2>1. \A y \in failing : 2 =< y
    BY <1>5
  <2>2. \A x \in failing : (\A y \in failing : x =< y) => x = 2
    BY <1>5
  <2> QED
    BY <1>5, <2>1, <2>2 DEF Min
<1> QED
  BY <1>1, <1>4, <1>5, <1>6

-----------------------------------------------------------------------------
(* The registries.                                                             *)

\* The community pack on disk is a pack, and a signature on it has been made by a signer.
PackInv ==
    /\ pack = [kind |-> pack.kind, pack_id |-> "community", formed |-> TRUE, items |-> pack.items,
               provenance |-> pack.provenance, integrity |-> pack.integrity]
    /\ pack.kind \in {"ability-pack", "campaign-pack", "detection-pack"}
    /\ ItemsFormed(pack.kind, pack.items)
    /\ pack.integrity # None =>
          /\ pack.integrity = [digest |-> pack.integrity.digest, signature |-> pack.integrity.signature]
          /\ pack.integrity.signature # None => pack.integrity.signature.value \in signed

\* The parts of a list of packs.
LEMMA ItemsOfOne ==
    ASSUME NEW S, NEW p, p.items \in Seq(S)
    PROVE  FlattenSeq([i \in DOMAIN <<p>> |-> <<p>>[i].items]) = p.items
<1>1. [i \in DOMAIN <<p>> |-> <<p>>[i].items] = <<p.items>>
  OBVIOUS
<1> QED
  BY <1>1, FlattenOne

LEMMA ItemsOfTwo ==
    ASSUME NEW S, NEW p, NEW q, p.items \in Seq(S), q.items \in Seq(S)
    PROVE  FlattenSeq([i \in DOMAIN <<p, q>> |-> <<p, q>>[i].items]) = p.items \o q.items
<1>1. [i \in DOMAIN <<p, q>> |-> <<p, q>>[i].items] = <<p.items, q.items>>
  OBVIOUS
<1> QED
  BY <1>1, FlattenTwo

LEMMA PairOfPacks ==
    ASSUME NEW x, NEW y
    PROVE  <<x>> \o <<y>> = <<x, y>>
<1> DEFINE S == {x, y}
<1>1. <<x>> \in Seq(S) /\ <<y>> \in Seq(S) /\ <<x, y>> \in Seq(S)
  OBVIOUS
<1>2. /\ <<x>> \o <<y>> \in Seq(S)
      /\ Len(<<x>> \o <<y>>) = 2
      /\ \A i \in 1..2 : (<<x>> \o <<y>>)[i] = IF i <= 1 THEN x ELSE y
  BY <1>1, ConcatProperties
<1>3. \A i \in 1..2 : (<<x>> \o <<y>>)[i] = <<x, y>>[i]
  BY <1>2
<1> QED
  BY <1>1, <1>2, <1>3, SeqEqual

\* An array and its elements.
LEMMA ArrayElements ==
    ASSUME NEW s, s \in Seq(ToSet(s))
    PROVE  /\ Len(s) \in Nat /\ DOMAIN s = 1..Len(s)
           /\ \A x : x \in ToSet(s) <=> \E i \in 1..Len(s) : s[i] = x
  BY DEF ToSet

LEMMA ConcatElements ==
    ASSUME NEW s, NEW t, s \in Seq(ToSet(s)), t \in Seq(ToSet(t))
    PROVE  /\ s \o t \in Seq(ToSet(s \o t))
           /\ ToSet(s \o t) = ToSet(s) \union ToSet(t)
<1> DEFINE S == ToSet(s) \union ToSet(t)
<1>1. s \in Seq(S) /\ t \in Seq(S)
  BY SeqMonotonic
<1>2. /\ s \o t \in Seq(S)
      /\ Len(s \o t) = Len(s) + Len(t)
      /\ \A i \in 1..(Len(s) + Len(t)) : (s \o t)[i] = IF i <= Len(s) THEN s[i] ELSE t[i - Len(s)]
  BY <1>1, ConcatProperties
<1>3. Len(s) \in Nat /\ Len(t) \in Nat /\ DOMAIN (s \o t) = 1..(Len(s) + Len(t))
  BY <1>1, <1>2, LenProperties
<1>4. ToSet(s \o t) \subseteq S
  BY <1>2, <1>3, LenProperties DEF ToSet
<1>5. ToSet(s) \subseteq ToSet(s \o t)
  <2>1. SUFFICES ASSUME NEW x \in ToSet(s) PROVE x \in ToSet(s \o t)
    OBVIOUS
  <2>2. PICK i \in 1..Len(s) : s[i] = x
    BY ArrayElements
  <2>3. i \in DOMAIN (s \o t) /\ (s \o t)[i] = x
    BY <1>2, <1>3, <2>2
  <2> QED
    BY <2>3 DEF ToSet
<1>6. ToSet(t) \subseteq ToSet(s \o t)
  <2>1. SUFFICES ASSUME NEW x \in ToSet(t) PROVE x \in ToSet(s \o t)
    OBVIOUS
  <2>2. PICK i \in 1..Len(t) : t[i] = x
    BY ArrayElements
  <2>3. Len(s) + i \in DOMAIN (s \o t) /\ (s \o t)[Len(s) + i] = x
    BY <1>2, <1>3, <2>2
  <2> QED
    BY <2>3 DEF ToSet
<1>7. ToSet(s \o t) = S
  BY <1>4, <1>5, <1>6
<1> QED
  BY <1>2, <1>7

\* In a list without a double id, an id finds the one that has it.
LEMMA RegistryFinds ==
    ASSUME NEW items, items \in Seq(ToSet(items)), Distinct(items), NEW x \in ToSet(items)
    PROVE  /\ x.id \in {items[i].id : i \in DOMAIN items}
           /\ (CHOOSE a \in ToSet(items) : a.id = x.id) = x
<1>1. \A a \in ToSet(items) : a.id = x.id => a = x
  BY DEF ToSet, Distinct
<1> QED
  BY <1>1 DEF ToSet

\* What the two registries hold, where they load.
LEMMA AbilitiesLoad ==
    ASSUME PackInv, LoadedAbilities # None
    PROVE  LET all == ToSet(BuiltinAbilities.items)
                         \union (IF pack.kind = "ability-pack" THEN ToSet(pack.items) ELSE {})
           IN  /\ \A a \in all : a.id \in DOMAIN LoadedAbilities /\ LoadedAbilities[a.id] = a
               /\ \A id \in DOMAIN LoadedAbilities : \E a \in all : a.id = id
<1> DEFINE own == BuiltinAbilities.items
           packs == <<BuiltinAbilities>> \o (IF pack.kind = "ability-pack" THEN <<pack>> ELSE <<>>)
           items == FlattenSeq([i \in DOMAIN packs |-> packs[i].items])
           registry == [id \in {items[i].id : i \in DOMAIN items} |-> CHOOSE a \in ToSet(items) : a.id = id]
<1>1. own \in Seq(ToSet(own)) /\ pack.items \in Seq(ToSet(pack.items))
  BY AdmissionAssumption DEF PackInv, ItemsFormed
<1>2. Distinct(items) /\ LoadedAbilities = registry
  BY Zenon DEF LoadedAbilities, AbilityRegistry
<1>3. /\ items \in Seq(ToSet(items))
      /\ ToSet(items) = ToSet(own) \union (IF pack.kind = "ability-pack" THEN ToSet(pack.items) ELSE {})
  <2>1. CASE pack.kind = "ability-pack"
    <3>1. packs = <<BuiltinAbilities, pack>>
      <4>1. packs = <<BuiltinAbilities>> \o <<pack>>
        BY <2>1
      <4> HIDE DEF packs
      <4> QED
        BY <4>1, PairOfPacks
    <3>2. own \in Seq(ToSet(own) \union ToSet(pack.items)) /\ pack.items \in Seq(ToSet(own) \union ToSet(pack.items))
      BY <1>1, SeqMonotonic
    <3>3. items = own \o pack.items
      <4> HIDE DEF packs
      <4> QED
        BY <3>1, <3>2, ItemsOfTwo
    <3> HIDE DEF items
    <3> QED
      BY <1>1, <2>1, <3>3, ConcatElements
  <2>2. CASE pack.kind # "ability-pack"
    <3>1. packs = <<BuiltinAbilities>>
      BY <2>2
    <3>2. items = own
      <4> HIDE DEF packs
      <4> QED
        BY <1>1, <3>1, ItemsOfOne
    <3> HIDE DEF items
    <3> QED
      BY <1>1, <2>2, <3>2
  <2> QED
    BY <2>1, <2>2
<1> HIDE DEF items
<1>4. \A a \in ToSet(items) : a.id \in DOMAIN registry /\ registry[a.id] = a
  BY <1>2, <1>3, RegistryFinds
<1>5. \A id \in DOMAIN registry : \E a \in ToSet(items) : a.id = id
  BY DEF ToSet
<1> QED
  BY <1>2, <1>3, <1>4, <1>5

LEMMA CampaignsLoad ==
    ASSUME PackInv, LoadedCampaigns # None, NEW id \in DOMAIN LoadedCampaigns
    PROVE  /\ StepsFormed(LoadedCampaigns[id])
           /\ LoadedCampaigns[id].steps \in Seq(ToSet(LoadedCampaigns[id].steps))
<1> DEFINE own == OwnCampaigns.items
           packs == <<OwnCampaigns>> \o (IF pack.kind = "campaign-pack" THEN <<pack>> ELSE <<>>)
           items == FlattenSeq([i \in DOMAIN packs |-> packs[i].items])
           registry == [x \in {items[i].id : i \in DOMAIN items} |-> CHOOSE c \in ToSet(items) : c.id = x]
           Formed(c) == StepsFormed(c) /\ c.steps \in Seq(ToSet(c.steps))
<1>1. own \in Seq(ToSet(own)) /\ pack.items \in Seq(ToSet(pack.items))
  BY AdmissionAssumption DEF PackInv, ItemsFormed
<1>2. /\ \A i \in DOMAIN packs : ParsesCampaigns(packs[i], <<>>)
      /\ Distinct(items)
      /\ LoadedCampaigns = registry
  BY Zenon DEF LoadedCampaigns, CampaignRegistry
<1>3. \A c \in ToSet(own) : Formed(c)
  <2>1. packs[1] = OwnCampaigns /\ 1 \in DOMAIN packs
    OBVIOUS
  <2>2. ParsesCampaigns(OwnCampaigns, <<>>)
    <3> HIDE DEF packs
    <3> QED
      BY <1>2, <2>1
  <2>3. \A c \in ToSet(own) : CampaignFormed(c)
    BY <2>2 DEF ParsesCampaigns, ToSet
  <2> QED
    BY <2>3, AdmissionAssumption DEF ItemsFormed, CampaignFormed
<1>4. ASSUME pack.kind = "campaign-pack" PROVE \A c \in ToSet(pack.items) : Formed(c)
  <2>1. packs[2] = pack /\ 2 \in DOMAIN packs
    BY <1>4
  <2>2. ParsesCampaigns(pack, <<>>)
    <3> HIDE DEF packs
    <3> QED
      BY <1>2, <2>1
  <2>3. \A c \in ToSet(pack.items) : CampaignFormed(c)
    BY <2>2 DEF ParsesCampaigns, ToSet
  <2> QED
    BY <1>4, <2>3 DEF PackInv, ItemsFormed, CampaignFormed
<1>5. /\ items \in Seq(ToSet(items))
      /\ \A c \in ToSet(items) : Formed(c)
  <2> HIDE DEF Formed
  <2>1. CASE pack.kind = "campaign-pack"
    <3>1. packs = <<OwnCampaigns, pack>>
      <4>1. packs = <<OwnCampaigns>> \o <<pack>>
        BY <2>1
      <4> HIDE DEF packs
      <4> QED
        BY <4>1, PairOfPacks
    <3>2. own \in Seq(ToSet(own) \union ToSet(pack.items)) /\ pack.items \in Seq(ToSet(own) \union ToSet(pack.items))
      BY <1>1, SeqMonotonic
    <3>3. items = own \o pack.items
      <4> HIDE DEF packs
      <4> QED
        BY <3>1, <3>2, ItemsOfTwo
    <3> HIDE DEF items
    <3> QED
      BY <1>1, <1>3, <1>4, <2>1, <3>3, ConcatElements
  <2>2. CASE pack.kind # "campaign-pack"
    <3>1. packs = <<OwnCampaigns>>
      BY <2>2
    <3>2. items = own
      <4> HIDE DEF packs
      <4> QED
        BY <1>1, <3>1, ItemsOfOne
    <3> HIDE DEF items
    <3> QED
      BY <1>1, <1>3, <3>2
  <2> QED
    BY <2>1, <2>2
<1> HIDE DEF items, Formed
<1>6. PICK i \in DOMAIN items : items[i].id = id
  BY <1>2
<1>7. items[i] \in ToSet(items)
  BY <1>6 DEF ToSet
<1>8. registry[id] = items[i]
  <2>1. (CHOOSE c \in ToSet(items) : c.id = items[i].id) = items[i]
    BY <1>2, <1>5, <1>7, RegistryFinds
  <2> QED
    BY <1>2, <1>6, <2>1
<1>9. Formed(LoadedCampaigns[id])
  BY <1>2, <1>5, <1>7, <1>8
<1> QED
  BY <1>9 DEF Formed

-----------------------------------------------------------------------------
(* The review.                                                                 *)

Codes ==
    {"checksum_invalid", "signature_missing", "signature_invalid", "provenance_invalid", "review_pending",
     "review_rejected", "structure_invalid", "inline_executable_content", "production_enabled",
     "elevation_requested", "active_provider", "network_capability", "state_change_capability"}

Findings == [severity : {"block", "review"}, code : Codes]

LEMMA FindingMade ==
    ASSUME NEW severity \in {"block", "review"}, NEW code \in Codes, NEW condition
    PROVE  /\ Finding(severity, code, condition) \in Seq(Findings)
           /\ Finding(severity, code, condition) = <<>> <=> ~condition
           /\ condition => /\ Len(Finding(severity, code, condition)) = 1
                           /\ Finding(severity, code, condition)[1].severity = severity
<1> DEFINE finding == [severity |-> severity, code |-> code]
<1>1. finding \in Findings
  BY DEF Findings
<1>2. finding.severity = severity
  OBVIOUS
<1>3. CASE condition
  <2>1. Finding(severity, code, condition) = <<finding>>
    BY <1>3 DEF Finding
  <2> HIDE DEF finding
  <2>2. <<finding>> \in Seq(Findings) /\ Len(<<finding>>) = 1 /\ <<finding>>[1] = finding
    BY <1>1
  <2>3. <<finding>> # <<>>
    BY <2>2, EmptySeq
  <2>4. <<finding>>[1].severity = severity
    BY <1>2, <2>2
  <2> QED
    BY <1>3, <2>1, <2>2, <2>3, <2>4
<1>4. CASE ~condition
  <2>1. Finding(severity, code, condition) = <<>>
    BY <1>4 DEF Finding
  <2> QED
    BY <1>4, <2>1
<1> QED
  BY <1>3, <1>4

\* A review keeps its first findings, and an approval needs that there are none at all.
LEMMA KeptFindings ==
    ASSUME NEW keys, NEW all, all = AllFindings(pack, keys), all \in Seq(Findings), FindingLimit >= 1
    PROVE  /\ Review(pack, keys).verdict = "approved" => all = <<>>
           /\ \A n \in 1..Len(all) : n <= FindingLimit /\ all[n].severity = "block" =>
                 Review(pack, keys).verdict = "blocked"
<1> DEFINE limit == IF Len(all) < FindingLimit THEN Len(all) ELSE FindingLimit
           kept == SubSeq(all, 1, limit)
<1>1. Len(all) \in Nat /\ FindingLimit \in Nat
  BY ContentAssumption, LenProperties
<1>2. limit \in 0..Len(all) /\ limit <= FindingLimit
  BY <1>1
<1>3. \A n \in 1..Len(all) : n <= FindingLimit => n <= limit
  BY <1>1
<1>4. all # <<>> => limit >= 1
  BY <1>1, EmptySeq
<1>5. Review(pack, keys).verdict = Verdict(kept)
  BY DEF Review
<1> HIDE DEF limit
<1>6. DOMAIN kept = 1..limit /\ \A n \in 1..limit : kept[n] = all[n]
  BY <1>1, <1>2
<1> HIDE DEF kept
<1>7. ASSUME NEW n \in 1..Len(all), n <= FindingLimit, all[n].severity = "block"
      PROVE  Review(pack, keys).verdict = "blocked"
  <2>1. n \in DOMAIN kept /\ kept[n].severity = "block"
    BY <1>1, <1>2, <1>3, <1>6, <1>7
  <2> QED
    BY <1>5, <2>1 DEF Verdict, Blocking
<1>8. ASSUME Review(pack, keys).verdict = "approved", all # <<>> PROVE FALSE
  <2>1. 1 \in DOMAIN kept /\ 1 \in 1..Len(all) /\ kept[1] = all[1]
    BY <1>1, <1>2, <1>4, <1>6, <1>8
  <2>2. all[1] \in Findings
    BY <2>1
  <2>3. kept[1].severity \in {"block", "review"}
    BY <2>1, <2>2 DEF Findings
  <2> QED
    BY <1>5, <1>8, <2>1, <2>3 DEF Verdict, Blocking
<1> QED
  BY <1>7, <1>8

\* What an item adds to the findings, and what it means that it adds none.
LEMMA ItemFindings ==
    ASSUME NEW a
    PROVE  /\ AbilityFindings(a) \in Seq(Findings)
           /\ AbilityFindings(a) = <<>> =>
                 a.supported_providers \subseteq {"simulate"} /\ ~a.production_allowed
<1> DEFINE f1 == Finding("block", "production_enabled", a.production_allowed)
           f2 == Finding("block", "elevation_requested", a.requires_elevation)
           f3 == Finding("review", "active_provider", a.supported_providers \ {"simulate"} # {})
           f4 == Finding("review", "network_capability", a.network_access = "required")
           f5 == Finding("review", "state_change_capability", a.state_changes)
<1>1. f1 \in Seq(Findings) /\ (f1 = <<>> => ~a.production_allowed)
  BY FindingMade DEF Codes
<1>2. f2 \in Seq(Findings)
  BY FindingMade DEF Codes
<1>3. f3 \in Seq(Findings) /\ (f3 = <<>> => a.supported_providers \subseteq {"simulate"})
  BY FindingMade DEF Codes
<1>4. f4 \in Seq(Findings)
  BY FindingMade DEF Codes
<1>5. f5 \in Seq(Findings)
  BY FindingMade DEF Codes
<1>6. AbilityFindings(a) = f1 \o f2 \o f3 \o f4 \o f5
  BY DEF AbilityFindings
<1> HIDE DEF f1, f2, f3, f4, f5
<1>7. /\ f1 \o f2 \in Seq(Findings) /\ f1 \o f2 \o f3 \in Seq(Findings)
      /\ f1 \o f2 \o f3 \o f4 \in Seq(Findings) /\ f1 \o f2 \o f3 \o f4 \o f5 \in Seq(Findings)
  BY <1>1, <1>2, <1>3, <1>4, <1>5, ConcatProperties
<1>8. ASSUME AbilityFindings(a) = <<>> PROVE f1 = <<>> /\ f3 = <<>>
  <2>1. f1 \o f2 \o f3 \o f4 = <<>>
    BY <1>5, <1>6, <1>7, <1>8, ConcatSimplifications
  <2>2. f1 \o f2 \o f3 = <<>>
    BY <1>4, <1>7, <2>1, ConcatSimplifications
  <2>3. f1 \o f2 = <<>> /\ f3 = <<>>
    BY <1>3, <1>7, <2>2, ConcatSimplifications
  <2> QED
    BY <1>1, <1>2, <2>3, ConcatSimplifications
<1> QED
  BY <1>1, <1>3, <1>6, <1>7, <1>8

LEMMA ProhibitedListed ==
    ASSUME PackInv
    PROVE  ProhibitedFindings(pack) \in Seq(Findings)
<1> DEFINE one == Finding("block", "inline_executable_content", TRUE)
           row(i) == [k \in 1..pack.items[i].prohibited |-> one]
           rows == [i \in DOMAIN pack.items |-> FlattenSeq(row(i))]
<1>1. one \in Seq(Findings)
  BY FindingMade DEF Codes
<1> HIDE DEF one
<1>2. Len(pack.items) \in Nat /\ DOMAIN pack.items = 1..Len(pack.items)
  BY ArrayElements DEF PackInv, ItemsFormed
<1>3. \A i \in DOMAIN pack.items : pack.items[i].prohibited \in Nat
  BY DEF PackInv, ItemsFormed, ToSet
<1>4. \A i \in DOMAIN pack.items : row(i) \in Seq(Seq(Findings))
  BY <1>1, <1>3
<1> HIDE DEF row
<1>5. \A i \in DOMAIN pack.items : FlattenSeq(row(i)) \in Seq(Findings)
  BY <1>4, FlattenParts
<1>6. rows \in Seq(Seq(Findings))
  BY <1>2, <1>5
<1>7. FlattenSeq(rows) \in Seq(Findings)
  <2> HIDE DEF rows
  <2> QED
    BY <1>6, FlattenParts
<1> QED
  BY <1>7 DEF ProhibitedFindings, one, row

LEMMA SafetyListed ==
    ASSUME PackInv
    PROVE  /\ SafetyFindings(pack) \in Seq(Findings)
           /\ SafetyFindings(pack) = <<>> /\ pack.kind = "ability-pack" =>
                 \A a \in ToSet(pack.items) : AbilityFindings(a) = <<>>
<1> DEFINE rows == [i \in DOMAIN pack.items |-> AbilityFindings(pack.items[i])]
           active == IF pack.kind # "ability-pack" THEN <<>> ELSE FlattenSeq(rows)
<1>1. Len(pack.items) \in Nat /\ DOMAIN pack.items = 1..Len(pack.items)
  BY ArrayElements DEF PackInv, ItemsFormed
<1>2. \A i \in DOMAIN pack.items : AbilityFindings(pack.items[i]) \in Seq(Findings)
  BY ItemFindings
<1>3. rows \in Seq(Seq(Findings)) /\ Len(rows) = Len(pack.items)
  BY <1>1, <1>2
<1>4. \A i \in 1..Len(rows) : rows[i] = AbilityFindings(pack.items[i])
  BY <1>1, <1>3
<1>5. SafetyFindings(pack) = ProhibitedFindings(pack) \o active
  BY DEF SafetyFindings
<1> HIDE DEF rows
<1>6. FlattenSeq(rows) \in Seq(Findings) /\ (FlattenSeq(rows) = <<>> => \A i \in 1..Len(rows) : rows[i] = <<>>)
  BY <1>3, FlattenParts
<1>7. active \in Seq(Findings)
  BY <1>6, EmptySeq
<1>8. ASSUME SafetyFindings(pack) = <<>> PROVE active = <<>>
  <2> HIDE DEF active
  <2> QED
    BY <1>5, <1>7, <1>8, ProhibitedListed, ConcatSimplifications
<1>9. ASSUME SafetyFindings(pack) = <<>>, pack.kind = "ability-pack", NEW a \in ToSet(pack.items)
      PROVE  AbilityFindings(a) = <<>>
  <2>1. PICK i \in DOMAIN pack.items : pack.items[i] = a
    BY DEF ToSet
  <2>2. rows[i] = <<>> /\ i \in 1..Len(rows)
    BY <1>1, <1>3, <1>6, <1>8, <1>9
  <2> QED
    BY <1>4, <2>1, <2>2
<1>10. SafetyFindings(pack) \in Seq(Findings)
  <2> HIDE DEF active
  <2> QED
    BY <1>5, <1>7, ProhibitedListed, ConcatProperties
<1> QED
  BY <1>9, <1>10

LEMMA SignatureListed ==
    ASSUME NEW keys
    PROVE  /\ SignatureFindings(pack, keys) \in Seq(Findings)
           /\ SignatureFindings(pack, keys) = <<>> <=> VerifySignature(pack, keys) \notin {None, "invalid"}
           /\ SignatureFindings(pack, keys) # <<>> => SignatureFindings(pack, keys)[1].severity = "block"
<1> DEFINE f1 == Finding("block", "signature_missing", VerifySignature(pack, keys) = None)
           f2 == Finding("block", "signature_invalid", VerifySignature(pack, keys) = "invalid")
<1>1. /\ f1 \in Seq(Findings)
      /\ f1 = <<>> <=> VerifySignature(pack, keys) # None
      /\ f1 # <<>> => Len(f1) = 1 /\ f1[1].severity = "block"
  BY FindingMade DEF Codes
<1>2. /\ f2 \in Seq(Findings)
      /\ f2 = <<>> <=> VerifySignature(pack, keys) # "invalid"
      /\ f2 # <<>> => Len(f2) = 1 /\ f2[1].severity = "block"
  BY FindingMade DEF Codes
<1>3. SignatureFindings(pack, keys) = f1 \o f2
  BY DEF SignatureFindings
<1> HIDE DEF f1, f2
<1>4. f1 \o f2 \in Seq(Findings) /\ (f1 \o f2 = <<>> <=> f1 = <<>> /\ f2 = <<>>)
  BY <1>1, <1>2, ConcatProperties, ConcatEmptySeq, ConcatSimplifications
<1>5. f1 # <<>> => (f1 \o f2)[1] = f1[1]
  BY <1>1, <1>2, ConcatProperties, LenProperties
<1>6. f1 = <<>> => f1 \o f2 = f2
  BY <1>2, ConcatEmptySeq
<1> QED
  BY <1>1, <1>2, <1>3, <1>4, <1>5, <1>6

LEMMA AtMostOne ==
    ASSUME NEW m \in {0, 1}, NEW n \in {0, 1}, m = 0 \/ n = 0
    PROVE  m + n <= 1
  OBVIOUS

\* A provenance makes at most one finding, and it blocks unless the provenance is well formed.
LEMMA ProvenanceListed ==
    /\ ProvenanceFindings(pack) \in Seq(Findings)
    /\ Len(ProvenanceFindings(pack)) <= 1
    /\ ~ProvenanceFormed(pack.provenance) =>
          ProvenanceFindings(pack) # <<>> /\ ProvenanceFindings(pack)[1].severity = "block"
<1> DEFINE f1 == Finding("review", "review_pending", pack.provenance.status = "pending")
           f2 == Finding("block", "review_rejected", pack.provenance.status = "rejected")
           f3 == Finding("block", "provenance_invalid", TRUE)
<1>1. f1 \in Seq(Findings) /\ (f1 = <<>> <=> pack.provenance.status # "pending") /\ (f1 # <<>> => Len(f1) = 1)
  BY FindingMade DEF Codes
<1>2. f2 \in Seq(Findings) /\ (f2 = <<>> <=> pack.provenance.status # "rejected") /\ (f2 # <<>> => Len(f2) = 1)
  BY FindingMade DEF Codes
<1>3. f3 \in Seq(Findings) /\ f3 # <<>> /\ Len(f3) = 1 /\ f3[1].severity = "block"
  BY FindingMade, EmptySeq DEF Codes
<1>4. ProvenanceFindings(pack) = IF ~ProvenanceFormed(pack.provenance) THEN f3 ELSE f1 \o f2
  BY DEF ProvenanceFindings
<1> HIDE DEF f1, f2, f3
<1>5. f1 \o f2 \in Seq(Findings) /\ Len(f1 \o f2) = Len(f1) + Len(f2)
  BY <1>1, <1>2, ConcatProperties
<1>6. f1 = <<>> \/ f2 = <<>>
  BY <1>1, <1>2
<1>7. Len(f1 \o f2) <= 1
  <2>1. (f1 = <<>> => Len(f1) = 0) /\ (f2 = <<>> => Len(f2) = 0)
    BY EmptySeq
  <2>2. Len(f1) \in {0, 1} /\ Len(f2) \in {0, 1}
    BY <1>1, <1>2, <2>1
  <2>3. Len(f1) = 0 \/ Len(f2) = 0
    BY <1>6, <2>1
  <2>4. Len(f1) + Len(f2) <= 1
    BY <2>2, <2>3, AtMostOne
  <2> QED
    BY <1>5, <2>4
<1>8. CASE ProvenanceFormed(pack.provenance)
  BY <1>4, <1>5, <1>7, <1>8
<1>9. CASE ~ProvenanceFormed(pack.provenance)
  <2>1. ProvenanceFindings(pack) = f3
    BY <1>4, <1>9
  <2> QED
    BY <1>3, <1>9, <2>1
<1> QED
  BY <1>8, <1>9

LEMMA PrefixStays ==
    ASSUME NEW s \in Seq(Findings), NEW t \in Seq(Findings)
    PROVE  /\ s \o t \in Seq(Findings)
           /\ Len(s) \in Nat /\ Len(t) \in Nat /\ Len(s \o t) = Len(s) + Len(t)
           /\ \A i \in 1..Len(s) : (s \o t)[i] = s[i]
           /\ t # <<>> => Len(t) >= 1 /\ (s \o t)[Len(s) + 1] = t[1]
<1>1. /\ s \o t \in Seq(Findings)
      /\ Len(s) \in Nat /\ Len(t) \in Nat /\ Len(s \o t) = Len(s) + Len(t)
      /\ \A i \in 1..(Len(s) + Len(t)) : (s \o t)[i] = IF i <= Len(s) THEN s[i] ELSE t[i - Len(s)]
  BY ConcatProperties, LenProperties
<1>2. t # <<>> => Len(t) >= 1
  BY <1>1, EmptySeq
<1> QED
  BY <1>1, <1>2

LEMMA AllListed ==
    ASSUME PackInv, NEW keys
    PROVE  AllFindings(pack, keys) \in Seq(Findings)
<1> DEFINE c == Finding("block", "checksum_invalid", ~DigestMatches(pack))
           s == Finding("block", "structure_invalid", ~StructureOk(pack))
<1>1. c \in Seq(Findings) /\ s \in Seq(Findings)
  BY FindingMade DEF Codes
<1>2. AllFindings(pack, keys)
        = c \o SignatureFindings(pack, keys) \o ProvenanceFindings(pack) \o s \o SafetyFindings(pack)
  BY DEF AllFindings
<1> HIDE DEF c, s
<1> QED
  BY <1>1, <1>2, SignatureListed, ProvenanceListed, SafetyListed, PrefixStays

\* What a review does not block has its checksum, a signature that verifies, a provenance
\* and the structure of its kind, as long as two findings are kept; what it approves has
\* no finding about its abilities.
LEMMA ReviewPasses ==
    ASSUME PackInv, FindingLimit >= 2, NEW keys, Review(pack, keys).verdict # "blocked"
    PROVE  /\ DigestMatches(pack)
           /\ VerifySignature(pack, keys) \notin {None, "invalid"}
           /\ ProvenanceFormed(pack.provenance)
           /\ StructureOk(pack)
<1> DEFINE c == Finding("block", "checksum_invalid", ~DigestMatches(pack))
           g == SignatureFindings(pack, keys)
           p == ProvenanceFindings(pack)
           s == Finding("block", "structure_invalid", ~StructureOk(pack))
           t == SafetyFindings(pack)
           all == AllFindings(pack, keys)
<1>1. /\ c \in Seq(Findings)
      /\ c = <<>> <=> DigestMatches(pack)
      /\ c # <<>> => Len(c) = 1 /\ c[1].severity = "block"
  BY FindingMade DEF Codes
<1>2. /\ g \in Seq(Findings)
      /\ g = <<>> <=> VerifySignature(pack, keys) \notin {None, "invalid"}
      /\ g # <<>> => g[1].severity = "block"
  BY SignatureListed
<1>3. /\ p \in Seq(Findings) /\ Len(p) <= 1
      /\ ~ProvenanceFormed(pack.provenance) => p # <<>> /\ p[1].severity = "block"
  BY ProvenanceListed
<1>4. /\ s \in Seq(Findings)
      /\ s = <<>> <=> StructureOk(pack)
      /\ s # <<>> => Len(s) = 1 /\ s[1].severity = "block"
  BY FindingMade DEF Codes
<1>5. t \in Seq(Findings)
  BY SafetyListed
<1>6. all = c \o g \o p \o s \o t
  BY DEF AllFindings
<1>7. FindingLimit \in Nat /\ all \in Seq(Findings) /\ Len(all) \in Nat
  BY ContentAssumption, AllListed, LenProperties
<1> HIDE DEF c, g, p, s, t, all
<1>8. /\ c \o g \in Seq(Findings) /\ c \o g \o p \in Seq(Findings) /\ c \o g \o p \o s \in Seq(Findings)
      /\ Len(all) >= Len(c \o g \o p \o s) /\ Len(c \o g \o p \o s) >= Len(c \o g \o p)
      /\ Len(c \o g \o p) >= Len(c \o g) /\ Len(c \o g) >= Len(c)
      /\ Len(c) \in Nat /\ Len(c \o g) \in Nat /\ Len(c \o g \o p) \in Nat /\ Len(c \o g \o p \o s) \in Nat
  BY <1>1, <1>2, <1>3, <1>4, <1>5, <1>6, PrefixStays
<1>9. \A n \in 1..Len(all) : n <= 2 => all[n].severity # "block"
  <2>1. \A n \in 1..Len(all) : n <= FindingLimit /\ all[n].severity = "block" => Review(pack, keys).verdict = "blocked"
    BY <1>7, KeptFindings DEF all
  <2> QED
    BY <1>7, <2>1
<1>10. \A n \in 1..Len(c \o g \o p \o s) : all[n] = (c \o g \o p \o s)[n]
  <2> DEFINE short == c \o g \o p \o s
             long == short \o t
  <2>1. \A n \in 1..Len(short) : long[n] = short[n]
    BY <1>5, <1>8, PrefixStays
  <2>2. /\ Len(long) >= Len(short) /\ Len(short) \in Nat /\ Len(long) \in Nat
        /\ \A n \in 1..Len(long) : all[n] = long[n]
    BY <1>6, <1>7, <1>8
  <2> SUFFICES \A n \in 1..Len(short) : all[n] = short[n]
    OBVIOUS
  <2> HIDE DEF short, long
  <2> QED
    BY <2>1, <2>2
<1>11. \A n \in 1..Len(c \o g \o p) : all[n] = (c \o g \o p)[n]
  <2> DEFINE short == c \o g \o p
             long == short \o s
  <2>1. \A n \in 1..Len(short) : long[n] = short[n]
    BY <1>4, <1>8, PrefixStays
  <2>2. /\ Len(long) >= Len(short) /\ Len(short) \in Nat /\ Len(long) \in Nat
        /\ \A n \in 1..Len(long) : all[n] = long[n]
    BY <1>8, <1>10
  <2> SUFFICES \A n \in 1..Len(short) : all[n] = short[n]
    OBVIOUS
  <2> HIDE DEF short, long
  <2> QED
    BY <2>1, <2>2
<1>12. \A n \in 1..Len(c \o g) : all[n] = (c \o g)[n]
  <2> DEFINE short == c \o g
             long == short \o p
  <2>1. \A n \in 1..Len(short) : long[n] = short[n]
    BY <1>3, <1>8, PrefixStays
  <2>2. /\ Len(long) >= Len(short) /\ Len(short) \in Nat /\ Len(long) \in Nat
        /\ \A n \in 1..Len(long) : all[n] = long[n]
    BY <1>8, <1>11
  <2> SUFFICES \A n \in 1..Len(short) : all[n] = short[n]
    OBVIOUS
  <2> HIDE DEF short, long
  <2> QED
    BY <2>1, <2>2
<1>13. \A n \in 1..Len(c) : all[n] = c[n]
  <2> DEFINE cg == c \o g
  <2>1. \A n \in 1..Len(c) : cg[n] = c[n]
    BY <1>1, <1>2, PrefixStays
  <2>2. Len(cg) >= Len(c) /\ Len(c) \in Nat /\ Len(cg) \in Nat /\ \A n \in 1..Len(cg) : all[n] = cg[n]
    BY <1>8, <1>12
  <2> HIDE DEF cg
  <2> QED
    BY <2>1, <2>2
<1>14. c = <<>>
  <2> SUFFICES ASSUME c # <<>> PROVE FALSE
    OBVIOUS
  <2>1. 1 \in 1..Len(c) /\ 1 \in 1..Len(all)
    BY <1>1, <1>7, <1>8
  <2> QED
    BY <1>1, <1>9, <1>13, <2>1
<1>15. c \o g = g
  BY <1>2, <1>14, ConcatEmptySeq
<1>16. g = <<>>
  <2> SUFFICES ASSUME g # <<>> PROVE FALSE
    OBVIOUS
  <2>1. 1 \in 1..Len(g) /\ 1 \in 1..Len(all)
    BY <1>2, <1>7, <1>8, <1>15, EmptySeq
  <2> QED
    BY <1>2, <1>9, <1>12, <1>15, <2>1
<1>17. c \o g \o p = p
  BY <1>3, <1>15, <1>16, ConcatEmptySeq
<1>18. ProvenanceFormed(pack.provenance)
  <2> SUFFICES ASSUME ~ProvenanceFormed(pack.provenance) PROVE FALSE
    OBVIOUS
  <2>1. 1 \in 1..Len(p) /\ 1 \in 1..Len(all)
    BY <1>3, <1>7, <1>8, <1>17, EmptySeq
  <2> QED
    BY <1>3, <1>9, <1>11, <1>17, <2>1
<1>19. StructureOk(pack)
  <2> SUFFICES ASSUME s # <<>> PROVE FALSE
    BY <1>4
  <2>1. Len(p) \in Nat /\ Len(p \o s) = Len(p) + 1 /\ (p \o s)[Len(p) + 1] = s[1]
    <3>1. /\ Len(p) \in Nat /\ Len(p \o s) = Len(p) + Len(s)
          /\ s # <<>> => (p \o s)[Len(p) + 1] = s[1]
      BY <1>3, <1>4, PrefixStays
    <3> QED
      BY <1>4, <3>1
  <2>2. Len(p) + 1 \in 1..Len(p \o s) /\ Len(p) + 1 <= 2
    BY <1>3, <2>1
  <2>3. Len(p) + 1 \in 1..Len(all) /\ all[Len(p) + 1] = s[1]
    BY <1>7, <1>8, <1>10, <1>17, <2>1, <2>2
  <2> QED
    BY <1>4, <1>9, <2>2, <2>3
<1> QED
  BY <1>1, <1>2, <1>14, <1>16, <1>18, <1>19

\* No ability of an approved pack runs outside of simulation, or in production.
LEMMA ApprovedIsHarmless ==
    ASSUME PackInv, FindingLimit >= 2, NEW keys, Review(pack, keys).verdict = "approved",
           pack.kind = "ability-pack", NEW a \in ToSet(pack.items)
    PROVE  a.supported_providers \subseteq {"simulate"} /\ ~a.production_allowed
<1> DEFINE c == Finding("block", "checksum_invalid", ~DigestMatches(pack))
           g == SignatureFindings(pack, keys)
           p == ProvenanceFindings(pack)
           s == Finding("block", "structure_invalid", ~StructureOk(pack))
           t == SafetyFindings(pack)
<1>1. c \in Seq(Findings) /\ g \in Seq(Findings) /\ p \in Seq(Findings) /\ s \in Seq(Findings) /\ t \in Seq(Findings)
  BY FindingMade, SignatureListed, ProvenanceListed, SafetyListed DEF Codes
<1>2. FindingLimit >= 1
  BY ContentAssumption
<1>3. AllFindings(pack, keys) = <<>>
  BY <1>2, AllListed, KeptFindings
<1>4. AllFindings(pack, keys) = c \o g \o p \o s \o t
  BY DEF AllFindings
<1> HIDE DEF c, g, p, s, t
<1>5. c \o g \o p \o s \in Seq(Findings)
  BY <1>1, PrefixStays
<1>6. t = <<>>
  BY <1>1, <1>3, <1>4, <1>5, ConcatSimplifications
<1> QED
  BY <1>6, SafetyListed, ItemFindings DEF t

LEMMA SignatureMade ==
    ASSUME NEW keys, VerifySignature(pack, keys) \notin {None, "invalid"}
    PROVE  LET s == pack.integrity.signature
           IN  /\ pack.integrity # None /\ s # None
               /\ s.key_id \in DOMAIN Trust(keys)
               /\ s.value = <<Trust(keys)[s.key_id], Payload(pack)>>
  BY DEF VerifySignature

\* The structure was found good without the signature and without keys, and with both the
\* pack loads.
LEMMA StructureParses ==
    ASSUME PackInv, NEW keys, DigestMatches(pack), VerifySignature(pack, keys) # "invalid",
           StructureOk(pack)
    PROVE  Parses(pack, keys)
<1> DEFINE u == Unsigned(pack)
<1>1. /\ u.kind = pack.kind /\ u.items = pack.items /\ u.provenance = pack.provenance
      /\ u.formed = pack.formed
  <2>1. CASE pack.integrity = None
    BY <2>1 DEF Unsigned
  <2>2. CASE pack.integrity # None
    BY <2>2 DEF Unsigned, PackInv
  <2> QED
    BY <2>1, <2>2
<1>2. Parses(u, <<>>)
  BY DEF StructureOk
<1>3. VerifyIntegrity(pack, keys)
  BY DEF VerifyIntegrity
<1> HIDE DEF u
<1>4. CASE pack.kind = "ability-pack"
  BY <1>1, <1>2, <1>3, <1>4 DEF Parses, ParsesAbilities
<1>5. CASE pack.kind = "campaign-pack"
  BY <1>1, <1>2, <1>3, <1>5 DEF Parses, ParsesCampaigns
<1>6. CASE pack.kind = "detection-pack"
  BY <1>1, <1>2, <1>3, <1>6 DEF Parses, ParsesDetections
<1> QED
  BY <1>4, <1>5, <1>6 DEF PackInv

\* No store replaces a key of the package.
LEMMA TrustKeepsBuiltin ==
    ASSUME NEW keys, NEW id \in DOMAIN BuiltinKeys, id \in DOMAIN Trust(keys)
    PROVE  Trust(keys)[id] = BuiltinKeys[id]
<1>1. \A x \in DOMAIN keys \intersect DOMAIN BuiltinKeys : keys[x] = BuiltinKeys[x]
  <2> SUFFICES ASSUME ~(\A x \in DOMAIN keys \intersect DOMAIN BuiltinKeys : keys[x] = BuiltinKeys[x]) PROVE FALSE
    OBVIOUS
  <2>1. Trust(keys) = <<>>
    BY DEF Trust
  <2> QED
    BY <2>1
<1>2. Trust(keys) = WithBuiltin(keys)
  BY <1>1 DEF Trust
<1> QED
  BY <1>1, <1>2 DEF WithBuiltin

LEMMA ApprovedIsSigned == PackInv /\ FindingLimit >= 2 => ApprovedAsSigned
<1> SUFFICES ASSUME PackInv, FindingLimit >= 2, NEW keys \in ReviewerKeys,
                    Review(pack, keys).verdict = "approved"
             PROVE  \E id \in DOMAIN Trust(keys) :
                       <<Trust(keys)[id], [kind |-> pack.kind, content_id |-> pack.pack_id,
                                           digest |-> pack.items, provenance |-> pack.provenance]>> \in signed
  BY DEF ApprovedAsSigned
<1>1. /\ DigestMatches(pack) /\ VerifySignature(pack, keys) \notin {None, "invalid"}
      /\ ProvenanceFormed(pack.provenance)
  BY ReviewPasses
<1> DEFINE s == pack.integrity.signature
<1>2. /\ pack.integrity # None /\ s # None /\ s.key_id \in DOMAIN Trust(keys)
      /\ s.value = <<Trust(keys)[s.key_id], Payload(pack)>>
  BY <1>1, SignatureMade
<1>3. Payload(pack) = [kind |-> pack.kind, content_id |-> pack.pack_id,
                       digest |-> pack.items, provenance |-> pack.provenance]
  BY <1>1 DEF Payload, DigestMatches, Digest, ProvenanceFormed
<1>4. s.value \in signed
  BY <1>2 DEF PackInv
<1> QED
  BY <1>2, <1>3, <1>4

LEMMA ReviewedPacksLoad == PackInv /\ FindingLimit >= 2 => ReviewedLoads
<1> SUFFICES ASSUME PackInv, FindingLimit >= 2, NEW keys \in ReviewerKeys,
                    Review(pack, keys).verdict # "blocked"
             PROVE  /\ Parses(pack, keys)
                    /\ \A id \in DOMAIN BuiltinKeys :
                          pack.integrity.signature.key_id = id =>
                             pack.integrity.signature.value[1] = BuiltinKeys[id]
  BY DEF ReviewedLoads
<1>1. /\ DigestMatches(pack) /\ VerifySignature(pack, keys) \notin {None, "invalid"}
      /\ StructureOk(pack)
  BY ReviewPasses
<1>2. Parses(pack, keys)
  BY <1>1, StructureParses
<1>3. /\ pack.integrity.signature.key_id \in DOMAIN Trust(keys)
      /\ pack.integrity.signature.value[1] = Trust(keys)[pack.integrity.signature.key_id]
  BY <1>1, SignatureMade
<1> QED
  BY <1>2, <1>3, TrustKeepsBuiltin

-----------------------------------------------------------------------------
(* The run.                                                                    *)

\* What a run keeps from its start, and what it was planned.
Started ==
    /\ run = [status |-> run.status, campaign |-> run.campaign, abilities |-> run.abilities,
              mode |-> run.mode, target |-> run.target, manifest |-> run.manifest, network |-> run.network,
              planned |-> run.planned, plan |-> run.plan, results |-> run.results]
    /\ run.mode \in DOMAIN ModeProvider /\ run.manifest \in Manifests
    /\ LoadedAbilities # None /\ run.abilities = LoadedAbilities
    /\ StepsFormed(run.campaign)
    /\ run.campaign.steps \in Seq(ToSet(run.campaign.steps))
    /\ run.planned \in Nat /\ run.planned <= now
    /\ \A i \in 1..Len(run.campaign.steps) : run.plan.actions[i] = Decide(run, i, run.planned)

\* A step that was passed was completed, or the campaign goes on without it.
Passed(i) == run.results[i].outcome = "completed" \/ run.campaign.steps[i].on_failure = "continue"

\* The results: those of the first steps, each as decided at its time, in the order of time.
Progress ==
    /\ run.results \in Seq(ToSet(run.results))
    /\ Len(run.results) <= Len(run.campaign.steps)
    /\ run.status = "running" => Len(run.results) < Len(run.campaign.steps)
    /\ \A i \in 1..Len(run.results) :
          LET r == run.results[i]
          IN  /\ r.time \in Nat /\ run.planned <= r.time /\ r.time <= now
              /\ r.decision = Decide(run, i, r.time)
              /\ ~r.decision.allowed => r.outcome = "prevented"
    /\ \A i, j \in 1..Len(run.results) : i < j => run.results[i].time <= run.results[j].time
    /\ \A i \in 1..Len(run.results) : i < Len(run.results) \/ run.status = "running" => Passed(i)

RunInv == run # NoRun => Started /\ Progress

AdmissionInv == now \in Nat /\ PackInv /\ RunInv

LEMMA AppendedArray ==
    ASSUME NEW s, s \in Seq(ToSet(s)), NEW e
    PROVE  /\ Append(s, e) \in Seq(ToSet(Append(s, e)))
           /\ Len(s) \in Nat /\ Len(Append(s, e)) = Len(s) + 1
           /\ \A i \in 1..Len(s) : Append(s, e)[i] = s[i]
           /\ Append(s, e)[Len(s) + 1] = e
<1> DEFINE S == ToSet(s) \union {e}
           a == Append(s, e)
<1>1. s \in Seq(S) /\ e \in S
  BY SeqMonotonic
<1> HIDE DEF S
<1>2. /\ a \in Seq(S) /\ Len(s) \in Nat /\ Len(a) = Len(s) + 1
      /\ \A i \in 1..Len(s) : a[i] = s[i]
      /\ a[Len(s) + 1] = e
  BY <1>1
<1> HIDE DEF a
<1>3. \A i \in 1..Len(a) : a[i] \in ToSet(a)
  BY <1>2 DEF ToSet
<1>4. a \in Seq(ToSet(a))
  BY <1>2, <1>3
<1> QED
  BY <1>2, <1>4 DEF a

LEMMA AdmissionInitially == Init => AdmissionInv
<1> SUFFICES ASSUME Init PROVE AdmissionInv
  OBVIOUS
<1>1. PICK c \in Contents, p \in Provenances \union {None}, i \in BOOLEAN :
         pack = [kind |-> c.kind, pack_id |-> "community", formed |-> TRUE, items |-> c.items,
                 provenance |-> p, integrity |-> IF i THEN Checksum(c.items, None) ELSE None]
  BY DEF Init
<1>2. c.kind \in {"ability-pack", "campaign-pack", "detection-pack"} /\ ItemsFormed(c.kind, c.items)
  BY AdmissionAssumption
<1>3. PackInv
  BY <1>1, <1>2 DEF PackInv, Checksum
<1> QED
  BY <1>3 DEF Init, AdmissionInv, RunInv

LEMMA EditKeepsPack == PackInv /\ EditItems => PackInv'
<1> SUFFICES ASSUME PackInv, EditItems PROVE PackInv'
  OBVIOUS
<1>0. PICK k, items, provenance, integrity :
         pack = [kind |-> k, pack_id |-> "community", formed |-> TRUE, items |-> items,
                 provenance |-> provenance, integrity |-> integrity]
  BY DEF PackInv
<1>1. PICK c \in {d \in Contents : d.kind = pack.kind}, fresh \in BOOLEAN :
         pack' = [pack EXCEPT !.items = c.items,
                              !.integrity = IF ~fresh THEN @
                                            ELSE Checksum(c.items, IF @ = None THEN None ELSE @.signature)]
  BY DEF EditItems, Write
<1> DEFINE kept == IF pack.integrity = None THEN None ELSE pack.integrity.signature
<1>2. pack' = [kind |-> pack.kind, pack_id |-> "community", formed |-> TRUE, items |-> c.items,
               provenance |-> pack.provenance,
               integrity |-> IF ~fresh THEN pack.integrity ELSE Checksum(c.items, kept)]
  BY <1>0, <1>1
<1>3. ItemsFormed(pack.kind, c.items)
  BY AdmissionAssumption
<1>4. signed' = signed /\ (kept # None => kept.value \in signed)
  BY DEF EditItems, PackInv
<1> HIDE DEF kept
<1>5. CASE fresh
  BY <1>2, <1>3, <1>4, <1>5 DEF PackInv, Checksum
<1>6. CASE ~fresh
  BY <1>2, <1>3, <1>4, <1>6 DEF PackInv
<1> QED
  BY <1>5, <1>6

LEMMA ProvenanceKeepsPack == PackInv /\ EditProvenance => PackInv'
<1> SUFFICES ASSUME PackInv, EditProvenance PROVE PackInv'
  OBVIOUS
<1>0. PICK k, items, provenance, integrity :
         pack = [kind |-> k, pack_id |-> "community", formed |-> TRUE, items |-> items,
                 provenance |-> provenance, integrity |-> integrity]
  BY DEF PackInv
<1>1. PICK p \in Provenances \union {None} : pack' = [pack EXCEPT !.provenance = p]
  BY DEF EditProvenance, Write
<1>2. pack' = [kind |-> pack.kind, pack_id |-> "community", formed |-> TRUE, items |-> pack.items,
               provenance |-> p, integrity |-> pack.integrity]
  BY <1>0, <1>1
<1>3. signed' = signed
  BY DEF EditProvenance
<1> QED
  BY <1>2, <1>3 DEF PackInv

LEMMA SignKeepsPack == PackInv /\ Sign => PackInv'
<1> SUFFICES ASSUME PackInv, Sign PROVE PackInv'
  OBVIOUS
<1>0. PICK k, items, provenance, integrity :
         pack = [kind |-> k, pack_id |-> "community", formed |-> TRUE, items |-> items,
                 provenance |-> provenance, integrity |-> integrity]
  BY DEF PackInv
<1>1. PICK signer \in Signers :
         /\ pack' = Signed(pack, signer[1], signer[2])
         /\ signed' = signed \union {Signed(pack, signer[1], signer[2]).integrity.signature.value}
  BY DEF Sign, Write
<1> DEFINE digested == [pack EXCEPT !.integrity = [digest |-> Digest(pack.items), signature |-> None]]
           made == [key_id |-> signer[1], value |-> <<signer[2], Payload(digested)>>]
<1>2. digested = [kind |-> pack.kind, pack_id |-> "community", formed |-> TRUE, items |-> pack.items,
                  provenance |-> pack.provenance,
                  integrity |-> [digest |-> Digest(pack.items), signature |-> None]]
  <2> DEFINE fresh == [digest |-> Digest(pack.items), signature |-> None]
  <2>1. pack.kind = k /\ pack.items = items /\ pack.provenance = provenance
    BY <1>0
  <2>2. digested = [pack EXCEPT !.integrity = fresh]
    OBVIOUS
  <2> HIDE DEF fresh, digested
  <2>3. digested = [kind |-> k, pack_id |-> "community", formed |-> TRUE, items |-> items,
                    provenance |-> provenance, integrity |-> fresh]
    BY <1>0, <2>2
  <2> QED
    BY <2>1, <2>3 DEF fresh
<1>3. pack' = [digested EXCEPT !.integrity.signature = made]
  BY <1>1 DEF Signed
<1> HIDE DEF digested, made
<1>4. pack' = [kind |-> pack.kind, pack_id |-> "community", formed |-> TRUE, items |-> pack.items,
               provenance |-> pack.provenance,
               integrity |-> [digest |-> Digest(pack.items), signature |-> made]]
  BY <1>2, <1>3
<1>5. signed' = signed \union {made.value}
  BY <1>1, <1>4
<1> QED
  BY <1>4, <1>5 DEF PackInv

\* The decision of a step depends on what the run keeps.
LEMMA DecisionKept ==
    ASSUME NEW r, NEW i, NEW time,
           r.abilities = run.abilities, r.campaign = run.campaign, r.mode = run.mode,
           r.target = run.target, r.manifest = run.manifest, r.network = run.network
    PROVE  Decide(r, i, time) = Decide(run, i, time)
  BY DEF Decide

LEMMA StartsRun ==
    ASSUME AdmissionInv, NEW id, NEW mode \in DOMAIN ModeProvider, NEW target, NEW manifest \in Manifests,
           NEW network, StartRun(id, mode, target, manifest, network)
    PROVE  AdmissionInv'
<1> DEFINE campaign == LoadedCampaigns[id]
           plan     == PlanCampaign(campaign, LoadedAbilities, mode, target, manifest, network, now)
<1>1. /\ LoadedAbilities # None /\ LoadedCampaigns # None /\ id \in DOMAIN LoadedCampaigns
      /\ plan # None
      /\ run' = [status |-> "running", campaign |-> campaign, abilities |-> LoadedAbilities,
                 mode |-> mode, target |-> target, manifest |-> manifest, network |-> network,
                 planned |-> now, plan |-> plan, results |-> <<>>]
      /\ UNCHANGED <<pack, edits, signed, now>>
  BY DEF StartRun
<1>2. StepsFormed(campaign) /\ campaign.steps \in Seq(ToSet(campaign.steps))
  BY <1>1, CampaignsLoad DEF AdmissionInv
<1>3. Len(campaign.steps) \in Nat /\ DOMAIN campaign.steps = 1..Len(campaign.steps) /\ Len(campaign.steps) > 0
  BY <1>2, LenProperties, EmptySeq DEF StepsFormed
<1>4. LoadedAbilities' = LoadedAbilities
  BY <1>1 DEF LoadedAbilities
<1>5. plan.actions = [i \in DOMAIN campaign.steps |->
          Authorize(LoadedAbilities[campaign.steps[i].ability_id], mode, target, manifest, network, now)]
  BY <1>1, Zenon DEF PlanCampaign
<1> HIDE DEF campaign, plan
<1>6. \A i \in 1..Len(campaign.steps) :
         plan.actions[i]
           = Authorize(LoadedAbilities[campaign.steps[i].ability_id], mode, target, manifest, network, now)
  BY <1>3, <1>5
<1>7. \A i : Decide(run', i, now)
           = Authorize(LoadedAbilities[campaign.steps[i].ability_id], mode, target, manifest, network, now)
  BY <1>1 DEF Decide
<1>8. Started'
  <2>1. \A i \in 1..Len(run'.campaign.steps) : run'.plan.actions[i] = Decide(run', i, run'.planned)
    BY <1>1, <1>6, <1>7
  <2> QED
    BY <1>1, <1>2, <1>4, <2>1 DEF Started, AdmissionInv
<1>9. Progress'
  <2>1. run'.results = <<>> /\ Len(run'.results) = 0 /\ run'.campaign = campaign
    BY <1>1
  <2>2. <<>> \in Seq(ToSet(<<>>))
    BY EmptySeq
  <2> QED
    BY <1>3, <2>1, <2>2 DEF Progress
<1>10. PackInv'
  BY <1>1 DEF AdmissionInv, PackInv
<1> QED
  BY <1>1, <1>8, <1>9, <1>10 DEF AdmissionInv, RunInv

\* A result that follows from the decision of its time keeps the invariant.
LEMMA SettleKeeps ==
    ASSUME AdmissionInv, run.status = "running", UNCHANGED <<pack, edits, signed, now>>,
           NEW result, result.time = now,
           result.decision = Decide(run, Len(run.results) + 1, now),
           ~result.decision.allowed => result.outcome = "prevented",
           Settle(result)
    PROVE  AdmissionInv'
<1> DEFINE n == Len(run.results) + 1
           steps == run.campaign.steps
           results == Append(run.results, result)
           status == IF \/ n = Len(steps)
                        \/ result.outcome # "completed" /\ steps[n].on_failure = "stop"
                     THEN "ended" ELSE "running"
<1>1. Started /\ Progress /\ now \in Nat
  BY DEF AdmissionInv, RunInv, NoRun
<1>2. run' = [run EXCEPT !.results = results, !.status = status]
  BY DEF Settle
<1>3. /\ results \in Seq(ToSet(results))
      /\ Len(run.results) \in Nat /\ Len(results) = n
      /\ \A i \in 1..Len(run.results) : results[i] = run.results[i]
      /\ results[n] = result
  BY <1>1, AppendedArray DEF Progress
<1> HIDE DEF results, status
<1>4. run' = [status |-> status, campaign |-> run.campaign, abilities |-> run.abilities,
              mode |-> run.mode, target |-> run.target, manifest |-> run.manifest, network |-> run.network,
              planned |-> run.planned, plan |-> run.plan, results |-> results]
  BY <1>1, <1>2 DEF Started
<1>5. \A i, t : Decide(run', i, t) = Decide(run, i, t)
  BY <1>4, DecisionKept
<1>6. LoadedAbilities' = LoadedAbilities /\ now' = now
  BY DEF LoadedAbilities
<1>7. Started'
  <2>1. \A i \in 1..Len(run'.campaign.steps) : run'.plan.actions[i] = Decide(run', i, run'.planned)
    BY <1>1, <1>4, <1>5 DEF Started
  <2> QED
    BY <1>1, <1>4, <1>6, <2>1 DEF Started
<1>8. Len(steps) \in Nat /\ n <= Len(steps)
  BY <1>1, <1>3, LenProperties DEF Started, Progress
<1>9. status = "running" => n < Len(steps) /\ (result.outcome = "completed" \/ steps[n].on_failure # "stop")
  BY <1>8 DEF status
<1>10. steps[n].on_failure \in {"stop", "continue"}
  <2>1. n \in DOMAIN steps
    BY <1>1, <1>3, <1>8, LenProperties DEF Started
  <2> QED
    BY <1>1, <2>1 DEF Started, StepsFormed
<1>11. Progress'
  <2>1. \A i \in 1..Len(run'.results) :
           LET r == run'.results[i]
           IN  /\ r.time \in Nat /\ run'.planned <= r.time /\ r.time <= now'
               /\ r.decision = Decide(run', i, r.time)
               /\ ~r.decision.allowed => r.outcome = "prevented"
    <3> SUFFICES ASSUME NEW i \in 1..n
                 PROVE  LET r == results[i]
                        IN  /\ r.time \in Nat /\ run.planned <= r.time /\ r.time <= now
                            /\ r.decision = Decide(run, i, r.time)
                            /\ ~r.decision.allowed => r.outcome = "prevented"
      BY <1>3, <1>4, <1>5, <1>6
    <3>1. CASE i = n
      BY <1>1, <1>3, <3>1 DEF Started
    <3>2. CASE i # n
      <4>1. i \in 1..Len(run.results)
        BY <1>3, <3>2
      <4> QED
        BY <1>1, <1>3, <4>1 DEF Progress
    <3> QED
      BY <3>1, <3>2
  <2>2. \A i, j \in 1..Len(run'.results) : i < j => run'.results[i].time <= run'.results[j].time
    <3> SUFFICES ASSUME NEW i \in 1..n, NEW j \in 1..n, i < j PROVE results[i].time <= results[j].time
      BY <1>3, <1>4
    <3>1. i \in 1..Len(run.results)
      BY <1>3
    <3>2. CASE j = n
      BY <1>1, <1>3, <3>1, <3>2 DEF Progress
    <3>3. CASE j # n
      <4>1. j \in 1..Len(run.results)
        BY <1>3, <3>3
      <4> QED
        BY <1>1, <1>3, <3>1, <4>1 DEF Progress
    <3> QED
      BY <3>2, <3>3
  <2>3. \A i \in 1..Len(run'.results) : i < Len(run'.results) \/ run'.status = "running" => Passed(i)'
    <3> SUFFICES ASSUME NEW i \in 1..n, i < n \/ status = "running"
                 PROVE  results[i].outcome = "completed" \/ steps[i].on_failure = "continue"
      BY <1>3, <1>4 DEF Passed
    <3>1. CASE i = n
      BY <1>3, <1>9, <1>10, <3>1
    <3>2. CASE i # n
      <4>1. i \in 1..Len(run.results)
        BY <1>3, <3>2
      <4>2. Passed(i)
        BY <1>1, <4>1 DEF Progress
      <4> QED
        BY <1>3, <4>1, <4>2 DEF Passed
    <3> QED
      BY <3>1, <3>2
  <2>4. run'.results \in Seq(ToSet(run'.results)) /\ Len(run'.results) <= Len(run'.campaign.steps)
    BY <1>3, <1>4, <1>8
  <2>5. run'.status = "running" => Len(run'.results) < Len(run'.campaign.steps)
    BY <1>3, <1>4, <1>9
  <2> QED
    BY <2>1, <2>2, <2>3, <2>4, <2>5 DEF Progress
<1>12. PackInv'
  BY DEF AdmissionInv, PackInv
<1> QED
  BY <1>1, <1>6, <1>7, <1>11, <1>12 DEF AdmissionInv, RunInv

LEMMA RunStepKeeps == AdmissionInv /\ RunStep => AdmissionInv'
<1> SUFFICES ASSUME AdmissionInv, RunStep PROVE AdmissionInv'
  OBVIOUS
<1> DEFINE decision == Decide(run, Len(run.results) + 1, now)
<1>1. run.status = "running" /\ UNCHANGED <<pack, edits, signed, now>>
  BY DEF RunStep
<1>2. \/ ~decision.allowed /\ Settle([decision |-> decision, time |-> now, outcome |-> "prevented"])
      \/ /\ decision.allowed
         /\ \E outcome \in Outcomes(Len(run.results) + 1) :
               Settle([decision |-> decision, time |-> now, outcome |-> outcome])
  BY DEF RunStep
<1> HIDE DEF decision
<1>3. ASSUME NEW outcome, decision.allowed \/ outcome = "prevented",
             Settle([decision |-> decision, time |-> now, outcome |-> outcome])
      PROVE  AdmissionInv'
  <2> DEFINE result == [decision |-> decision, time |-> now, outcome |-> outcome]
  <2>1. /\ result.time = now /\ result.decision = decision /\ result.outcome = outcome
        /\ Settle(result)
    BY <1>3
  <2> HIDE DEF result
  <2> QED
    BY <1>1, <1>3, <2>1, SettleKeeps DEF decision
<1> QED
  BY <1>2, <1>3

\* While the pack is edited there is no run.
LEMMA WriteKeepsRun ==
    ASSUME AdmissionInv, NEW written, Write(written), PackInv' PROVE AdmissionInv'
  BY DEF AdmissionInv, RunInv, Write

LEMMA TickKeeps == AdmissionInv /\ Tick => AdmissionInv'
<1> SUFFICES ASSUME AdmissionInv, Tick PROVE AdmissionInv'
  OBVIOUS
<1>1. now \in Nat /\ now' = now + 1 /\ UNCHANGED <<pack, edits, signed, run>>
  BY DEF AdmissionInv, Tick
<1>2. PackInv'
  BY <1>1 DEF AdmissionInv, PackInv
<1>3. ASSUME run # NoRun PROVE Started' /\ Progress'
  <2>1. Started /\ Progress
    BY <1>3 DEF AdmissionInv, RunInv
  <2>2. LoadedAbilities' = LoadedAbilities
    BY <1>1 DEF LoadedAbilities
  <2>3. Started'
    BY <1>1, <2>1, <2>2 DEF Started
  <2>4. Progress'
    BY <1>1, <2>1 DEF Progress, Passed
  <2> QED
    BY <2>3, <2>4
<1> QED
  BY <1>1, <1>2, <1>3 DEF AdmissionInv, RunInv

\* AdmissionInv is inductive.
THEOREM AdmissionInvariant == Spec => []AdmissionInv
<1>1. ASSUME AdmissionInv, [Next]_vars PROVE AdmissionInv'
  <2>1. CASE EditItems
    <3>1. PICK written : Write(written)
      BY <2>1 DEF EditItems
    <3> QED
      BY <1>1, <2>1, <3>1, EditKeepsPack, WriteKeepsRun DEF AdmissionInv
  <2>2. CASE EditProvenance
    <3>1. PICK written : Write(written)
      BY <2>2 DEF EditProvenance
    <3> QED
      BY <1>1, <2>2, <3>1, ProvenanceKeepsPack, WriteKeepsRun DEF AdmissionInv
  <2>3. CASE Sign
    <3>1. PICK written : Write(written)
      BY <2>3 DEF Sign
    <3> QED
      BY <1>1, <2>3, <3>1, SignKeepsPack, WriteKeepsRun DEF AdmissionInv
  <2>4. CASE Tick
    BY <1>1, <2>4, TickKeeps
  <2>5. ASSUME NEW id, NEW mode \in DOMAIN ModeProvider, NEW target \in Targets, NEW manifest \in Manifests,
               NEW network \in BOOLEAN, StartRun(id, mode, target, manifest, network)
        PROVE  AdmissionInv'
    BY <1>1, <2>5, StartsRun
  <2>6. CASE RunStep
    BY <1>1, <2>6, RunStepKeeps
  <2>7. CASE UNCHANGED vars
    BY <1>1, <2>7 DEF vars, AdmissionInv, PackInv, RunInv, Started, Progress, Passed, LoadedAbilities
  <2> QED
    BY <1>1, <2>1, <2>2, <2>3, <2>4, <2>5, <2>6, <2>7 DEF Next
<1> QED
  BY <1>1, AdmissionInitially, PTL DEF Spec

-----------------------------------------------------------------------------
(* The properties.                                                             *)

\* api.run_campaign loads the registries without keys: an id means what its pack says, or
\* nothing loads.
THEOREM RegistryUnambiguousHolds == Spec => []RegistryUnambiguous
<1>1. AdmissionInv => RegistryUnambiguous
  <2> SUFFICES ASSUME PackInv, LoadedAbilities # None,
                      NEW a \in ToSet(BuiltinAbilities.items)
                                  \union (IF pack.kind = "ability-pack" THEN ToSet(pack.items) ELSE {})
               PROVE  LoadedAbilities[a.id] = a
    BY DEF AdmissionInv, RegistryUnambiguous
  <2> QED
    BY AbilitiesLoad
<1> QED
  BY <1>1, AdmissionInvariant, PTL

\* The runner decides each step as the plan that was shown, unless the manifest expires in
\* between, and then it prevents that step and all later ones.
THEOREM PlanPredictsRunHolds == Spec => []PlanPredictsRun
<1>1. AdmissionInv => PlanPredictsRun
  <2> SUFFICES ASSUME AdmissionInv, run # NoRun, NEW i \in DOMAIN run.results
               PROVE  LET r == run.results[i]
                      IN  IF r.time < run.manifest.expires_at \/ run.planned >= run.manifest.expires_at
                          THEN r.decision = run.plan.actions[i]
                          ELSE /\ r.decision.reason = "expired"
                               /\ \A j \in DOMAIN run.results : j > i => run.results[j].outcome = "prevented"
    BY DEF PlanPredictsRun
  <2> DEFINE expiry == run.manifest.expires_at
             n == Len(run.results)
  <2>1. Started /\ Progress
    BY DEF AdmissionInv, RunInv
  <2>2. expiry \in Nat /\ run.planned \in Nat /\ run.mode \in DOMAIN ModeProvider
    BY <2>1, AdmissionAssumption DEF Started
  <2>3. n \in Nat /\ DOMAIN run.results = 1..n /\ Len(run.campaign.steps) \in Nat /\ n <= Len(run.campaign.steps)
    BY <2>1, LenProperties DEF Progress, Started
  <2>4. \A j \in 1..n :
           /\ run.results[j].time \in Nat /\ run.planned <= run.results[j].time
           /\ run.results[j].decision = Decide(run, j, run.results[j].time)
           /\ ~run.results[j].decision.allowed => run.results[j].outcome = "prevented"
    BY <2>1 DEF Progress
  <2>5. \A j \in 1..n : run.plan.actions[j] = Decide(run, j, run.planned)
    BY <2>1, <2>3 DEF Started
  <2> HIDE DEF expiry, n
  <2>6. ASSUME run.results[i].time < expiry \/ run.planned >= expiry
        PROVE  run.results[i].decision = run.plan.actions[i]
    <3>1. run.results[i].time < expiry <=> run.planned < expiry
      BY <2>2, <2>3, <2>4, <2>6
    <3>2. Expired(run.manifest, run.results[i].time) = Expired(run.manifest, run.planned)
      BY <2>2, <2>3, <2>4, <3>1, ExpiredAlike DEF expiry
    <3>3. Decide(run, i, run.results[i].time) = Decide(run, i, run.planned)
      BY <3>2, SameDecision DEF Decide
    <3> QED
      BY <2>3, <2>4, <2>5, <3>3
  <2>7. ASSUME NEW j \in 1..n, run.results[j].time >= expiry
        PROVE  run.results[j].decision = [allowed |-> FALSE, reason |-> "expired"]
    <3>1. Decide(run, j, run.results[j].time) = [allowed |-> FALSE, reason |-> "expired"]
      <4>1. run.manifest.expires_at \in Nat /\ run.results[j].time \in Nat
        BY <2>2, <2>4 DEF expiry
      <4>2. run.results[j].time >= run.manifest.expires_at
        BY <2>7 DEF expiry
      <4> QED
        BY <2>2, <4>1, <4>2, ExpiredDenies DEF Decide
    <3> QED
      BY <2>4, <3>1
  <2>8. ASSUME run.results[i].time >= expiry
        PROVE  /\ run.results[i].decision.reason = "expired"
               /\ \A j \in 1..n : j > i => run.results[j].outcome = "prevented"
    <3>1. run.results[i].decision.reason = "expired"
      BY <2>3, <2>7, <2>8
    <3>2. ASSUME NEW j \in 1..n, j > i PROVE run.results[j].outcome = "prevented"
      <4>1. run.results[i].time <= run.results[j].time
        BY <2>1, <2>3, <3>2 DEF Progress, n
      <4>2. run.results[j].time >= expiry
        BY <2>2, <2>3, <2>4, <2>8, <4>1
      <4>3. run.results[j].decision = [allowed |-> FALSE, reason |-> "expired"]
        BY <2>7, <4>2
      <4> QED
        BY <2>4, <4>3
    <3> QED
      BY <3>1, <3>2
  <2>9. run.results[i].time < expiry \/ run.results[i].time >= expiry
    BY <2>2, <2>3, <2>4
  <2> QED
    BY <2>3, <2>6, <2>8, <2>9 DEF expiry
<1> QED
  BY <1>1, AdmissionInvariant, PTL

\* The runner reaches a step only after what it depends on: the loader accepts only
\* dependencies on earlier steps, and the loop ends where a step fails that may not.
THEOREM DependenciesRespectedHolds == Spec => []DependenciesRespected
<1>1. AdmissionInv => DependenciesRespected
  <2> SUFFICES ASSUME AdmissionInv, run # NoRun, NEW i \in DOMAIN run.results,
                      NEW d \in run.campaign.steps[i].depends_on
               PROVE  \E j \in 1..(i - 1) :
                         /\ run.campaign.steps[j].id = d
                         /\ run.results[j].outcome = "completed" \/ run.campaign.steps[j].on_failure = "continue"
    BY DEF DependenciesRespected
  <2>1. Started /\ Progress
    BY DEF AdmissionInv, RunInv
  <2>2. /\ Len(run.results) \in Nat /\ DOMAIN run.results = 1..Len(run.results)
        /\ Len(run.campaign.steps) \in Nat /\ DOMAIN run.campaign.steps = 1..Len(run.campaign.steps)
        /\ Len(run.results) <= Len(run.campaign.steps)
    BY <2>1, LenProperties DEF Progress, Started
  <2>3. i \in DOMAIN run.campaign.steps
    BY <2>2
  <2>4. PICK j \in 1..(i - 1) : run.campaign.steps[j].id = d
    BY <2>1, <2>3 DEF Started, StepsFormed
  <2>5. j \in 1..Len(run.results) /\ j < Len(run.results)
    BY <2>2
  <2>6. Passed(j)
    BY <2>1, <2>5 DEF Progress
  <2> QED
    BY <2>4, <2>6 DEF Passed
<1> QED
  BY <1>1, AdmissionInvariant, PTL

LEMMA ApprovedSimulates == AdmissionInv /\ FindingLimit >= 2 => ApprovedOnlySimulates
<1> SUFFICES ASSUME AdmissionInv, FindingLimit >= 2, run # NoRun, NEW i \in DOMAIN run.results,
                    run.results[i].outcome # "prevented", pack.kind = "ability-pack",
                    run.campaign.steps[i].ability_id \in {a.id : a \in ToSet(pack.items)},
                    NEW keys \in ReviewerKeys, Review(pack, keys).verdict = "approved"
             PROVE  run.mode = "simulate" /\ run.target.environment # "production"
  BY DEF ApprovedOnlySimulates
<1>1. Started /\ Progress /\ PackInv
  BY DEF AdmissionInv, RunInv
<1>2. PICK a \in ToSet(pack.items) : a.id = run.campaign.steps[i].ability_id
  OBVIOUS
<1>3. run.abilities[run.campaign.steps[i].ability_id] = a
  BY <1>1, <1>2, AbilitiesLoad DEF Started
<1>4. a.supported_providers \subseteq {"simulate"} /\ ~a.production_allowed
  BY <1>1, <1>2, ApprovedIsHarmless
<1>5. i \in 1..Len(run.results)
  BY <1>1, LenProperties DEF Progress
<1>6. Authorize(a, run.mode, run.target, run.manifest, run.network, run.results[i].time).allowed
  <2>1. Decide(run, i, run.results[i].time).allowed
    BY <1>1, <1>5 DEF Progress
  <2> QED
    BY <1>3, <2>1 DEF Decide
<1> DEFINE checks == Checks(a, run.mode, run.target, run.manifest, run.network, run.results[i].time)
<1>7. ~checks[6][1] /\ ~checks[10][1]
  BY <1>6, AllowedPassesChecks
<1>8. ModeProvider[run.mode] \in a.supported_providers
  BY <1>1, <1>7 DEF Checks, Started
<1>9. run.mode = "simulate"
  BY <1>1, <1>4, <1>8 DEF Started, ModeProvider
<1>10. run.target.environment # "production"
  BY <1>4, <1>7 DEF Checks
<1> QED
  BY <1>9, <1>10

\* review_community_pack keeps 200 findings, and two are enough: what it approves was signed
\* as it is, loads with the reviewer's keys, and runs only in simulation off production.
THEOREM ApprovalIsEarnedHolds == FindingLimit >= 2 => (Spec => []ApprovalIsEarned)
<1> SUFFICES ASSUME FindingLimit >= 2 PROVE Spec => []ApprovalIsEarned
  OBVIOUS
<1>1. AdmissionInv => ApprovalIsEarned
  BY ApprovedIsSigned, ReviewedPacksLoad, ApprovedSimulates DEF AdmissionInv, ApprovalIsEarned
<1> QED
  BY <1>1, AdmissionInvariant, PTL

-----------------------------------------------------------------------------
(* The import of a flow.                                                       *)

\* A set of numbers has a least one.
LEMMA LeastOfSome ==
    ASSUME NEW S \in SUBSET Nat, S # {}
    PROVE  Min(S) \in S /\ \A y \in S : Min(S) <= y
<1>1. PICK x \in S : \A y \in S : ~(<<y, x>> \in Less)
  BY LessWellFounded, WFMin
<1>2. ASSUME NEW y \in S PROVE x <= y
  <2>1. x \in Nat /\ y \in Nat
    OBVIOUS
  <2>2. y < x => <<y, x>> \in Less
    BY <2>1 DEF Less
  <2> QED
    BY <1>1, <2>1, <2>2
<1> QED
  BY <1>2, Zenon DEF Min

\* One turn of the loop that orders the actions.
Place(order, mapped, incoming) ==
    LET ready == Ready(incoming, mapped \ ToSet(order))
    IN  IF ready = {} THEN order ELSE Append(order, Min(ready))

\* The turns of the loop: what has been placed after each.
Turns(f, C, mapped, incoming) ==
    f = [n \in 0..C |-> IF n = 0 THEN <<>> ELSE Place(f[n - 1], mapped, incoming)]

LEMMA TurnsExist ==
    ASSUME NEW mapped, NEW incoming, NEW C \in Nat
    PROVE  \E f : Turns(f, C, mapped, incoming)
<1> DEFINE Exist(n) == \E f : Turns(f, n, mapped, incoming)
           T == {n \in Nat : Exist(n)}
<1>1. 0 \in T
  <2>1. Turns([n \in 0..0 |-> <<>>], 0, mapped, incoming)
    BY DEF Turns
  <2> QED
    BY <2>1
<1>2. ASSUME NEW n \in Nat, n \in T PROVE n + 1 \in T
  <2>1. PICK f : Turns(f, n, mapped, incoming)
    BY <1>2
  <2> DEFINE g == [k \in 0..(n + 1) |-> IF k <= n THEN f[k] ELSE Place(f[n], mapped, incoming)]
  <2>2. \A k \in 0..n : f[k] = IF k = 0 THEN <<>> ELSE Place(f[k - 1], mapped, incoming)
    BY <2>1 DEF Turns
  <2>3. \A k \in 0..(n + 1) : g[k] = IF k = 0 THEN <<>> ELSE Place(g[k - 1], mapped, incoming)
    <3> SUFFICES ASSUME NEW k \in 0..(n + 1)
                 PROVE  g[k] = IF k = 0 THEN <<>> ELSE Place(g[k - 1], mapped, incoming)
      OBVIOUS
    <3>1. CASE k = 0
      BY <2>2, <3>1
    <3>2. CASE k # 0
      <4>1. k - 1 \in 0..n /\ g[k - 1] = f[k - 1]
        BY <3>2
      <4>2. g[k] = Place(f[k - 1], mapped, incoming)
        BY <2>2, <3>2
      <4> QED
        BY <3>2, <4>1, <4>2
    <3> QED
      BY <3>1, <3>2
  <2>4. Turns(g, n + 1, mapped, incoming)
    BY <2>3 DEF Turns
  <2> HIDE DEF g
  <2> QED
    BY <2>4
<1>3. C \in T
  <2> HIDE DEF T
  <2> QED
    BY <1>1, <1>2, SetInduction
<1> QED
  BY <1>3

\* An order of some of the actions: each once, after its causes, the first that could come.
Ordered(o, m, mapped, incoming) ==
    /\ o \in Seq(mapped) /\ Len(o) = m
    /\ \A k, l \in 1..m : o[k] = o[l] => k = l
    /\ \A k \in 1..m : \A j \in incoming[o[k]] : \E l \in 1..(k - 1) : o[l] = j
    /\ \A k \in 1..m : \A x \in mapped :
          /\ \A l \in 1..(k - 1) : o[l] # x
          /\ \A j \in incoming[x] : \E l \in 1..(k - 1) : o[l] = j
          => o[k] <= x

\* What the causes of each action rest on ends: each comes before it in some order.
Causal(mapped, incoming) ==
    \E rank \in [mapped -> Nat] : \A i \in mapped : \A j \in incoming[i] : rank[j] < rank[i]

LEMMA PlaceKeepsOrder ==
    ASSUME NEW mapped \in SUBSET Nat, IsFiniteSet(mapped), NEW incoming \in [mapped -> SUBSET mapped],
           Causal(mapped, incoming), NEW m \in Nat, m < Cardinality(mapped), NEW o,
           Ordered(o, m, mapped, incoming)
    PROVE  Ordered(Place(o, mapped, incoming), m + 1, mapped, incoming)
<1> DEFINE remaining == mapped \ ToSet(o)
           ready == Ready(incoming, remaining)
           s == Min(ready)
           w == Append(o, s)
<1>1. o \in Seq(mapped) /\ Len(o) = m /\ DOMAIN o = 1..m /\ ToSet(o) = {o[l] : l \in 1..m} /\ ToSet(o) \subseteq mapped
  BY DEF Ordered, ToSet
<1>2. remaining # {}
  <2> SUFFICES ASSUME ToSet(o) = mapped PROVE FALSE
    BY <1>1
  <2>1. o \in Surjection(1..m, mapped)
    BY <1>1 DEF Surjection
  <2>2. Cardinality(mapped) <= m
    BY <2>1, FS_SurjCardinalityBound DEF ExistsSurjection
  <2> QED
    BY <2>2, FS_CardinalityType
<1>3. ready # {}
  <2>1. PICK rank \in [mapped -> Nat] : \A i \in mapped : \A j \in incoming[i] : rank[j] < rank[i]
    BY DEF Causal
  <2> DEFINE ranks == {rank[i] : i \in remaining}
  <2>2. ranks \in SUBSET Nat /\ ranks # {}
    BY <1>2
  <2>3. Min(ranks) \in ranks /\ \A y \in ranks : Min(ranks) <= y
    <3> HIDE DEF ranks
    <3> QED
      BY <2>2, LeastOfSome
  <2>4. PICK x \in remaining : Min(ranks) = rank[x]
    BY <2>3
  <2>5. \A y \in remaining : rank[x] <= rank[y]
    <3> SUFFICES ASSUME NEW y \in remaining PROVE rank[x] <= rank[y]
      OBVIOUS
    <3>1. rank[y] \in ranks
      OBVIOUS
    <3> HIDE DEF ranks
    <3> QED
      BY <2>3, <2>4, <3>1
  <2>6. \A j \in incoming[x] : j \notin remaining
    <3> SUFFICES ASSUME NEW j \in incoming[x], j \in remaining PROVE FALSE
      OBVIOUS
    <3>1. rank[j] < rank[x] /\ rank[x] <= rank[j] /\ rank[j] \in Nat /\ rank[x] \in Nat
      BY <2>1, <2>5
    <3> QED
      BY <3>1
  <2>7. x \in ready
    BY <2>6 DEF Ready
  <2> QED
    BY <2>7
<1>4. /\ s \in remaining /\ \A j \in incoming[s] : j \notin remaining
      /\ \A y \in ready : s <= y
  <2>1. ready \in SUBSET Nat
    BY DEF Ready
  <2>2. s \in ready /\ \A y \in ready : s <= y
    <3> HIDE DEF ready
    <3> QED
      BY <1>3, <2>1, LeastOfSome
  <2>3. s \in remaining /\ incoming[s] \intersect remaining = {}
    <3> HIDE DEF s
    <3> QED
      BY <2>2 DEF Ready
  <2> QED
    BY <2>2, <2>3
<1>5. Place(o, mapped, incoming) = w
  BY <1>3 DEF Place
<1> HIDE DEF s
<1>6. w \in Seq(mapped) /\ Len(w) = m + 1 /\ w[m + 1] = s /\ \A k \in 1..m : w[k] = o[k]
  BY <1>1, <1>4
<1> HIDE DEF w
<1>7. \A j \in incoming[s] : \E l \in 1..m : o[l] = j
  BY <1>1, <1>4
<1>8. \A l \in 1..m : o[l] # s
  BY <1>1, <1>4
<1>9. \A k, l \in 1..(m + 1) : w[k] = w[l] => k = l
  BY <1>6, <1>8 DEF Ordered
<1>10. ASSUME NEW k \in 1..(m + 1), NEW j \in incoming[w[k]] PROVE \E l \in 1..(k - 1) : w[l] = j
  <2>1. CASE k = m + 1
    BY <1>6, <1>7, <1>10, <2>1
  <2>2. CASE k # m + 1
    <3>1. k \in 1..m /\ j \in incoming[o[k]]
      BY <1>6, <1>10, <2>2
    <3>2. PICK l \in 1..(k - 1) : o[l] = j
      BY <3>1 DEF Ordered
    <3> QED
      BY <1>6, <3>1, <3>2
  <2> QED
    BY <2>1, <2>2
<1>11. ASSUME NEW k \in 1..(m + 1), NEW x \in mapped,
              \A l \in 1..(k - 1) : w[l] # x,
              \A j \in incoming[x] : \E l \in 1..(k - 1) : w[l] = j
       PROVE  w[k] <= x
  <2>1. \A l \in 1..(k - 1) : l \in 1..m /\ w[l] = o[l]
    BY <1>6
  <2>2. CASE k = m + 1
    <3>1. x \in remaining
      BY <1>1, <1>11, <2>1, <2>2
    <3>2. \A j \in incoming[x] : j \in ToSet(o)
      BY <1>1, <1>11, <2>1, <2>2
    <3>3. x \in ready
      BY <3>1, <3>2 DEF Ready
    <3> QED
      BY <1>4, <1>6, <2>2, <3>3
  <2>3. CASE k # m + 1
    <3>1. k \in 1..m /\ \A l \in 1..(k - 1) : o[l] # x
      BY <1>11, <2>1, <2>3
    <3>2. \A j \in incoming[x] : \E l \in 1..(k - 1) : o[l] = j
      BY <1>11, <2>1
    <3>3. o[k] <= x
      BY <3>1, <3>2 DEF Ordered
    <3> QED
      BY <1>6, <3>1, <3>3
  <2> QED
    BY <2>2, <2>3
<1> QED
  BY <1>5, <1>6, <1>9, <1>10, <1>11 DEF Ordered

\* The loop places every action.
LEMMA ImportOrders ==
    ASSUME NEW mapped \in SUBSET Nat, IsFiniteSet(mapped), NEW incoming \in [mapped -> SUBSET mapped],
           Causal(mapped, incoming)
    PROVE  Ordered(ImportOrder(mapped, incoming), Cardinality(mapped), mapped, incoming)
<1> DEFINE C == Cardinality(mapped)
           placed == CHOOSE f : Turns(f, C, mapped, incoming)
           T == {n \in Nat : n <= C => Ordered(placed[n], n, mapped, incoming)}
<1>1. C \in Nat
  BY FS_CardinalityType
<1>2. Turns(placed, C, mapped, incoming)
  <2> HIDE DEF C
  <2> QED
    BY <1>1, TurnsExist
<1>3. ImportOrder(mapped, incoming) = placed[C]
  BY Zenon DEF ImportOrder, Turns, Place
<1> HIDE DEF placed, C
<1>4. \A n \in 0..C : placed[n] = IF n = 0 THEN <<>> ELSE Place(placed[n - 1], mapped, incoming)
  BY <1>2 DEF Turns
<1>5. 0 \in T
  <2>1. Ordered(<<>>, 0, mapped, incoming)
    BY DEF Ordered
  <2> QED
    BY <1>1, <1>4, <2>1
<1>6. ASSUME NEW n \in Nat, n \in T PROVE n + 1 \in T
  <2> SUFFICES ASSUME n + 1 <= C PROVE Ordered(placed[n + 1], n + 1, mapped, incoming)
    OBVIOUS
  <2>1. Ordered(placed[n], n, mapped, incoming)
    BY <1>1, <1>6
  <2>2. placed[n + 1] = Place(placed[n], mapped, incoming)
    BY <1>1, <1>4
  <2>3. n < Cardinality(mapped)
    BY <1>1 DEF C
  <2> QED
    BY <2>1, <2>2, <2>3, PlaceKeepsOrder
<1>7. C \in T
  <2> HIDE DEF T
  <2> QED
    BY <1>1, <1>5, <1>6, SetInduction
<1> QED
  BY <1>1, <1>3, <1>7 DEF C

InPlace(o, n) == \A k \in 1..n : o[k] = k

Backward(incoming, n) ==
    /\ incoming \in [1..n -> SUBSET (1..n)]
    /\ \A i \in 1..n : \A j \in incoming[i] : j < i

\* Actions that come after their causes already keep their places.
LEMMA OrderKept ==
    ASSUME NEW n \in Nat, NEW incoming, Backward(incoming, n), NEW o, Ordered(o, n, 1..n, incoming)
    PROVE  InPlace(o, n)
<1> DEFINE T == {m \in Nat : m <= n => \A k \in 1..m : o[k] = k}
<1>1. 0 \in T
  OBVIOUS
<1>2. ASSUME NEW m \in Nat, m \in T PROVE m + 1 \in T
  <2> SUFFICES ASSUME m + 1 <= n PROVE o[m + 1] = m + 1
    BY <1>2
  <2>1. \A l \in 1..m : o[l] = l
    BY <1>2
  <2>2. o[m + 1] \in 1..n
    BY DEF Ordered
  <2>3. \A l \in 1..m : o[m + 1] # l
    BY <2>1 DEF Ordered
  <2>4. o[m + 1] <= m + 1
    <3> DEFINE x == m + 1
    <3>1. x \in 1..n /\ x - 1 = m
      OBVIOUS
    <3>2. \A l \in 1..(x - 1) : o[l] # x
      BY <2>1
    <3>3. \A j \in incoming[x] : \E l \in 1..(x - 1) : o[l] = j
      <4> SUFFICES ASSUME NEW j \in incoming[x] PROVE \E l \in 1..(x - 1) : o[l] = j
        OBVIOUS
      <4>1. j \in 1..n /\ j < x
        BY <3>1 DEF Backward
      <4>2. j \in 1..m /\ o[j] = j
        BY <2>1, <4>1
      <4> QED
        BY <3>1, <4>2
    <3> HIDE DEF x
    <3>4. o[x] <= x
      BY <3>1, <3>2, <3>3 DEF Ordered
    <3> QED
      BY <3>4 DEF x
  <2> QED
    BY <2>2, <2>3, <2>4
<1>3. n \in T
  <2> HIDE DEF T
  <2> QED
    BY <1>1, <1>2, SetInduction
<1> QED
  BY <1>3 DEF InPlace

\* A campaign that is exported, its actions taken in the order p, and imported again where
\* only the abilities ids are known.
Exchanged(c, abilities, p) ==
    [ExportCampaign(c, abilities) EXCEPT
        !.actions = [i \in 1..Len(c.steps) |-> ExportCampaign(c, abilities).actions[p[i]]]]

Reimported(c, abilities, p, ids) ==
    ImportCampaign(Exchanged(c, abilities, p), [a \in ids |-> abilities[a]])

MappedActions(c, p, ids) == {i \in 1..Len(c.steps) : c.steps[p[i]].ability_id \in ids}

CausesIn(c, p, mapped) ==
    [i \in mapped |-> {j \in mapped : c.steps[p[j]].id \in c.steps[p[i]].depends_on}]

\* A campaign that the loader accepts, whose abilities are all there.
Exchangeable(c, abilities) ==
    /\ StepsFormed(c) /\ c.steps \in Seq(ToSet(c.steps))
    /\ \A i \in DOMAIN c.steps : c.steps[i].ability_id \in DOMAIN abilities
    /\ None \notin DOMAIN abilities

LEMMA StepsOfCampaign ==
    ASSUME NEW c, NEW abilities, Exchangeable(c, abilities)
    PROVE  /\ Len(c.steps) \in Nat \ {0} /\ DOMAIN c.steps = 1..Len(c.steps)
           /\ \A i, j \in 1..Len(c.steps) : c.steps[i].id = c.steps[j].id => i = j
           /\ \A i, j \in 1..Len(c.steps) : c.steps[i].id \in c.steps[j].depends_on => i < j
           /\ \A j \in 1..Len(c.steps) : \A d \in c.steps[j].depends_on :
                 \E i \in 1..Len(c.steps) : c.steps[i].id = d
<1> DEFINE n == Len(c.steps)
<1>1. n \in Nat \ {0} /\ DOMAIN c.steps = 1..n
  BY EmptySeq DEF Exchangeable, StepsFormed
<1>2. \A i, j \in 1..n : c.steps[i].id = c.steps[j].id => i = j
  BY <1>1 DEF Exchangeable, StepsFormed, Distinct
<1>3. \A j \in 1..n : \A d \in c.steps[j].depends_on : \E i \in 1..(j - 1) : c.steps[i].id = d
  BY <1>1 DEF Exchangeable, StepsFormed
<1>4. ASSUME NEW i \in 1..n, NEW j \in 1..n, c.steps[i].id \in c.steps[j].depends_on PROVE i < j
  <2>1. PICK k \in 1..(j - 1) : c.steps[k].id = c.steps[i].id
    BY <1>3, <1>4
  <2>2. k \in 1..n /\ k < j
    BY <1>1, <2>1
  <2> QED
    BY <1>2, <2>1, <2>2
<1>5. \A j \in 1..n : \A i \in 1..(j - 1) : i \in 1..n
  BY <1>1
<1> QED
  BY <1>1, <1>2, <1>3, <1>4, <1>5

\* What the actions of the exchanged file say of the steps.
ActionsTold(c, abilities, p, ids) ==
    LET actions == Exchanged(c, abilities, p).actions
        known   == [a \in ids |-> abilities[a]]
    IN  /\ Exchanged(c, abilities, p).flows = 1
        /\ DOMAIN actions = 1..Len(c.steps)
        /\ \A i \in 1..Len(c.steps) :
              AbilityOf(actions[i], known)
                 = IF c.steps[p[i]].ability_id \in ids THEN c.steps[p[i]].ability_id ELSE None
        /\ \A i, j \in 1..Len(c.steps) :
              actions[i].id \in actions[j].effects <=> c.steps[p[j]].id \in c.steps[p[i]].depends_on

LEMMA ActionsOfFlow ==
    ASSUME NEW c, NEW abilities, Exchangeable(c, abilities), NEW p \in [1..Len(c.steps) -> 1..Len(c.steps)],
           NEW ids \in SUBSET DOMAIN abilities
    PROVE  ActionsTold(c, abilities, p, ids)
<1> DEFINE n == Len(c.steps)
           bundle == ExportCampaign(c, abilities)
           actions == Exchanged(c, abilities, p).actions
           known == [a \in ids |-> abilities[a]]
<1>1. n \in Nat /\ DOMAIN c.steps = 1..n
  BY StepsOfCampaign
<1>2. Exchanged(c, abilities, p).flows = 1 /\ actions = [i \in 1..n |-> bundle.actions[p[i]]]
  BY DEF Exchanged, ExportCampaign
<1>3. ASSUME NEW i \in 1..n
      PROVE  /\ actions[i].id = c.steps[p[i]].id
             /\ actions[i].ability = c.steps[p[i]].ability_id
             /\ actions[i].effects = {s.id : s \in {t \in ToSet(c.steps) : c.steps[p[i]].id \in t.depends_on}}
  <2>1. p[i] \in DOMAIN c.steps
    BY <1>1
  <2>2. actions[i] = bundle.actions[p[i]]
    BY <1>2
  <2> HIDE DEF actions
  <2> QED
    BY <2>1, <2>2 DEF ExportCampaign
<1> HIDE DEF actions
<1>4. ASSUME NEW i \in 1..n
      PROVE  AbilityOf(actions[i], known)
                = IF c.steps[p[i]].ability_id \in ids THEN c.steps[p[i]].ability_id ELSE None
  <2> DEFINE a == c.steps[p[i]].ability_id
  <2>1. a # None
    BY <1>1 DEF Exchangeable
  <2>2. actions[i].ability = a
    BY <1>3
  <2>3. DOMAIN known = ids
    OBVIOUS
  <2> HIDE DEF a, known
  <2>4. AbilityOf(actions[i], known)
           = IF {a} \intersect ids = {} THEN None ELSE CHOOSE id \in {a} \intersect ids : TRUE
    BY <2>1, <2>2, <2>3 DEF AbilityOf
  <2>5. CASE a \in ids
    <3>1. {a} \intersect ids = {a}
      BY <2>5
    <3>2. (CHOOSE id \in {a} : TRUE) = a
      OBVIOUS
    <3> QED
      BY <2>4, <2>5, <3>1, <3>2 DEF a
  <2>6. CASE a \notin ids
    BY <2>4, <2>6 DEF a
  <2> QED
    BY <2>5, <2>6
<1>5. ASSUME NEW i \in 1..n, NEW j \in 1..n
      PROVE  actions[i].id \in actions[j].effects <=> c.steps[p[j]].id \in c.steps[p[i]].depends_on
  <2>1. actions[i].id \in actions[j].effects
           <=> \E k \in 1..n : c.steps[k].id = c.steps[p[i]].id /\ c.steps[p[j]].id \in c.steps[k].depends_on
    <3> DEFINE later == {t \in ToSet(c.steps) : c.steps[p[j]].id \in t.depends_on}
    <3>1. actions[j].effects = {s.id : s \in later} /\ actions[i].id = c.steps[p[i]].id
      BY <1>3
    <3>2. actions[i].id \in actions[j].effects <=> \E s \in later : s.id = c.steps[p[i]].id
      <4> HIDE DEF later
      <4> QED
        BY <3>1
    <3>3. \A s : s \in later
             <=> \E k \in 1..n : s = c.steps[k] /\ c.steps[p[j]].id \in c.steps[k].depends_on
      BY <1>1 DEF ToSet
    <3> HIDE DEF later
    <3> QED
      BY <3>2, <3>3
  <2>2. p[i] \in 1..n
    OBVIOUS
  <2>3. \A k \in 1..n : c.steps[k].id = c.steps[p[i]].id => k = p[i]
    BY <2>2, StepsOfCampaign
  <2> QED
    BY <2>1, <2>2, <2>3
<1> QED
  BY <1>1, <1>2, <1>4, <1>5 DEF actions, ActionsTold

\* The imported campaign, given what is mapped, the causes and the order.
Built(bundle, abilities, mapped, incoming, order) ==
    LET actions == bundle.actions
        Position(i) == CHOOSE k \in DOMAIN order : order[k] = i
    IN  IF bundle.flows # 1 \/ mapped = {} \/ Len(order) # Cardinality(mapped) THEN None
        ELSE [steps |-> [k \in DOMAIN order |->
                 [id |-> k, ability_id |-> AbilityOf(actions[order[k]], abilities),
                  depends_on |-> {Position(j) : j \in incoming[order[k]]}, on_failure |-> "stop"]],
              skipped |-> Cardinality(DOMAIN actions \ mapped)]

\* What the import makes of the file: a step for each mapped action, in the order of the loop.
LEMMA FlowImported ==
    ASSUME NEW c, NEW abilities, Exchangeable(c, abilities), NEW p \in Bijection(1..Len(c.steps), 1..Len(c.steps)),
           NEW ids \in SUBSET DOMAIN abilities
    PROVE  LET mapped == MappedActions(c, p, ids)
               causes == CausesIn(c, p, mapped)
               order  == ImportOrder(mapped, causes)
               Position(i) == CHOOSE k \in DOMAIN order : order[k] = i
           IN  /\ IsFiniteSet(mapped) /\ Ordered(order, Cardinality(mapped), mapped, causes)
               /\ Reimported(c, abilities, p, ids)
                     = IF mapped = {} THEN None
                       ELSE [steps |-> [k \in DOMAIN order |->
                                [id |-> k, ability_id |-> c.steps[p[order[k]]].ability_id,
                                 depends_on |-> {Position(j) : j \in causes[order[k]]}, on_failure |-> "stop"]],
                             skipped |-> Cardinality(1..Len(c.steps) \ mapped)]
<1> DEFINE n == Len(c.steps)
           mapped == MappedActions(c, p, ids)
           causes == CausesIn(c, p, mapped)
           order == ImportOrder(mapped, causes)
           Position(i) == CHOOSE k \in DOMAIN order : order[k] = i
           file == Exchanged(c, abilities, p)
           actions == file.actions
           known == [a \in ids |-> abilities[a]]
<1>1. n \in Nat /\ p \in [1..n -> 1..n]
  BY StepsOfCampaign DEF Bijection, Injection
<1>2. /\ mapped \in SUBSET (1..n) /\ mapped \in SUBSET Nat
      /\ \A i \in mapped : c.steps[p[i]].ability_id \in ids
  BY DEF MappedActions
<1>3. IsFiniteSet(mapped) /\ Cardinality(mapped) \in Nat
  <2>1. IsFiniteSet(1..n)
    BY <1>1, FS_Interval
  <2> HIDE DEF mapped
  <2> QED
    BY <1>2, <2>1, FS_Subset, FS_CardinalityType
<1>4. causes \in [mapped -> SUBSET mapped]
  BY DEF CausesIn
<1>5. Causal(mapped, causes)
  <2> DEFINE rank == [i \in mapped |-> p[i]]
  <2>1. rank \in [mapped -> Nat]
    BY <1>1, <1>2
  <2>2. \A i \in mapped : \A j \in causes[i] : rank[j] < rank[i]
    <3> SUFFICES ASSUME NEW i \in mapped, NEW j \in causes[i] PROVE rank[j] < rank[i]
      OBVIOUS
    <3>1. j \in mapped /\ c.steps[p[j]].id \in c.steps[p[i]].depends_on
      BY DEF CausesIn
    <3>2. p[i] \in 1..n /\ p[j] \in 1..n
      BY <1>1, <1>2, <3>1
    <3>3. p[j] < p[i]
      BY <3>1, <3>2, StepsOfCampaign
    <3> QED
      BY <3>1, <3>3
  <2> HIDE DEF rank, mapped, causes
  <2> QED
    BY <2>1, <2>2 DEF Causal
<1>6. Ordered(order, Cardinality(mapped), mapped, causes)
  <2> HIDE DEF mapped, causes
  <2> QED
    BY <1>2, <1>3, <1>4, <1>5, ImportOrders
<1>7. /\ file.flows = 1 /\ DOMAIN actions = 1..n
      /\ \A i \in 1..n : AbilityOf(actions[i], known)
                            = IF c.steps[p[i]].ability_id \in ids THEN c.steps[p[i]].ability_id ELSE None
      /\ \A i, j \in 1..n : actions[i].id \in actions[j].effects <=> c.steps[p[j]].id \in c.steps[p[i]].depends_on
  <2>1. ActionsTold(c, abilities, p, ids)
    BY <1>1, ActionsOfFlow
  <2> QED
    BY <2>1 DEF ActionsTold
<1> HIDE DEF file, known
<1>8. mapped = {i \in DOMAIN actions : AbilityOf(actions[i], known) # None}
  BY <1>1, <1>7 DEF MappedActions, Exchangeable
<1>9. causes = [i \in mapped |-> {j \in mapped : actions[i].id \in actions[j].effects}]
  BY <1>2, <1>7 DEF CausesIn
<1> HIDE DEF mapped, causes, order
<1>10. \A k \in DOMAIN order : AbilityOf(actions[order[k]], known) = c.steps[p[order[k]]].ability_id
  <2>1. \A k \in DOMAIN order : order[k] \in mapped
    BY <1>6 DEF Ordered
  <2> QED
    BY <1>2, <1>7, <2>1
<1>11. Len(order) = Cardinality(mapped)
  BY <1>6 DEF Ordered
<1>12. ImportCampaign(file, known)
          = IF mapped = {} THEN None
            ELSE [steps |-> [k \in DOMAIN order |->
                     [id |-> k, ability_id |-> AbilityOf(actions[order[k]], known),
                      depends_on |-> {Position(j) : j \in causes[order[k]]}, on_failure |-> "stop"]],
                  skipped |-> Cardinality(DOMAIN actions \ mapped)]
  <2> DEFINE m == {i \in DOMAIN actions : AbilityOf(actions[i], known) # None}
             before == [i \in m |-> {j \in m : actions[i].id \in actions[j].effects}]
  <2>1. ImportCampaign(file, known) = Built(file, known, m, before, ImportOrder(m, before))
    BY Zenon DEF ImportCampaign, Built
  <2>2. m = mapped /\ before = causes
    BY <1>8, <1>9
  <2> HIDE DEF m, before
  <2>3. ImportCampaign(file, known) = Built(file, known, mapped, causes, order)
    BY <2>1, <2>2 DEF order
  <2> QED
    BY <1>7, <1>11, <2>3 DEF Built
<1>13. Reimported(c, abilities, p, ids) = ImportCampaign(file, known)
  BY DEF Reimported, file, known
<1>14. Reimported(c, abilities, p, ids)
          = IF mapped = {} THEN None
            ELSE [steps |-> [k \in DOMAIN order |->
                     [id |-> k, ability_id |-> c.steps[p[order[k]]].ability_id,
                      depends_on |-> {Position(j) : j \in causes[order[k]]}, on_failure |-> "stop"]],
                  skipped |-> Cardinality(1..n \ mapped)]
  BY <1>7, <1>10, <1>12, <1>13
<1> QED
  BY <1>3, <1>6, <1>14 DEF mapped, causes, order

\* A loaded campaign that is exported and imported again.
RoundTrip(c, abilities, p, ids) ==
    LET n       == Len(c.steps)
        result  == Reimported(c, abilities, p, ids)
        Kept(i) == c.steps[i].ability_id \in ids
    IN  IF \A i \in 1..n : ~Kept(i) THEN result = None
        ELSE /\ result # None
             /\ StepsFormed(result)
             /\ Len(result.steps) + result.skipped = n
             /\ \A i, j \in 1..n :
                   Kept(i) /\ Kept(j) /\ c.steps[i].id \in c.steps[j].depends_on =>
                      \E k \in DOMAIN result.steps : \E d \in result.steps[k].depends_on :
                          /\ result.steps[k].ability_id = c.steps[j].ability_id
                          /\ result.steps[d].ability_id = c.steps[i].ability_id
             /\ (\A i \in 1..n : Kept(i) /\ p[i] = i) =>
                   \A i \in 1..n :
                      /\ result.steps[i].ability_id = c.steps[i].ability_id
                      /\ {c.steps[d].id : d \in result.steps[i].depends_on} = c.steps[i].depends_on

\* The ids that None is kept apart from.
KnownIds ==
    {a.id : a \in (UNION {ToSet(c.items) : c \in {d \in Contents : d.kind = "ability-pack"}})
                     \union ToSet(BuiltinAbilities.items)}

LEMMA RoundTripHolds ==
    ASSUME NEW c, NEW abilities, Exchangeable(c, abilities), DOMAIN abilities \subseteq KnownIds,
           NEW p \in Bijection(1..Len(c.steps), 1..Len(c.steps)), NEW ids \in SUBSET DOMAIN abilities
    PROVE  RoundTrip(c, abilities, p, ids)
<1> DEFINE n == Len(c.steps)
           mapped == MappedActions(c, p, ids)
           causes == CausesIn(c, p, mapped)
           order == ImportOrder(mapped, causes)
           C == Cardinality(mapped)
           Position(i) == CHOOSE k \in DOMAIN order : order[k] = i
           result == Reimported(c, abilities, p, ids)
           steps == [k \in DOMAIN order |->
                        [id |-> k, ability_id |-> c.steps[p[order[k]]].ability_id,
                         depends_on |-> {Position(j) : j \in causes[order[k]]}, on_failure |-> "stop"]]
<1>1. /\ n \in Nat /\ p \in [1..n -> 1..n]
      /\ \A i, j \in 1..n : p[i] = p[j] => i = j
      /\ \A i \in 1..n : \E k \in 1..n : p[k] = i
  <2>1. n \in Nat
    BY StepsOfCampaign
  <2>2. p \in Injection(1..n, 1..n) /\ p \in Surjection(1..n, 1..n)
    BY DEF Bijection
  <2>3. \A i, j \in 1..n : p[i] = p[j] => i = j
    BY <2>2 DEF Injection, IsInjective
  <2>4. p \in [1..n -> 1..n] /\ \A i \in 1..n : \E k \in 1..n : p[k] = i
    BY <2>2 DEF Surjection
  <2> QED
    BY <2>1, <2>3, <2>4
<1>2. mapped \in SUBSET (1..n) /\ \A i \in 1..n : i \in mapped <=> c.steps[p[i]].ability_id \in ids
  BY DEF MappedActions
<1>3. /\ IsFiniteSet(mapped) /\ Ordered(order, C, mapped, causes)
      /\ result = IF mapped = {} THEN None ELSE [steps |-> steps, skipped |-> Cardinality(1..n \ mapped)]
  BY FlowImported
<1>4. C \in Nat /\ Cardinality(1..n \ mapped) \in Nat /\ C + Cardinality(1..n \ mapped) = n
  <2>1. IsFiniteSet(1..n) /\ Cardinality(1..n) = n
    BY <1>1, FS_Interval
  <2> DEFINE rest == 1..n \ mapped
  <2>2. rest \in SUBSET (1..n) /\ mapped \union rest = 1..n /\ mapped \intersect rest = {}
    BY <1>2
  <2> HIDE DEF mapped, rest
  <2>3. IsFiniteSet(rest) /\ Cardinality(rest) \in Nat /\ Cardinality(mapped) \in Nat
    BY <1>3, <2>1, <2>2, FS_Subset, FS_CardinalityType
  <2>4. Cardinality(mapped \union rest) = Cardinality(mapped) + Cardinality(rest) - Cardinality(mapped \intersect rest)
    BY <1>3, <2>3, FS_Union
  <2> QED
    <3>1. Cardinality(mapped \intersect rest) = 0
      BY <2>2, FS_EmptySet
    <3>2. Cardinality(mapped) + Cardinality(rest) = n
      <4>1. Cardinality(mapped \union rest) = n
        BY <2>1, <2>2
      <4> HIDE DEF n
      <4> QED
        BY <2>3, <2>4, <3>1, <4>1
    <3> QED
      BY <2>3, <3>2 DEF rest
<1>5. CASE \A i \in 1..n : c.steps[i].ability_id \notin ids
  <2>1. mapped = {}
    BY <1>1, <1>2, <1>5
  <2>2. result = None
    BY <1>3, <2>1
  <2> QED
    BY <1>5, <2>2 DEF RoundTrip
<1>6. CASE \E i \in 1..n : c.steps[i].ability_id \in ids
  <2>1. mapped # {}
    BY <1>1, <1>2, <1>6
  <2>2. result = [steps |-> steps, skipped |-> Cardinality(1..n \ mapped)]
    BY <1>3, <2>1
  <2>3. C # 0
    BY <1>3, <2>1, FS_EmptySet
  <2>4. /\ order \in [1..C -> mapped] /\ DOMAIN order = 1..C
        /\ \A k, l \in 1..C : order[k] = order[l] => k = l
    BY <1>3, <1>4 DEF Ordered
  <2>5. \A k \in 1..C : \A j \in causes[order[k]] : \E l \in 1..(k - 1) : order[l] = j
    BY <1>3 DEF Ordered
  <2>6. \A i \in mapped : \E k \in 1..C : order[k] = i
    <3>1. order \in Injection(1..C, mapped)
      <4> HIDE DEF order, mapped
      <4> QED
        BY <2>4 DEF Injection, IsInjective
    <3>2. IsFiniteSet(1..C) /\ Cardinality(1..C) = C
      BY <1>4, FS_Interval
    <3> HIDE DEF order, mapped
    <3>3. order \in Surjection(1..C, mapped)
      BY <1>3, <3>1, <3>2, FS_Injection
    <3> QED
      BY <3>3 DEF Surjection
  <2>7. \A i \in mapped : \A j \in causes[i] : j \in mapped
    BY DEF CausesIn
  <2>8. \A i, j \in mapped : j \in causes[i] <=> c.steps[p[j]].id \in c.steps[p[i]].depends_on
    BY DEF CausesIn
  <2> HIDE DEF mapped, causes, order
  <2>9. \A k \in 1..C : Position(order[k]) = k
    BY <2>4
  <2> HIDE DEF Position
  <2>10. /\ DOMAIN steps = 1..C
         /\ \A k \in 1..C : /\ steps[k].id = k
                            /\ steps[k].ability_id = c.steps[p[order[k]]].ability_id
                            /\ steps[k].depends_on = {Position(j) : j \in causes[order[k]]}
                            /\ steps[k].on_failure = "stop"
    BY <2>4
  <2>11. \A k \in 1..C : \A d \in steps[k].depends_on : d \in 1..(k - 1)
    <3> SUFFICES ASSUME NEW k \in 1..C, NEW j \in causes[order[k]] PROVE Position(j) \in 1..(k - 1)
      BY <2>10
    <3>1. PICK l \in 1..(k - 1) : order[l] = j
      BY <2>5
    <3>2. l \in 1..C
      BY <1>4, <3>1
    <3> QED
      BY <2>9, <3>1, <3>2
  <2>12. result # None
    <3> DEFINE Ids == KnownIds
               StepSet == [id : Nat, ability_id : Ids, depends_on : SUBSET Nat, on_failure : {"stop"}]
    <3>1. ASSUME NEW k \in 1..C PROVE steps[k] \in StepSet
      <4>1. c.steps[p[order[k]]].ability_id \in Ids
        BY <1>2, <2>4
      <4>2. steps[k].depends_on \in SUBSET Nat
        <5>1. k \in Nat
          BY <1>4
        <5> HIDE DEF steps
        <5> QED
          BY <2>11, <5>1
      <4>3. {Position(j) : j \in causes[order[k]]} \in SUBSET Nat
        BY <2>10, <4>2
      <4>4. steps[k] = [id |-> k, ability_id |-> c.steps[p[order[k]]].ability_id,
                        depends_on |-> {Position(j) : j \in causes[order[k]]}, on_failure |-> "stop"]
        BY <2>4
      <4> HIDE DEF steps, Ids
      <4> QED
        BY <4>1, <4>3, <4>4
    <3> HIDE DEF StepSet
    <3>2. steps \in Seq(StepSet)
      <4>1. steps \in [1..C -> StepSet]
        BY <2>4, <3>1
      <4> HIDE DEF steps
      <4> QED
        BY <1>4, <4>1
    <3> HIDE DEF steps
    <3>3. result \in [steps : Seq(StepSet), skipped : Nat]
      BY <1>4, <2>2, <3>2
    <3>4. None \notin [steps : Seq(StepSet), skipped : Nat]
      BY NoneAssumption, Zenon DEF StepSet, KnownIds
    <3> HIDE DEF result
    <3> QED
      BY <3>3, <3>4
  <2>13. Len(steps) = C /\ steps # <<>>
    BY <1>4, <2>3, <2>10
  <2> HIDE DEF steps
  <2>14. result.steps = steps /\ result.skipped = Cardinality(1..n \ mapped)
    BY <2>2
  <2> HIDE DEF result
  <2>15. StepsFormed(result)
    <3>1. Distinct(steps)
      BY <2>10 DEF Distinct
    <3>2. ASSUME NEW k \in 1..C PROVE steps[k].depends_on \subseteq {steps[j].id : j \in 1..(k - 1)}
      <4> SUFFICES ASSUME NEW d \in steps[k].depends_on PROVE \E j \in 1..(k - 1) : d = steps[j].id
        OBVIOUS
      <4>1. d \in 1..(k - 1) /\ d \in 1..C
        BY <1>4, <2>11
      <4> QED
        BY <2>10, <4>1
    <3> QED
      BY <2>10, <2>13, <2>14, <3>1, <3>2 DEF StepsFormed
  <2>16. Len(result.steps) + result.skipped = n
    BY <1>4, <2>13, <2>14
  <2>17. ASSUME NEW i \in 1..n, NEW j \in 1..n, c.steps[i].ability_id \in ids, c.steps[j].ability_id \in ids,
                c.steps[i].id \in c.steps[j].depends_on
         PROVE  \E k \in DOMAIN steps : \E d \in steps[k].depends_on :
                   steps[k].ability_id = c.steps[j].ability_id /\ steps[d].ability_id = c.steps[i].ability_id
    <3>1. PICK x \in 1..n, y \in 1..n : p[x] = i /\ p[y] = j
      BY <1>1
    <3>2. x \in mapped /\ y \in mapped /\ x \in causes[y]
      BY <1>2, <2>8, <2>17, <3>1
    <3>3. PICK k \in 1..C, d \in 1..C : order[k] = y /\ order[d] = x
      BY <2>6, <3>2
    <3>4. d \in steps[k].depends_on
      BY <2>9, <2>10, <3>2, <3>3
    <3> QED
      BY <2>10, <3>1, <3>3, <3>4
  <2>18. ASSUME \A i \in 1..n : c.steps[i].ability_id \in ids /\ p[i] = i, NEW i \in 1..n
         PROVE  /\ steps[i].ability_id = c.steps[i].ability_id
                /\ {c.steps[d].id : d \in steps[i].depends_on} = c.steps[i].depends_on
    <3>1. mapped = 1..n
      BY <1>1, <1>2, <2>18
    <3>2. C = n
      <4>1. Cardinality(1..n) = n
        BY <1>1, FS_Interval
      <4> QED
        BY <3>1, <4>1
    <3>3. causes \in [1..n -> SUBSET (1..n)]
      BY <3>1 DEF causes, CausesIn
    <3>4. \A x, y \in 1..n : y \in causes[x] <=> c.steps[y].id \in c.steps[x].depends_on
      BY <2>8, <2>18, <3>1
    <3>5. \A x \in 1..n : \A y \in causes[x] : y \in 1..n /\ y < x
      BY <3>3, <3>4, StepsOfCampaign
    <3>6. Ordered(order, n, 1..n, causes)
      BY <1>3, <3>1, <3>2
    <3>7. \A k \in 1..n : order[k] = k
      <4>1. Backward(causes, n)
        BY <3>3, <3>5 DEF Backward
      <4>2. InPlace(order, n)
        BY <1>1, <3>6, <4>1, OrderKept
      <4> QED
        BY <4>2 DEF InPlace
    <3>8. steps[i].ability_id = c.steps[i].ability_id
      BY <2>10, <2>18, <3>2, <3>7
    <3>9. \A y \in 1..n : Position(y) = y
      BY <2>9, <3>2, <3>7
    <3>10. \A d : d \in steps[i].depends_on <=> d \in causes[i]
      BY <2>10, <3>2, <3>5, <3>7, <3>9
    <3>11. \A e \in c.steps[i].depends_on : \E d \in causes[i] : c.steps[d].id = e
      BY <3>4, StepsOfCampaign
    <3>12. \A d \in causes[i] : c.steps[d].id \in c.steps[i].depends_on
      BY <3>4, <3>5
    <3> QED
      BY <3>8, <3>10, <3>11, <3>12
  <2> QED
    BY <1>6, <2>12, <2>14, <2>15, <2>16, <2>17, <2>18 DEF RoundTrip, result
<1> QED
  BY <1>5, <1>6

\* What the community pack holds was written by an author.
WrittenItems == \E c \in Contents : c.kind = pack.kind /\ c.items = pack.items

LEMMA ItemsAreWritten == Spec => []WrittenItems
<1>1. Init => WrittenItems
  BY DEF Init, WrittenItems
<1>2. ASSUME AdmissionInv, WrittenItems, [Next]_vars PROVE WrittenItems'
  <2>0. PICK c \in Contents : c.kind = pack.kind /\ c.items = pack.items
    BY <1>2 DEF WrittenItems
  <2>1. PICK k, items, provenance, integrity :
           pack = [kind |-> k, pack_id |-> "community", formed |-> TRUE, items |-> items,
                   provenance |-> provenance, integrity |-> integrity]
    BY <1>2 DEF AdmissionInv, PackInv
  <2>2. CASE EditItems
    <3>1. PICK d \in Contents :
             d.kind = pack.kind /\ \E made : pack' = [pack EXCEPT !.items = d.items, !.integrity = made]
      BY <2>2 DEF EditItems, Write
    <3>2. pack'.kind = d.kind /\ pack'.items = d.items
      BY <2>1, <3>1
    <3> QED
      BY <3>2 DEF WrittenItems
  <2>3. CASE EditProvenance
    <3>1. PICK p : pack' = [pack EXCEPT !.provenance = p]
      BY <2>3 DEF EditProvenance, Write
    <3>2. pack'.kind = pack.kind /\ pack'.items = pack.items
      BY <2>1, <3>1
    <3> QED
      BY <2>0, <3>2 DEF WrittenItems
  <2>4. CASE Sign
    <3>1. PICK signer \in Signers : pack' = Signed(pack, signer[1], signer[2])
      BY <2>4 DEF Sign, Write
    <3>2. pack'.kind = pack.kind /\ pack'.items = pack.items
      BY <2>1, <3>1 DEF Signed
    <3> QED
      BY <2>0, <3>2 DEF WrittenItems
  <2>5. CASE pack' = pack
    BY <2>0, <2>5 DEF WrittenItems
  <2> QED
    BY <1>2, <2>2, <2>3, <2>4, <2>5 DEF Next, Tick, StartRun, RunStep, vars
<1> QED
  BY <1>1, <1>2, AdmissionInvariant, PTL DEF Spec

\* export_campaign and import_campaign are inverses of each other as far as the importer
\* knows the abilities, and the import is a campaign in any case.
THEOREM FlowRoundTripHolds == Spec => []FlowRoundTrip
<1>1. AdmissionInv /\ WrittenItems => FlowRoundTrip
  <2> SUFFICES ASSUME AdmissionInv, WrittenItems, LoadedAbilities # None, LoadedCampaigns # None,
                      NEW id \in DOMAIN LoadedCampaigns,
                      \A i \in DOMAIN LoadedCampaigns[id].steps :
                         LoadedCampaigns[id].steps[i].ability_id \in DOMAIN LoadedAbilities,
                      NEW p \in Bijection(1..Len(LoadedCampaigns[id].steps), 1..Len(LoadedCampaigns[id].steps)),
                      NEW ids \in SUBSET DOMAIN LoadedAbilities
               PROVE  RoundTrip(LoadedCampaigns[id], LoadedAbilities, p, ids)
    BY Zenon DEF FlowRoundTrip, RoundTrip, Reimported, Exchanged
  <2>1. PackInv
    BY DEF AdmissionInv
  <2>2. DOMAIN LoadedAbilities \subseteq KnownIds
    <3> DEFINE all == ToSet(BuiltinAbilities.items)
                         \union (IF pack.kind = "ability-pack" THEN ToSet(pack.items) ELSE {})
    <3>1. \A x \in DOMAIN LoadedAbilities : \E a \in all : a.id = x
      BY <2>1, AbilitiesLoad
    <3>2. PICK c \in Contents : c.kind = pack.kind /\ c.items = pack.items
      BY DEF WrittenItems
    <3>3. all \subseteq (UNION {ToSet(d.items) : d \in {d \in Contents : d.kind = "ability-pack"}})
                           \union ToSet(BuiltinAbilities.items)
      BY <3>2
    <3> HIDE DEF all
    <3> QED
      BY <3>1, <3>3 DEF KnownIds
  <2>3. None \notin KnownIds
    BY NoneAssumption, Zenon DEF KnownIds
  <2>4. Exchangeable(LoadedCampaigns[id], LoadedAbilities)
    BY <2>1, <2>2, <2>3, CampaignsLoad DEF Exchangeable
  <2> QED
    BY <2>2, <2>4, RoundTripHolds
<1> QED
  BY <1>1, AdmissionInvariant, ItemsAreWritten, PTL

=============================================================================
