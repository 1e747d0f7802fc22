------------------------- MODULE GithubReviewProofs -------------------------
(***************************************************************************)
(* Proofs about the review a delivery to GitHub posts, for any report,     *)
(* summary, limit and sizes of the parts of a body.  First that no step on *)
(* the way from the report to the body - grouping, ordering, the digest -  *)
(* loses a finding or repeats one (Packed: groups without repetitions that *)
(* share nothing; Covered: their findings), then that what is composed     *)
(* stays within the envelope that was reserved for it, then the invariant. *)
(***************************************************************************)
EXTENDS GithubReview, BodyFold, FiniteSetTheorems, NaturalsInduction, SequenceTheorems,
        WellFoundedInduction, TLAPS

(* A set of naturals that is not empty has a least element.                *)
LEMMA FirstOf ==
  ASSUME NEW T \in SUBSET Nat, T # {}
  PROVE  \E x \in T : \A y \in T : x <= y
<1>1. IsWellFoundedOn(OpToRel(<, Nat), Nat)
  BY NatLessThanWellFounded
<1>2. PICK x \in T : \A y \in T : ~ (<<y, x>> \in OpToRel(<, Nat))
  BY <1>1, WFMin, Zenon
<1>3. \A y \in T : ~(y < x)
  BY <1>2 DEF OpToRel
<1>4. \A y \in T : y \in Nat /\ x \in Nat
  BY <1>2
<1>5. \A y \in T : x <= y
  BY <1>3, <1>4
<1> QED BY <1>2, <1>5

(* Induction, of a set. *)
LEMMA UpTo ==
  ASSUME NEW n \in Nat, NEW P, 0 \in P, \A i \in 1..n : i - 1 \in P => i \in P
  PROVE  \A i \in 0..n : i \in P
<1> DEFINE Bad == {i \in 0..n : i \notin P}
<1> SUFFICES ASSUME Bad # {} PROVE FALSE
  OBVIOUS
<1>1. PICK i \in Bad : \A j \in Bad : i <= j
  BY FirstOf, Bad \in SUBSET Nat, Zenon
<1>2. i \in 1..n
  BY <1>1
<1>3. i - 1 \in 0..n /\ i - 1 \notin Bad
  BY <1>1, <1>2
<1> QED BY <1>1, <1>2, <1>3

(* Values each made from the one before it: there are such. *)
Stepwise(n, S, base, step, f) ==
  /\ f \in [0..n -> S]
  /\ f[0] = base
  /\ \A i \in 1..n : f[i] = step[<<i, f[i - 1]>>]

LEMMA StepwiseOn ==
  ASSUME NEW n \in Nat, NEW S, NEW base \in S, NEW m \in 1..n, NEW step \in [(1..n) \X S -> S],
         NEW f, Stepwise(m - 1, S, base, step, f)
  PROVE  \E g : Stepwise(m, S, base, step, g)
<1> DEFINE g == [i \in 0..m |-> IF i = m THEN step[<<m, f[m - 1]>>] ELSE f[i]]
<1>1. f \in [0..(m - 1) -> S] /\ f[0] = base /\ \A i \in 1..(m - 1) : f[i] = step[<<i, f[i - 1]>>]
  BY DEF Stepwise
<1>2. m - 1 \in 0..(m - 1) /\ m \in Nat
  OBVIOUS
<1>3. step[<<m, f[m - 1]>>] \in S
  BY <1>1, <1>2
<1>4. \A i \in 0..m : i # m => i \in 0..(m - 1)
  BY <1>2
<1>5. g \in [0..m -> S]
  BY <1>1, <1>3, <1>4
<1>6. g[0] = base
  BY <1>1, <1>2
<1>7. ASSUME NEW i \in 1..m PROVE g[i] = step[<<i, g[i - 1]>>]
  <2>1. i - 1 \in 0..m /\ i - 1 # m /\ i \in 0..m
    BY <1>2
  <2>2. g[i - 1] = f[i - 1]
    BY <2>1
  <2>3. CASE i = m
    BY <2>1, <2>2, <2>3
  <2>4. CASE i # m
    <3>1. i \in 1..(m - 1)
      BY <2>4, <1>2
    <3>2. g[i] = f[i]
      BY <2>1, <2>4
    <3> QED BY <3>1, <3>2, <2>2, <1>1
  <2> QED BY <2>3, <2>4
<1>8. Stepwise(m, S, base, step, g)
  BY <1>5, <1>6, <1>7 DEF Stepwise
<1> QED BY <1>8

LEMMA StepwiseExists ==
  ASSUME NEW n \in Nat, NEW S, NEW base \in S, NEW step \in [(1..n) \X S -> S]
  PROVE  \E f : Stepwise(n, S, base, step, f)
<1> DEFINE P == {m \in 0..n : \E f : Stepwise(m, S, base, step, f)}
<1>1. 0 \in P
  <2>1. Stepwise(0, S, base, step, [i \in 0..0 |-> base])
    BY DEF Stepwise
  <2> QED BY <2>1
<1>2. ASSUME NEW i \in 1..n, i - 1 \in P PROVE i \in P
  <2>1. i \in 0..n
    OBVIOUS
  <2>2. \E f : Stepwise(i, S, base, step, f)
    BY <1>2, StepwiseOn
  <2> QED BY <2>1, <2>2
<1> HIDE DEF P
<1>3. \A i \in 0..n : i \in P
  BY <1>1, <1>2, UpTo
<1>4. n \in P
  BY <1>3
<1> QED BY <1>4 DEF P
-----------------------------------------------------------------------------
(* Groups of findings, none of them in two. *)
Bundle(g) == g \in Seq(ReportFinding) /\ g # <<>> /\ IsInjective(g)
Packed(gs) ==
  /\ gs \in Seq(Seq(ReportFinding))
  /\ \A i \in DOMAIN gs : Bundle(gs[i])
  /\ \A i, j \in DOMAIN gs : i # j => ToSet(gs[i]) \cap ToSet(gs[j]) = {}
Covered(gs) == UNION {ToSet(gs[i]) : i \in DOMAIN gs}

LEMMA InSet ==
  ASSUME NEW s, NEW x
  PROVE  x \in ToSet(s) <=> \E i \in DOMAIN s : x = s[i]
BY DEF ToSet

LEMMA InCovered ==
  ASSUME NEW gs, NEW x
  PROVE  x \in Covered(gs) <=> \E i \in DOMAIN gs : x \in ToSet(gs[i])
BY DEF Covered

LEMMA PackedEmpty == Packed(<<>>) /\ Covered(<<>>) = {}
<1> DEFINE e == <<>>
<1>1. DOMAIN e = {} /\ e \in Seq(Seq(ReportFinding))
  OBVIOUS
<1> HIDE DEF e
<1>2. Packed(e) /\ Covered(e) = {}
  BY <1>1 DEF Packed, Covered
<1> QED BY <1>2 DEF e

LEMMA BundleOne ==
  ASSUME NEW f \in ReportFinding
  PROVE  Bundle(<<f>>) /\ ToSet(<<f>>) = {f}
<1> DEFINE s == <<f>>
<1>1. s \in Seq(ReportFinding) /\ DOMAIN s = {1} /\ s[1] = f /\ s # <<>>
  OBVIOUS
<1> HIDE DEF s
<1>2. Bundle(s) /\ ToSet(s) = {f}
  BY <1>1 DEF Bundle, ToSet, IsInjective
<1> QED BY <1>2 DEF s

LEMMA BundleAdd ==
  ASSUME NEW g, Bundle(g), NEW f \in ReportFinding, f \notin ToSet(g)
  PROVE  Bundle(Append(g, f)) /\ ToSet(Append(g, f)) = ToSet(g) \cup {f}
<1> DEFINE t == Append(g, f)
<1>1. /\ g \in Seq(ReportFinding) /\ IsInjective(g)
  BY DEF Bundle
<1>2. /\ t \in Seq(ReportFinding) /\ Len(t) = Len(g) + 1 /\ t[Len(g) + 1] = f
      /\ \A i \in 1..Len(g) : t[i] = g[i]
      /\ DOMAIN t = 1..Len(t) /\ DOMAIN g = 1..Len(g) /\ Len(g) \in Nat
  BY <1>1
<1> HIDE DEF t
<1>3. DOMAIN t = DOMAIN g \cup {Len(g) + 1} /\ Len(g) + 1 \notin DOMAIN g
  BY <1>2
<1>4. \A i \in DOMAIN g : t[i] = g[i] /\ g[i] # f
  BY <1>2, InSet
<1>5. IsInjective(t)
  BY <1>1, <1>2, <1>3, <1>4 DEF IsInjective
<1>6. ToSet(t) = ToSet(g) \cup {f}
  BY <1>2, <1>3, <1>4 DEF ToSet
<1>7. t # <<>>
  BY <1>2
<1> QED BY <1>2, <1>5, <1>6, <1>7 DEF Bundle, t

LEMMA PackedAppend ==
  ASSUME NEW gs, Packed(gs), NEW g, Bundle(g), ToSet(g) \cap Covered(gs) = {}
  PROVE  /\ Packed(Append(gs, g))
         /\ Covered(Append(gs, g)) = Covered(gs) \cup ToSet(g)
<1> DEFINE t == Append(gs, g)
<1>1. gs \in Seq(Seq(ReportFinding)) /\ g \in Seq(ReportFinding)
  BY DEF Bundle, Packed
<1>2. /\ t \in Seq(Seq(ReportFinding)) /\ Len(t) = Len(gs) + 1 /\ t[Len(gs) + 1] = g
      /\ \A i \in 1..Len(gs) : t[i] = gs[i]
      /\ DOMAIN t = 1..Len(t) /\ DOMAIN gs = 1..Len(gs) /\ Len(gs) \in Nat
  BY <1>1
<1> HIDE DEF t
<1>3. DOMAIN t = DOMAIN gs \cup {Len(gs) + 1} /\ Len(gs) + 1 \notin DOMAIN gs
  BY <1>2
<1>4. \A i \in DOMAIN gs : t[i] = gs[i] /\ ToSet(gs[i]) \cap ToSet(g) = {}
  BY <1>2, InCovered
<1>5. \A i \in DOMAIN t : Bundle(t[i])
  BY <1>2, <1>3, <1>4 DEF Packed
<1>6. ASSUME NEW i \in DOMAIN t, NEW j \in DOMAIN t, i # j
      PROVE  ToSet(t[i]) \cap ToSet(t[j]) = {}
  <2>1. CASE i = Len(gs) + 1
    BY <2>1, <1>2, <1>3, <1>4, <1>6
  <2>2. CASE j = Len(gs) + 1
    BY <2>2, <1>2, <1>3, <1>4, <1>6
  <2>3. CASE i # Len(gs) + 1 /\ j # Len(gs) + 1
    <3>1. i \in DOMAIN gs /\ j \in DOMAIN gs /\ t[i] = gs[i] /\ t[j] = gs[j]
      BY <2>3, <1>3, <1>4
    <3> QED BY <3>1, <1>6 DEF Packed
  <2> QED BY <2>1, <2>2, <2>3
<1>7. Covered(t) = Covered(gs) \cup ToSet(g)
  <2>1. \A x : x \in Covered(t) <=> x \in Covered(gs) \/ x \in ToSet(g)
    BY <1>2, <1>3, <1>4, InCovered
  <2> QED BY <2>1
<1> QED BY <1>2, <1>5, <1>6, <1>7 DEF Packed, t

LEMMA PackedInto ==
  ASSUME NEW gs, Packed(gs), NEW k \in DOMAIN gs, NEW f \in ReportFinding, f \notin Covered(gs)
  PROVE  /\ Packed([gs EXCEPT ![k] = Append(@, f)])
         /\ Covered([gs EXCEPT ![k] = Append(@, f)]) = Covered(gs) \cup {f}
<1> DEFINE t == [gs EXCEPT ![k] = Append(@, f)]
<1>1. gs \in Seq(Seq(ReportFinding)) /\ Bundle(gs[k])
  BY DEF Packed
<1>2. f \notin ToSet(gs[k])
  BY InCovered
<1>3. Bundle(Append(gs[k], f)) /\ ToSet(Append(gs[k], f)) = ToSet(gs[k]) \cup {f}
  BY <1>1, <1>2, BundleAdd
<1>4. /\ DOMAIN t = DOMAIN gs /\ t[k] = Append(gs[k], f)
      /\ \A i \in DOMAIN gs : i # k => t[i] = gs[i]
  BY <1>1
<1>5. t \in Seq(Seq(ReportFinding))
  <2>1. Append(gs[k], f) \in Seq(ReportFinding)
    BY <1>3 DEF Bundle
  <2> QED BY <2>1, <1>1
<1> HIDE DEF t
<1>6. \A i \in DOMAIN t : Bundle(t[i])
  BY <1>3, <1>4 DEF Packed
<1>7. \A i \in DOMAIN gs : f \notin ToSet(gs[i])
  BY InCovered
<1>8. ASSUME NEW i \in DOMAIN t, NEW j \in DOMAIN t, i # j
      PROVE  ToSet(t[i]) \cap ToSet(t[j]) = {}
  <2>1. ToSet(gs[i]) \cap ToSet(gs[j]) = {} /\ i \in DOMAIN gs /\ j \in DOMAIN gs
    BY <1>4, <1>8 DEF Packed
  <2>2. CASE i = k
    BY <2>1, <2>2, <1>3, <1>4, <1>7, <1>8
  <2>3. CASE j = k
    BY <2>1, <2>3, <1>3, <1>4, <1>7, <1>8
  <2>4. CASE i # k /\ j # k
    BY <2>1, <2>4, <1>4
  <2> QED BY <2>2, <2>3, <2>4
<1>9. Covered(t) = Covered(gs) \cup {f}
  <2>1. \A x : x \in Covered(t) <=> x \in Covered(gs) \/ x = f
    BY <1>3, <1>4, InCovered
  <2> QED BY <2>1
<1> QED BY <1>5, <1>6, <1>8, <1>9 DEF Packed, t

LEMMA LeastOne ==
  ASSUME NEW S \in SUBSET Nat, S # {}
  PROVE  Min(S) \in S
<1>1. \E x \in S : \A y \in S : x <= y
  BY FirstOf
<1> QED BY <1>1 DEF Min

LEMMA JoinTypes ==
  ASSUME NEW found \in Seq(Seq(ReportFinding)), NEW f \in ReportFinding
  PROVE  Join(found, f) \in Seq(Seq(ReportFinding))
<1> DEFINE same == {i \in DOMAIN found : ~Alone(f) /\ Key(found[i][1]) = Key(f)}
<1>1. CASE same = {}
  <2>1. <<f>> \in Seq(ReportFinding)
    OBVIOUS
  <2>2. Append(found, <<f>>) \in Seq(Seq(ReportFinding))
    BY <2>1
  <2> QED BY <1>1, <2>2 DEF Join
<1>2. CASE same # {}
  <2>1. same \in SUBSET Nat
    OBVIOUS
  <2>2. Min(same) \in same
    BY <2>1, <1>2, LeastOne
  <2> DEFINE k == Min(same)
  <2>3. k \in DOMAIN found
    BY <2>2
  <2>4. Join(found, f) = [found EXCEPT ![k] = Append(@, f)]
    BY <1>2 DEF Join
  <2> HIDE DEF k, same
  <2>5. Append(found[k], f) \in Seq(ReportFinding)
    BY <2>3
  <2> QED BY <2>3, <2>4, <2>5
<1> QED BY <1>1, <1>2

LEMMA JoinPacks ==
  ASSUME NEW found, Packed(found), NEW f \in ReportFinding, f \notin Covered(found)
  PROVE  Packed(Join(found, f)) /\ Covered(Join(found, f)) = Covered(found) \cup {f}
<1> DEFINE same == {i \in DOMAIN found : ~Alone(f) /\ Key(found[i][1]) = Key(f)}
<1>0. found \in Seq(Seq(ReportFinding))
  BY DEF Packed
<1>1. CASE same = {}
  <2>1. Bundle(<<f>>) /\ ToSet(<<f>>) = {f}
    BY BundleOne
  <2>2. ToSet(<<f>>) \cap Covered(found) = {}
    BY <2>1
  <2>3. Join(found, f) = Append(found, <<f>>)
    BY <1>1 DEF Join
  <2> QED BY <2>1, <2>2, <2>3, PackedAppend
<1>2. CASE same # {}
  <2>1. same \in SUBSET Nat
    BY <1>0
  <2>2. Min(same) \in same
    BY <2>1, <1>2, LeastOne
  <2>3. Join(found, f) = [found EXCEPT ![Min(same)] = Append(@, f)]
    BY <1>2 DEF Join
  <2>4. Min(same) \in DOMAIN found
    BY <2>2
  <2> DEFINE k == Min(same)
  <2>5. k \in DOMAIN found /\ Join(found, f) = [found EXCEPT ![k] = Append(@, f)]
    BY <2>3, <2>4
  <2> HIDE DEF same, k
  <2>6. /\ Packed([found EXCEPT ![k] = Append(@, f)])
        /\ Covered([found EXCEPT ![k] = Append(@, f)]) = Covered(found) \cup {f}
    BY <2>5, PackedInto
  <2> QED BY <2>5, <2>6
<1> QED BY <1>1, <1>2

Told(n) == {report[i] : i \in {j \in 1..n : report[j].told}}

JoinedBy(joined) ==
  joined = [i \in 0..Len(report) |->
              IF i = 0 THEN <<>>
              ELSE IF report[i].told THEN Join(joined[i - 1], report[i]) ELSE joined[i - 1]]

LEMMA GroupedExists ==
  ASSUME report \in Seq(ReportFinding)
  PROVE  \E joined : JoinedBy(joined) /\ Grouped = joined[Len(report)]
<1> DEFINE n == Len(report)
           S == Seq(Seq(ReportFinding))
           step == [x \in (1..n) \X S |->
                      IF report[x[1]].told THEN Join(x[2], report[x[1]]) ELSE x[2]]
<1>1. n \in Nat
  OBVIOUS
<1>2. step \in [(1..n) \X S -> S]
  <2>1. ASSUME NEW x \in (1..n) \X S
        PROVE (IF report[x[1]].told THEN Join(x[2], report[x[1]]) ELSE x[2]) \in S
    <3>1. report[x[1]] \in ReportFinding /\ x[2] \in S
      OBVIOUS
    <3>2. Join(x[2], report[x[1]]) \in S
      BY <3>1, JoinTypes
    <3> QED BY <3>1, <3>2
  <2> QED BY <2>1
<1>3. <<>> \in S
  OBVIOUS
<1>4. \A i \in 1..n : \A v \in S :
        step[<<i, v>>] = IF report[i].told THEN Join(v, report[i]) ELSE v
  OBVIOUS
<1> HIDE DEF step, S
<1>5. PICK f : Stepwise(n, S, <<>>, step, f)
  BY <1>1, <1>2, <1>3, StepwiseExists, Zenon
<1>6. JoinedBy(f)
  <2>1. f \in [0..n -> S] /\ f[0] = <<>> /\ \A i \in 1..n : f[i] = step[<<i, f[i - 1]>>]
    BY <1>5 DEF Stepwise
  <2>2. ASSUME NEW i \in 0..n
        PROVE  f[i] = IF i = 0 THEN <<>>
                      ELSE IF report[i].told THEN Join(f[i - 1], report[i]) ELSE f[i - 1]
    <3>1. CASE i = 0
      BY <3>1, <2>1
    <3>2. CASE i # 0
      <4>1. i \in 1..n /\ i - 1 \in 0..n
        BY <3>2, <1>1
      <4>2. f[i - 1] \in S
        BY <4>1, <2>1
      <4>3. f[i] = step[<<i, f[i - 1]>>]
        BY <4>1, <2>1
      <4> QED BY <4>1, <4>2, <4>3, <1>4, <3>2
    <3> QED BY <3>1, <3>2
  <2>3. f = [i \in 0..n |-> f[i]]
    BY <2>1
  <2> QED BY <2>2, <2>3 DEF JoinedBy
<1>7. Grouped = (CHOOSE joined : JoinedBy(joined))[Len(report)]
  BY DEF Grouped, JoinedBy
<1> QED BY <1>6, <1>7

LEMMA GroupedPacks ==
  ASSUME report \in Seq(ReportFinding), \A i, j \in DOMAIN report : i # j => report[i] # report[j]
  PROVE  Packed(Grouped) /\ Covered(Grouped) = Told(Len(report))
<1> DEFINE n == Len(report)
<1>1. PICK f : JoinedBy(f) /\ Grouped = f[n]
  BY GroupedExists
<1>2. n \in Nat /\ \A i \in 1..n : report[i] \in ReportFinding
  OBVIOUS
<1> DEFINE P == {i \in 0..n : Packed(f[i]) /\ Covered(f[i]) = Told(i)}
<1>3. f[0] = <<>> /\ \A i \in 1..n : f[i] = IF report[i].told THEN Join(f[i - 1], report[i]) ELSE f[i - 1]
  <2>1. \A i \in 0..n : f[i] = IF i = 0 THEN <<>>
              ELSE IF report[i].told THEN Join(f[i - 1], report[i]) ELSE f[i - 1]
    BY <1>1 DEF JoinedBy
  <2>2. 0 \in 0..n /\ \A i \in 1..n : i \in 0..n /\ i # 0
    BY <1>2
  <2> QED BY <2>1, <2>2
<1>4. 0 \in P
  <2>1. Told(0) = {}
    BY DEF Told
  <2>2. Packed(f[0]) /\ Covered(f[0]) = Told(0)
    BY <2>1, <1>3, PackedEmpty
  <2>3. 0 \in 0..n
    BY <1>2
  <2> QED BY <2>2, <2>3
<1>5. ASSUME NEW i \in 1..n, i - 1 \in P PROVE i \in P
  <2>1. Packed(f[i - 1]) /\ Covered(f[i - 1]) = Told(i - 1) /\ i \in 0..n
    BY <1>5
  <2>2. 1..i = 1..(i - 1) \cup {i} /\ i \notin 1..(i - 1)
    BY <1>2
  <2>3. CASE report[i].told
    <3>1. report[i] \notin Told(i - 1)
      BY <2>2, <1>2 DEF Told
    <3>2. Told(i) = Told(i - 1) \cup {report[i]}
      BY <2>2, <2>3 DEF Told
    <3>3. f[i] = Join(f[i - 1], report[i])
      BY <2>3, <1>3
    <3> QED BY <2>1, <3>1, <3>2, <3>3, <1>2, JoinPacks
  <2>4. CASE ~report[i].told
    <3>1. Told(i) = Told(i - 1)
      BY <2>2, <2>4 DEF Told
    <3>2. f[i] = f[i - 1]
      BY <2>4, <1>3
    <3> QED BY <2>1, <3>1, <3>2
  <2> QED BY <2>3, <2>4
<1> HIDE DEF P
<1>6. \A i \in 0..n : i \in P
  BY <1>2, <1>4, <1>5, UpTo
<1>7. n \in P
  BY <1>2, <1>6
<1> QED BY <1>1, <1>7 DEF P
-----------------------------------------------------------------------------
(* A sequence in another order. *)
Permuted(t, s) ==
  \E q \in [DOMAIN s -> DOMAIN s] :
    /\ t = [r \in DOMAIN s |-> s[q[r]]]
    /\ \A i, j \in DOMAIN s : q[i] = q[j] => i = j
    /\ \A i \in DOMAIN s : \E r \in DOMAIN s : q[r] = i

Sooner(n, key, i) == {j \in 1..n : key[j] < key[i] \/ (key[j] = key[i] /\ j < i)}
Rank(n, key, i) == 1 + Cardinality(Sooner(n, key, i))

LEMMA SoonerCounts ==
  ASSUME NEW n \in Nat, NEW key \in [1..n -> Nat], NEW i \in 1..n
  PROVE  /\ IsFiniteSet(Sooner(n, key, i)) /\ Rank(n, key, i) \in 1..n
         /\ \A j \in 1..n : j \in Sooner(n, key, i) => Rank(n, key, j) < Rank(n, key, i)
<1>1. IsFiniteSet(1..n) /\ Cardinality(1..n) = n
  BY FS_Interval
<1>2. \A k \in 1..n : Sooner(n, key, k) \subseteq 1..n /\ k \notin Sooner(n, key, k)
  BY DEF Sooner
<1>3. \A k \in 1..n : IsFiniteSet(Sooner(n, key, k)) /\ Cardinality(Sooner(n, key, k)) \in Nat
  BY <1>1, <1>2, FS_Subset, FS_CardinalityType
<1>4. Cardinality(Sooner(n, key, i)) < n
  <2>1. Sooner(n, key, i) # 1..n
    BY <1>2
  <2>2. Cardinality(Sooner(n, key, i)) <= n /\ Cardinality(Sooner(n, key, i)) # n
    BY <1>1, <1>2, <2>1, FS_Subset
  <2> QED BY <2>2, <1>3
<1>5. ASSUME NEW j \in 1..n, j \in Sooner(n, key, i)
      PROVE  Rank(n, key, j) < Rank(n, key, i)
  <2>1. \A k \in 1..n : key[k] \in Nat
    OBVIOUS
  <2>2. Sooner(n, key, j) \subseteq Sooner(n, key, i)
    BY <1>5, <2>1 DEF Sooner
  <2>3. Sooner(n, key, j) # Sooner(n, key, i)
    BY <1>2, <1>5
  <2>4. Cardinality(Sooner(n, key, j)) <= Cardinality(Sooner(n, key, i))
        /\ Cardinality(Sooner(n, key, j)) # Cardinality(Sooner(n, key, i))
    BY <1>3, <2>2, <2>3, FS_Subset
  <2> QED BY <2>4, <1>3 DEF Rank
<1>6. Rank(n, key, i) \in 1..n
  BY <1>3, <1>4 DEF Rank
<1> QED BY <1>3, <1>5, <1>6

LEMMA SortedPermutes ==
  ASSUME NEW s, NEW n \in Nat, DOMAIN s = 1..n, NEW key \in [1..n -> Nat]
  PROVE  Permuted(SortedBy(s, key), s)
<1> DEFINE D == 1..n
           p == [i \in D |-> Rank(n, key, i)]
           q == [r \in D |-> CHOOSE i \in D : Rank(n, key, i) = r]
<1>1. \A i, j \in D : i # j => Rank(n, key, i) # Rank(n, key, j)
  <2> TAKE i, j \in D
  <2> HAVE i # j
  <2>1. key[i] \in Nat /\ key[j] \in Nat
    OBVIOUS
  <2>2. i \in Sooner(n, key, j) \/ j \in Sooner(n, key, i)
    BY <2>1 DEF Sooner
  <2>3. Rank(n, key, i) \in D /\ Rank(n, key, j) \in D
    BY SoonerCounts
  <2>4. Rank(n, key, i) < Rank(n, key, j) \/ Rank(n, key, j) < Rank(n, key, i)
    BY <2>2, SoonerCounts
  <2> QED BY <2>3, <2>4
<1>2. p \in Injection(D, D)
  <2>1. p \in [D -> D]
    BY SoonerCounts
  <2>2. \A i, j \in D : p[i] = p[j] => i = j
    BY <1>1
  <2> QED BY <2>1, <2>2 DEF Injection, IsInjective
<1>3. IsFiniteSet(D)
  BY FS_Interval
<1>4. p \in Surjection(D, D)
  BY <1>2, <1>3, FS_Injection
<1>5. \A r \in D : \E i \in D : Rank(n, key, i) = r
  BY <1>4 DEF Surjection
<1>6. \A r \in D : q[r] \in D /\ Rank(n, key, q[r]) = r
  BY <1>5
<1>7. q \in [D -> D]
  BY <1>6
<1>8. \A i, j \in D : q[i] = q[j] => i = j
  BY <1>6, Zenon
<1>9. \A i \in D : \E r \in D : q[r] = i
  <2> TAKE i \in D
  <2>1. Rank(n, key, i) \in D
    BY SoonerCounts
  <2>2. q[Rank(n, key, i)] = i
    BY <2>1, <1>1, <1>6
  <2> QED BY <2>1, <2>2
<1>10. SortedBy(s, key) = [r \in DOMAIN s |-> s[q[r]]]
  BY DEF SortedBy, Rank, Sooner
<1> HIDE DEF q, D
<1> QED BY <1>7, <1>8, <1>9, <1>10 DEF Permuted, D

LEMMA PermutedSeq ==
  ASSUME NEW T, NEW s \in Seq(T), NEW t, Permuted(t, s)
  PROVE  /\ t \in Seq(T) /\ Len(t) = Len(s) /\ DOMAIN t = DOMAIN s
         /\ ToSet(t) = ToSet(s)
         /\ IsInjective(s) => IsInjective(t)
<1>1. PICK q \in [DOMAIN s -> DOMAIN s] :
        /\ t = [r \in DOMAIN s |-> s[q[r]]]
        /\ \A i, j \in DOMAIN s : q[i] = q[j] => i = j
        /\ \A i \in DOMAIN s : \E r \in DOMAIN s : q[r] = i
  BY DEF Permuted
<1>2. Len(s) \in Nat /\ DOMAIN s = 1..Len(s) /\ \A i \in DOMAIN s : s[i] \in T
  OBVIOUS
<1>3. DOMAIN t = DOMAIN s /\ \A r \in DOMAIN s : t[r] = s[q[r]] /\ q[r] \in DOMAIN s
  BY <1>1
<1>4. t \in Seq(T) /\ Len(t) = Len(s)
  <2>1. t \in [1..Len(s) -> T]
    BY <1>1, <1>2
  <2> QED BY <2>1, <1>2
<1>5. ToSet(t) = ToSet(s)
  <2>1. ASSUME NEW x \in ToSet(t) PROVE x \in ToSet(s)
    BY <1>3 DEF ToSet
  <2>2. ASSUME NEW x \in ToSet(s) PROVE x \in ToSet(t)
    <3>1. PICK i \in DOMAIN s : x = s[i]
      BY DEF ToSet
    <3>2. PICK r \in DOMAIN s : q[r] = i
      BY <1>1
    <3> QED BY <3>1, <3>2, <1>3 DEF ToSet
  <2> QED BY <2>1, <2>2
<1>6. ASSUME IsInjective(s) PROVE IsInjective(t)
  <2>1. ASSUME NEW i \in DOMAIN t, NEW j \in DOMAIN t, t[i] = t[j] PROVE i = j
    <3>1. s[q[i]] = s[q[j]] /\ q[i] \in DOMAIN s /\ q[j] \in DOMAIN s
      BY <2>1, <1>3
    <3>2. q[i] = q[j]
      BY <3>1, <1>6 DEF IsInjective
    <3> QED BY <3>2, <1>1, <1>3
  <2> QED BY <2>1 DEF IsInjective
<1> QED BY <1>3, <1>4, <1>5, <1>6

LEMMA PermutedPacked ==
  ASSUME NEW gs, Packed(gs), NEW t, Permuted(t, gs)
  PROVE  Packed(t) /\ Covered(t) = Covered(gs) /\ ToSet(t) = ToSet(gs)
<1>1. PICK q \in [DOMAIN gs -> DOMAIN gs] :
        /\ t = [r \in DOMAIN gs |-> gs[q[r]]]
        /\ \A i, j \in DOMAIN gs : q[i] = q[j] => i = j
        /\ \A i \in DOMAIN gs : \E r \in DOMAIN gs : q[r] = i
  BY DEF Permuted
<1>2. gs \in Seq(Seq(ReportFinding))
  BY DEF Packed
<1>3. t \in Seq(Seq(ReportFinding)) /\ DOMAIN t = DOMAIN gs /\ ToSet(t) = ToSet(gs)
  BY <1>2, PermutedSeq
<1>4. \A r \in DOMAIN gs : t[r] = gs[q[r]] /\ q[r] \in DOMAIN gs
  BY <1>1
<1>5. \A r \in DOMAIN t : Bundle(t[r])
  BY <1>3, <1>4 DEF Packed
<1>6. ASSUME NEW i \in DOMAIN t, NEW j \in DOMAIN t, i # j
      PROVE  ToSet(t[i]) \cap ToSet(t[j]) = {}
  <2>1. q[i] # q[j]
    BY <1>1, <1>3, <1>6
  <2> QED BY <2>1, <1>3, <1>4 DEF Packed
<1>7. Covered(t) = Covered(gs)
  <2>1. ASSUME NEW x \in Covered(t) PROVE x \in Covered(gs)
    BY <1>3, <1>4, InCovered
  <2>2. ASSUME NEW x \in Covered(gs) PROVE x \in Covered(t)
    <3>1. PICK i \in DOMAIN gs : x \in ToSet(gs[i])
      BY InCovered
    <3>2. PICK r \in DOMAIN gs : q[r] = i
      BY <1>1
    <3>3. x \in ToSet(t[r]) /\ r \in DOMAIN t
      BY <3>1, <3>2, <1>3, <1>4
    <3> QED BY <3>3, InCovered
  <2> QED BY <2>1, <2>2
<1> QED BY <1>3, <1>5, <1>6, <1>7 DEF Packed

LEMMA CutAfter ==
  ASSUME NEW n \in Nat, NEW k \in 1..n
  PROVE  /\ n - (k + 1) + 1 = n - k
         /\ (IF k + 1 <= n THEN n - (k + 1) + 1 ELSE 0) = n - k
         /\ \A i \in 1..(n - k) : (k + 1) + i - 1 = k + i
OBVIOUS

Concat(t, s, u) ==
  /\ Len(t) = Len(s) + Len(u)
  /\ \A i \in 1..(Len(s) + Len(u)) : t[i] = IF i <= Len(s) THEN s[i] ELSE u[i - Len(s)]

LEMMA ConcatOf ==
  ASSUME NEW T, NEW s \in Seq(T), NEW u \in Seq(T)
  PROVE  s \o u \in Seq(T) /\ Concat(s \o u, s, u)
<1>1. /\ s \o u \in Seq(T) /\ Len(s \o u) = Len(s) + Len(u)
      /\ \A i \in 1..(Len(s) + Len(u)) : (s \o u)[i] = IF i <= Len(s) THEN s[i] ELSE u[i - Len(s)]
  BY ConcatProperties
<1> QED BY <1>1 DEF Concat

LEMMA MovedFirst ==
  ASSUME NEW T, NEW s \in Seq(T), NEW k \in 1..Len(s)
  PROVE  Permuted(<<s[k]>> \o RemoveAt(s, k), s)
<1> DEFINE n == Len(s)
           a == SubSeq(s, 1, k - 1)
           b == SubSeq(s, k + 1, n)
           t == <<s[k]>> \o (a \o b)
           q == [r \in 1..n |-> IF r = 1 THEN k ELSE IF r <= k THEN r - 1 ELSE r]
<1>1. n \in Nat /\ DOMAIN s = 1..n /\ k \in 1..n
  OBVIOUS
<1>2. a \in Seq(T) /\ Len(a) = k - 1 /\ \A i \in 1..(k - 1) : a[i] = s[i]
  BY <1>1
<1>3. b \in Seq(T) /\ Len(b) = n - k /\ \A i \in 1..(n - k) : b[i] = s[k + i]
  <2>1. k + 1 \in Int /\ n \in Int /\ \A i \in (k + 1)..n : s[i] \in T
    BY <1>1
  <2>2. /\ b \in Seq(T) /\ Len(b) = IF k + 1 <= n THEN n - (k + 1) + 1 ELSE 0
        /\ \A i \in 1..(n - (k + 1) + 1) : b[i] = s[(k + 1) + i - 1]
    BY <2>1, SubSeqProperties
  <2> HIDE DEF b
  <2>3. n - (k + 1) + 1 = n - k /\ (IF k + 1 <= n THEN n - (k + 1) + 1 ELSE 0) = n - k
        /\ \A i \in 1..(n - k) : (k + 1) + i - 1 = k + i
    <3> HIDE DEF n
    <3> QED BY <1>1, CutAfter
  <2> HIDE DEF n
  <2> QED BY <2>2, <2>3
<1>4. <<s[k]>> \in Seq(T) /\ Len(<<s[k]>>) = 1 /\ <<s[k]>>[1] = s[k]
  BY <1>1
<1> DEFINE c == a \o b
<1>5. c \in Seq(T) /\ Len(c) = n - 1
      /\ \A i \in 1..(n - 1) : c[i] = IF i <= k - 1 THEN a[i] ELSE b[i - (k - 1)]
  <2> HIDE DEF a, b, n
  <2>1. /\ c \in Seq(T) /\ Len(c) = Len(a) + Len(b)
        /\ \A i \in 1..(Len(a) + Len(b)) : c[i] = IF i <= Len(a) THEN a[i] ELSE b[i - Len(a)]
    BY <1>2, <1>3, ConcatProperties
  <2>2. Len(a) + Len(b) = n - 1
    BY <1>1, <1>2, <1>3
  <2> QED BY <2>1, <2>2, <1>2
<1> DEFINE h == <<s[k]>>
<1>6. t \in Seq(T) /\ Len(t) = n
      /\ \A i \in 1..n : t[i] = IF i = 1 THEN s[k] ELSE c[i - 1]
  <2>0. t = h \o c /\ h \in Seq(T) /\ Len(h) = 1 /\ h[1] = s[k]
    BY <1>4
  <2> HIDE DEF a, b, c, h, n, t
  <2>1. /\ t \in Seq(T) /\ Len(t) = 1 + Len(c)
        /\ \A i \in 1..(1 + Len(c)) : t[i] = IF i <= 1 THEN h[i] ELSE c[i - 1]
    <3>1. /\ t \in Seq(T) /\ Len(t) = Len(h) + Len(c)
          /\ \A i \in 1..(Len(h) + Len(c)) : t[i] = IF i <= Len(h) THEN h[i] ELSE c[i - Len(h)]
      <4>1. h \in Seq(T) /\ c \in Seq(T) /\ t = h \o c
        BY <1>5, <2>0
      <4>2. t \in Seq(T) /\ Concat(t, h, c)
        BY <4>1, ConcatOf
      <4> QED BY <4>2 DEF Concat
    <3> QED BY <2>0, <3>1
  <2>2. 1 + Len(c) = n
    BY <1>1, <1>5
  <2>3. \A i \in 1..n : i <= 1 <=> i = 1
    BY <1>1
  <2> QED BY <2>0, <2>1, <2>2, <2>3
<1> HIDE DEF a, b, c, t, h
<1>7. \A i \in 1..n : t[i] = s[q[i]]
  <2> TAKE i \in 1..n
  <2> HIDE DEF n
  <2>1. CASE i = 1
    BY <2>1, <1>6, <1>1
  <2>2. CASE i # 1 /\ i <= k
    <3>1. t[i] = c[i - 1] /\ i - 1 \in 1..(n - 1) /\ i - 1 \in 1..(k - 1) /\ i - 1 <= k - 1
      BY <2>2, <1>6, <1>1
    <3>2. c[i - 1] = a[i - 1] /\ a[i - 1] = s[i - 1]
      BY <3>1, <1>5, <1>2
    <3>3. q[i] = i - 1
      BY <2>2
    <3> QED BY <3>1, <3>2, <3>3
  <2>3. CASE i > k
    <3>0. i # 1 /\ i - 1 \in 1..(n - 1) /\ ~(i - 1 <= k - 1)
          /\ (i - 1) - (k - 1) \in 1..(n - k) /\ k + ((i - 1) - (k - 1)) = i
      BY <2>3, <1>1
    <3>1. t[i] = c[i - 1]
      BY <3>0, <1>6
    <3>2. c[i - 1] = b[(i - 1) - (k - 1)] /\ b[(i - 1) - (k - 1)] = s[i]
      BY <3>0, <1>5, <1>3
    <3>3. q[i] = i
      BY <3>0, <2>3, <1>1
    <3> QED BY <3>1, <3>2, <3>3
  <2> QED BY <2>1, <2>2, <2>3, <1>1
<1>8. q \in [1..n -> 1..n]
  BY <1>1
<1>9. \A i, j \in 1..n : q[i] = q[j] => i = j
  BY <1>1
<1>10. \A i \in 1..n : \E r \in 1..n : q[r] = i
  <2> TAKE i \in 1..n
  <2>1. CASE i = k
    BY <2>1, <1>1
  <2>2. CASE i < k
    <3>1. i + 1 \in 1..n /\ q[i + 1] = i
      BY <2>2, <1>1
    <3> QED BY <3>1
  <2>3. CASE i > k
    <3>1. q[i] = i
      BY <2>3, <1>1
    <3> QED BY <3>1
  <2> QED BY <2>1, <2>2, <2>3, <1>1
<1>11. t = [r \in 1..n |-> s[q[r]]]
  <2>1. t = [r \in 1..n |-> t[r]]
    BY <1>6
  <2> HIDE DEF q
  <2> QED BY <2>1, <1>7
<1>12. t = <<s[k]>> \o RemoveAt(s, k)
  BY DEF t, c, a, b, RemoveAt
<1> HIDE DEF q
<1>13. Permuted(t, s)
  BY <1>1, <1>8, <1>9, <1>10, <1>11 DEF Permuted
<1> QED BY <1>12, <1>13

LEMMA PermutedBundle ==
  ASSUME NEW g, Bundle(g), NEW t, Permuted(t, g)
  PROVE  Bundle(t) /\ ToSet(t) = ToSet(g)
<1>1. g \in Seq(ReportFinding) /\ g # <<>> /\ IsInjective(g)
  BY DEF Bundle
<1>2. t \in Seq(ReportFinding) /\ Len(t) = Len(g) /\ ToSet(t) = ToSet(g) /\ IsInjective(t)
  BY <1>1, PermutedSeq
<1>3. Len(g) # 0
  BY <1>1
<1>4. t # <<>>
  BY <1>2, <1>3
<1> QED BY <1>2, <1>4 DEF Bundle

LEMMA InOrderHolds ==
  ASSUME NEW g, Bundle(g), ~Disagree(g)
  PROVE  Bundle(InOrder(g)) /\ ToSet(InOrder(g)) = ToSet(g)
<1>1. g \in Seq(ReportFinding) /\ 1 \in DOMAIN g
  BY DEF Bundle
<1>2. CASE ~Stamped(g[1])
  BY <1>2 DEF InOrder
<1>3. CASE Stamped(g[1])
  <2> DEFINE ids == g[1].stamp.ids
             key == [i \in DOMAIN g |-> Position(g[i], ids)]
             n == Len(g)
  <2>1. DOMAIN ids \subseteq Nat
    <3>1. g[1] \in ReportFinding
      BY <1>1
    <3>2. ids \in Seq(Nat)
      BY <3>1 DEF ReportFinding, DeliveryStamp
    <3> HIDE DEF ids
    <3> QED BY <3>2
  <2>2. \A i \in DOMAIN g : \E k \in DOMAIN ids : ids[k] = g[i].id
    <3> TAKE i \in DOMAIN g
    <3>1. g[i] \in ToSet(g)
      BY DEF ToSet
    <3>2. g[i].id \in ToSet(ids)
      BY <3>1, <1>3 DEF Disagree
    <3> QED BY <3>2, InSet
  <2>3. \A i \in DOMAIN g : Position(g[i], ids) \in Nat
    BY <2>1, <2>2 DEF Position
  <2>4. n \in Nat /\ DOMAIN g = 1..n
    BY <1>1
  <2>5. key \in [1..n -> Nat]
    BY <2>3, <2>4
  <2>6. InOrder(g) = SortedBy(g, key)
    BY <1>3 DEF InOrder
  <2> HIDE DEF key, n
  <2>7. Permuted(SortedBy(g, key), g)
    BY <2>4, <2>5, SortedPermutes
  <2> QED BY <2>6, <2>7, PermutedBundle
<1> QED BY <1>2, <1>3

LEMMA LeadFirstHolds ==
  ASSUME NEW g, Bundle(g)
  PROVE  Bundle(LeadFirst(g)) /\ ToSet(LeadFirst(g)) = ToSet(g)
<1> DEFINE leads == {i \in DOMAIN g : Leads(g[i], g[1])}
           lead == IF leads = {} THEN 1 ELSE Min(leads)
<1>1. g \in Seq(ReportFinding) /\ 1 \in 1..Len(g) /\ DOMAIN g = 1..Len(g)
  BY DEF Bundle
<1>2. lead \in 1..Len(g)
  <2>1. leads \in SUBSET Nat /\ leads \subseteq DOMAIN g
    BY <1>1
  <2> HIDE DEF leads
  <2> QED BY <2>1, <1>1, LeastOne
<1>3. LeadFirst(g) = <<g[lead]>> \o RemoveAt(g, lead)
  BY DEF LeadFirst
<1> HIDE DEF lead
<1>4. Permuted(<<g[lead]>> \o RemoveAt(g, lead), g)
  BY <1>1, <1>2, MovedFirst
<1> QED BY <1>3, <1>4, PermutedBundle

LEMMA AsGroupHolds ==
  ASSUME NEW g, Bundle(g), ~Disagree(g)
  PROVE  Bundle(AsGroup(g)) /\ ToSet(AsGroup(g)) = ToSet(g)
BY InOrderHolds, LeadFirstHolds DEF AsGroup

LEMMA PlannedHolds ==
  ASSUME NEW gs, Packed(gs), \A g \in ToSet(gs) : ~Disagree(g)
  PROVE  /\ Packed([i \in DOMAIN gs |-> AsGroup(gs[i])])
         /\ Covered([i \in DOMAIN gs |-> AsGroup(gs[i])]) = Covered(gs)
<1> DEFINE t == [i \in DOMAIN gs |-> AsGroup(gs[i])]
<1>1. gs \in Seq(Seq(ReportFinding)) /\ \A i \in DOMAIN gs : gs[i] \in ToSet(gs)
  BY DEF Packed, ToSet
<1>2. DOMAIN t = DOMAIN gs /\ \A i \in DOMAIN gs : t[i] = AsGroup(gs[i])
  OBVIOUS
<1>3. \A i \in DOMAIN gs : Bundle(t[i]) /\ ToSet(t[i]) = ToSet(gs[i])
  BY <1>1, <1>2, AsGroupHolds DEF Packed
<1>4. t \in Seq(Seq(ReportFinding))
  <2>1. \A i \in DOMAIN gs : t[i] \in Seq(ReportFinding)
    BY <1>3 DEF Bundle
  <2>2. t \in [1..Len(gs) -> Seq(ReportFinding)] /\ Len(gs) \in Nat
    BY <1>1, <1>2, <2>1
  <2> QED BY <2>2
<1> HIDE DEF t
<1>5. Covered(t) = Covered(gs)
  <2>1. \A x : x \in Covered(t) <=> x \in Covered(gs)
    BY <1>2, <1>3, InCovered
  <2> QED BY <2>1
<1>6. Packed(t)
  BY <1>2, <1>3, <1>4 DEF Packed
<1> QED BY <1>5, <1>6 DEF t
-----------------------------------------------------------------------------
(* What the groups hold, one after the other. *)
CoveredTo(gs, n) == UNION {ToSet(gs[i]) : i \in 1..n}

LEMMA CoveredToAll ==
  ASSUME NEW gs, Packed(gs)
  PROVE  CoveredTo(gs, Len(gs)) = Covered(gs)
<1>1. gs \in Seq(Seq(ReportFinding))
  BY DEF Packed
<1>2. DOMAIN gs = 1..Len(gs)
  BY <1>1
<1> QED BY <1>2 DEF CoveredTo, Covered

LEMMA CoveredOneMore ==
  ASSUME NEW gs, Packed(gs), NEW i \in 1..Len(gs)
  PROVE  /\ CoveredTo(gs, i) = CoveredTo(gs, i - 1) \cup ToSet(gs[i])
         /\ CoveredTo(gs, i - 1) \cap ToSet(gs[i]) = {}
<1>1. gs \in Seq(Seq(ReportFinding))
  BY DEF Packed
<1>2. 1..i = 1..(i - 1) \cup {i} /\ i \notin 1..(i - 1) /\ 1..i \subseteq DOMAIN gs /\ i \in DOMAIN gs
  BY <1>1
<1>3. CoveredTo(gs, i) = CoveredTo(gs, i - 1) \cup ToSet(gs[i])
  BY <1>2 DEF CoveredTo
<1>4. \A j \in 1..(i - 1) : j \in DOMAIN gs /\ j # i
  BY <1>2
<1>5. \A j \in 1..(i - 1) : ToSet(gs[j]) \cap ToSet(gs[i]) = {}
  BY <1>2, <1>4 DEF Packed
<1>6. CoveredTo(gs, i - 1) \cap ToSet(gs[i]) = {}
  BY <1>5 DEF CoveredTo
<1> QED BY <1>3, <1>6

LEMMA ConcatOnce ==
  ASSUME NEW T, NEW s \in Seq(T), NEW u \in Seq(T)
  PROVE  /\ ToSet(s \o u) = ToSet(s) \cup ToSet(u)
         /\ IsInjective(s) /\ IsInjective(u) /\ ToSet(s) \cap ToSet(u) = {} => IsInjective(s \o u)
<1> DEFINE t == s \o u
           m == Len(s)
           n == Len(u)
<1>1. t \in Seq(T) /\ Concat(t, s, u)
  BY ConcatOf
<1>2. m \in Nat /\ n \in Nat /\ DOMAIN s = 1..m /\ DOMAIN u = 1..n /\ Len(t) \in Nat /\ DOMAIN t = 1..Len(t)
  BY <1>1
<1>3. Len(t) = m + n /\ \A i \in 1..(m + n) : t[i] = IF i <= m THEN s[i] ELSE u[i - m]
  BY <1>1 DEF Concat
<1> HIDE DEF t, m, n
<1>4. \A i \in DOMAIN t : \/ i \in DOMAIN s /\ i <= m /\ t[i] = s[i]
                          \/ i - m \in DOMAIN u /\ ~(i <= m) /\ t[i] = u[i - m] /\ i \in Int
  BY <1>2, <1>3
<1>5. ToSet(t) = ToSet(s) \cup ToSet(u)
  <2>1. ASSUME NEW x \in ToSet(t) PROVE x \in ToSet(s) \cup ToSet(u)
    BY <1>4, InSet
  <2>2. ASSUME NEW x \in ToSet(s) PROVE x \in ToSet(t)
    <3>1. PICK i \in DOMAIN s : x = s[i]
      BY InSet
    <3>2. i \in DOMAIN t /\ t[i] = s[i]
      BY <1>2, <1>3
    <3> QED BY <3>1, <3>2, InSet
  <2>3. ASSUME NEW x \in ToSet(u) PROVE x \in ToSet(t)
    <3>1. PICK i \in DOMAIN u : x = u[i]
      BY InSet
    <3>2. m + i \in DOMAIN t /\ ~(m + i <= m) /\ (m + i) - m = i
      BY <1>2, <1>3
    <3>3. t[m + i] = u[i]
      BY <1>2, <1>3, <3>2
    <3> QED BY <3>1, <3>2, <3>3, InSet
  <2> QED BY <2>1, <2>2, <2>3
<1>6. ASSUME IsInjective(s), IsInjective(u), ToSet(s) \cap ToSet(u) = {}
      PROVE  IsInjective(t)
  <2>1. \A i \in DOMAIN s : \A j \in DOMAIN u : s[i] # u[j]
    BY <1>6, InSet
  <2>2. ASSUME NEW i \in DOMAIN t, NEW j \in DOMAIN t, t[i] = t[j] PROVE i = j
    <3>1. CASE i <= m /\ j <= m
      BY <3>1, <2>2, <1>4, <1>6 DEF IsInjective
    <3>2. CASE ~(i <= m) /\ ~(j <= m)
      <4>1. i - m = j - m
        BY <3>2, <2>2, <1>4, <1>6 DEF IsInjective
      <4> QED BY <4>1, <3>2, <1>2, <1>4
    <3>3. CASE i <= m /\ ~(j <= m)
      BY <3>3, <2>1, <2>2, <1>4
    <3>4. CASE ~(i <= m) /\ j <= m
      BY <3>4, <2>1, <2>2, <1>4
    <3> QED BY <3>1, <3>2, <3>3, <3>4
  <2> QED BY <2>2 DEF IsInjective
<1> QED BY <1>5, <1>6 DEF t

FlatBy(flat, gs) ==
  flat = [i \in 1..Len(gs) |-> IF i = 1 THEN gs[i] ELSE flat[i - 1] \o gs[i]]

LEMMA FlatExists ==
  ASSUME NEW gs \in Seq(Seq(ReportFinding)), Len(gs) # 0
  PROVE  \E flat : FlatBy(flat, gs) /\ FlattenSeq(gs) = flat[Len(gs)]
<1> DEFINE n == Len(gs)
           S == Seq(ReportFinding)
           step == [x \in (1..n) \X S |-> IF x[1] = 1 THEN gs[1] ELSE x[2] \o gs[x[1]]]
<1>1. n \in Nat /\ n # 0 /\ \A i \in 1..n : gs[i] \in S
  OBVIOUS
<1>2. step \in [(1..n) \X S -> S]
  <2>1. ASSUME NEW x \in (1..n) \X S
        PROVE  (IF x[1] = 1 THEN gs[1] ELSE x[2] \o gs[x[1]]) \in S
    <3>1. x[1] \in 1..n /\ x[2] \in S /\ 1 \in 1..n
      BY <1>1
    <3>2. gs[1] \in S /\ gs[x[1]] \in S
      BY <1>1, <3>1
    <3> HIDE DEF n
    <3>3. x[2] \o gs[x[1]] \in S
      BY <3>1, <3>2
    <3> QED BY <3>2, <3>3
  <2> QED BY <2>1
<1>3. <<>> \in S
  OBVIOUS
<1>4. \A i \in 1..n : \A v \in S : step[<<i, v>>] = IF i = 1 THEN gs[1] ELSE v \o gs[i]
  OBVIOUS
<1> HIDE DEF step, S
<1>5. PICK f : Stepwise(n, S, <<>>, step, f)
  BY <1>1, <1>2, <1>3, StepwiseExists, Zenon
<1>6. f \in [0..n -> S] /\ \A i \in 1..n : f[i] = step[<<i, f[i - 1]>>]
  BY <1>5 DEF Stepwise
<1> DEFINE g == [i \in 1..n |-> f[i]]
<1>7. ASSUME NEW i \in 1..n
      PROVE  f[i] = IF i = 1 THEN gs[i] ELSE g[i - 1] \o gs[i]
  <2>1. i - 1 \in 0..n
    BY <1>1
  <2>2. f[i] = IF i = 1 THEN gs[1] ELSE f[i - 1] \o gs[i]
    BY <2>1, <1>4, <1>6
  <2>3. i # 1 => i - 1 \in 1..n
    BY <1>1
  <2>4. i # 1 => g[i - 1] = f[i - 1]
    BY <2>3
  <2> HIDE DEF g
  <2> QED BY <2>2, <2>4
<1>8. FlatBy(g, gs)
  BY <1>7 DEF FlatBy
<1>9. FlattenSeq(gs) = (CHOOSE flat : FlatBy(flat, gs))[Len(gs)]
  BY DEF FlattenSeq, FlatBy
<1> HIDE DEF g
<1> QED BY <1>8, <1>9

LEMMA FlatHolds ==
  ASSUME NEW gs, Packed(gs)
  PROVE  /\ FlattenSeq(gs) \in Seq(ReportFinding)
         /\ IsInjective(FlattenSeq(gs))
         /\ ToSet(FlattenSeq(gs)) = Covered(gs)
<1>0. gs \in Seq(Seq(ReportFinding)) /\ Len(gs) \in Nat
  BY DEF Packed
<1>1. CASE Len(gs) = 0
  <2>1. gs = <<>>
    BY <1>0, <1>1
  <2>2. FlattenSeq(gs) = <<>>
    BY <1>1, <2>1 DEF FlattenSeq
  <2> DEFINE e == <<>>
  <2>3. e \in Seq(ReportFinding) /\ DOMAIN e = {}
    OBVIOUS
  <2> HIDE DEF e
  <2>4. IsInjective(e) /\ ToSet(e) = {}
    BY <2>3 DEF IsInjective, ToSet
  <2>5. Covered(e) = {}
    BY <2>3 DEF Covered
  <2> QED BY <2>1, <2>2, <2>3, <2>4, <2>5 DEF e
<1>2. CASE Len(gs) # 0
  <2> DEFINE n == Len(gs)
             T == Seq(ReportFinding)
  <2>1. PICK f : FlatBy(f, gs) /\ FlattenSeq(gs) = f[n]
    BY <1>0, <1>2, FlatExists
  <2>2. \A i \in 1..n : f[i] = IF i = 1 THEN gs[i] ELSE f[i - 1] \o gs[i]
    BY <2>1 DEF FlatBy
  <2> DEFINE P == {i \in 0..n : i # 0 => /\ f[i] \in T /\ IsInjective(f[i])
                                         /\ ToSet(f[i]) = CoveredTo(gs, i)}
  <2>3. 0 \in P
    BY <1>0
  <2>4. ASSUME NEW i \in 1..n, i - 1 \in P PROVE i \in P
    <3>0. i \in 0..n /\ i \in DOMAIN gs
      BY <1>0
    <3>1. gs[i] \in T /\ IsInjective(gs[i])
      BY <3>0 DEF Packed, Bundle
    <3>2. CASE i = 1
      <4>1. f[i] = gs[i]
        BY <2>2, <3>2
      <4>2. 1..i = {i}
        BY <3>2
      <4>3. CoveredTo(gs, i) = ToSet(gs[i])
        BY <4>2 DEF CoveredTo
      <4> QED BY <3>0, <3>1, <4>1, <4>3
    <3>3. CASE i # 1
      <4>1. f[i] = f[i - 1] \o gs[i]
        BY <2>2, <3>3
      <4>2. f[i - 1] \in T /\ IsInjective(f[i - 1]) /\ ToSet(f[i - 1]) = CoveredTo(gs, i - 1)
        BY <2>4, <3>3
      <4>3. /\ CoveredTo(gs, i) = CoveredTo(gs, i - 1) \cup ToSet(gs[i])
            /\ CoveredTo(gs, i - 1) \cap ToSet(gs[i]) = {}
        BY CoveredOneMore
      <4> DEFINE a == f[i - 1]
                 b == gs[i]
      <4>4. a \in T /\ b \in T /\ IsInjective(a) /\ IsInjective(b) /\ ToSet(a) \cap ToSet(b) = {}
        BY <3>1, <4>2, <4>3
      <4> HIDE DEF a, b
      <4>5. /\ a \o b \in T /\ ToSet(a \o b) = ToSet(a) \cup ToSet(b) /\ IsInjective(a \o b)
        BY <4>4, ConcatOnce, ConcatOf
      <4> QED BY <3>0, <4>1, <4>2, <4>3, <4>5 DEF a, b
    <3> QED BY <3>2, <3>3
  <2> HIDE DEF P
  <2>5. \A i \in 0..n : i \in P
    BY <1>0, <2>3, <2>4, UpTo
  <2>6. n \in P /\ n # 0
    BY <1>0, <1>2, <2>5
  <2> QED BY <2>1, <2>6, CoveredToAll DEF P
<1> QED BY <1>1, <1>2
-----------------------------------------------------------------------------
(* What the entries of a digest take. *)
PieceSum == [size : Nat, dimensions : SUBSET Nat]

LEMMA PieceTypes ==
  ASSUME NEW acc \in PieceSum, NEW f \in ReportFinding
  PROVE  Piece(acc, f) \in PieceSum
<1> DEFINE new == {DimensionOf(f)} \ (acc.dimensions \cup {0})
<1>1. f.size \in Nat /\ f.dimension \in Nat
  BY DEF ReportFinding
<1>2. DimensionOf(f) \in Nat
  BY <1>1 DEF DimensionOf
<1>3. IsFiniteSet({DimensionOf(f)})
  BY FS_Singleton
<1>4. IsFiniteSet(new)
  BY <1>3, FS_Subset
<1>5. Cardinality(new) \in Nat
  BY <1>4, FS_CardinalityType
<1>6. acc.size \in Nat /\ acc.dimensions \in SUBSET Nat /\ Heading \in Nat
  BY ReviewAssumption DEF PieceSum
<1>7. acc.dimensions \cup new \in SUBSET Nat
  BY <1>2, <1>6
<1>8. Piece(acc, f) = [size |-> acc.size + f.size + Heading * Cardinality(new),
                       dimensions |-> acc.dimensions \cup new]
  BY DEF Piece
<1> HIDE DEF new
<1>9. Heading * Cardinality(new) \in Nat
  BY <1>5, <1>6
<1>10. acc.size + f.size + Heading * Cardinality(new) \in Nat
  BY <1>1, <1>6, <1>9
<1> QED BY <1>7, <1>8, <1>10 DEF PieceSum

PiecesBy(p, entries, dimensions) ==
  p = [i \in 0..Len(entries) |->
         IF i = 0 THEN [size |-> 0, dimensions |-> dimensions] ELSE Piece(p[i - 1], entries[i])]

LEMMA PiecesExist ==
  ASSUME NEW entries \in Seq(ReportFinding), NEW D \in SUBSET Nat
  PROVE  \E p : PiecesBy(p, entries, D) /\ Pieces(entries, D) = p[Len(entries)]
<1> DEFINE n == Len(entries)
           base == [size |-> 0, dimensions |-> D]
           step == [x \in (1..n) \X PieceSum |-> Piece(x[2], entries[x[1]])]
<1>1. n \in Nat /\ \A i \in 1..n : entries[i] \in ReportFinding
  OBVIOUS
<1>2. base \in PieceSum
  BY DEF PieceSum
<1>3. step \in [(1..n) \X PieceSum -> PieceSum]
  <2>1. ASSUME NEW x \in (1..n) \X PieceSum PROVE Piece(x[2], entries[x[1]]) \in PieceSum
    BY <1>1, PieceTypes
  <2> QED BY <2>1
<1>4. \A i \in 1..n : \A v \in PieceSum : step[<<i, v>>] = Piece(v, entries[i])
  OBVIOUS
<1> HIDE DEF step, base
<1>5. PICK f : Stepwise(n, PieceSum, base, step, f)
  BY <1>1, <1>2, <1>3, StepwiseExists, Zenon
<1>6. f \in [0..n -> PieceSum] /\ f[0] = base /\ \A i \in 1..n : f[i] = step[<<i, f[i - 1]>>]
  BY <1>5 DEF Stepwise
<1>7. ASSUME NEW i \in 0..n PROVE f[i] = IF i = 0 THEN base ELSE Piece(f[i - 1], entries[i])
  <2>1. i # 0 => i \in 1..n /\ i - 1 \in 0..n
    BY <1>1
  <2> QED BY <2>1, <1>4, <1>6
<1>8. PiecesBy(f, entries, D)
  BY <1>6, <1>7 DEF PiecesBy, base
<1>9. Pieces(entries, D) = (CHOOSE p : PiecesBy(p, entries, D))[Len(entries)]
  BY DEF Pieces, PiecesBy
<1> QED BY <1>8, <1>9

Summed(p, entries, D) ==
  /\ p[0] = [size |-> 0, dimensions |-> D]
  /\ \A i \in 1..Len(entries) : p[i] = Piece(p[i - 1], entries[i])
  /\ \A i \in 0..Len(entries) : p[i] \in PieceSum
  /\ Pieces(entries, D) = p[Len(entries)]

LEMMA PiecesSummed ==
  ASSUME NEW entries \in Seq(ReportFinding), NEW D \in SUBSET Nat
  PROVE  \E p : Summed(p, entries, D)
<1> DEFINE n == Len(entries)
<1>1. PICK p : PiecesBy(p, entries, D) /\ Pieces(entries, D) = p[n]
  BY PiecesExist
<1>2. n \in Nat /\ \A i \in 1..n : entries[i] \in ReportFinding
  OBVIOUS
<1>3. \A i \in 0..n : p[i] = IF i = 0 THEN [size |-> 0, dimensions |-> D] ELSE Piece(p[i - 1], entries[i])
  BY <1>1 DEF PiecesBy
<1>4. p[0] = [size |-> 0, dimensions |-> D]
  BY <1>2, <1>3
<1>5. \A i \in 1..n : p[i] = Piece(p[i - 1], entries[i])
  BY <1>2, <1>3
<1> DEFINE P == {i \in 0..n : p[i] \in PieceSum}
<1>6. 0 \in P
  <2>1. [size |-> 0, dimensions |-> D] \in PieceSum
    BY DEF PieceSum
  <2>2. 0 \in 0..n
    BY <1>2
  <2> QED BY <2>1, <2>2, <1>4
<1>7. ASSUME NEW i \in 1..n, i - 1 \in P PROVE i \in P
  <2>1. p[i - 1] \in PieceSum /\ entries[i] \in ReportFinding /\ i \in 0..n
    BY <1>2, <1>7
  <2> QED BY <2>1, <1>5, PieceTypes
<1> HIDE DEF P
<1>8. \A i \in 0..n : i \in P
  BY <1>2, <1>6, <1>7, UpTo
<1>9. \A i \in 0..n : p[i] \in PieceSum
  BY <1>8 DEF P
<1> QED BY <1>1, <1>4, <1>5, <1>9 DEF Summed

LEMMA PiecesTypes ==
  ASSUME NEW entries \in Seq(ReportFinding), NEW D \in SUBSET Nat
  PROVE  Pieces(entries, D) \in PieceSum
<1>1. PICK p : Summed(p, entries, D)
  BY PiecesSummed
<1>2. Len(entries) \in 0..Len(entries)
  OBVIOUS
<1> QED BY <1>1, <1>2 DEF Summed

LEMMA PiecesOfNone ==
  ASSUME NEW D \in SUBSET Nat
  PROVE  Pieces(<<>>, D) = [size |-> 0, dimensions |-> D]
<1> DEFINE e == <<>>
<1>1. e \in Seq(ReportFinding) /\ Len(e) = 0
  OBVIOUS
<1> HIDE DEF e
<1>2. PICK p : Summed(p, e, D)
  BY <1>1, PiecesSummed
<1>3. Pieces(e, D) = [size |-> 0, dimensions |-> D]
  BY <1>1, <1>2 DEF Summed
<1> QED BY <1>3 DEF e

(* Two summaries, one after the other. *)
Plus(a, b) == [size |-> a.size + b.size, dimensions |-> b.dimensions]

LEMMA PlusPiece ==
  ASSUME NEW a \in PieceSum, NEW b \in PieceSum, NEW f \in ReportFinding
  PROVE  Piece(Plus(a, b), f) = Plus(a, Piece(b, f))
<1> DEFINE new == {DimensionOf(f)} \ (b.dimensions \cup {0})
           k == Heading * Cardinality(new)
<1>1. a.size \in Nat /\ b.size \in Nat /\ f.size \in Nat
  BY DEF PieceSum, ReportFinding
<1>2. Plus(a, b).size = a.size + b.size /\ Plus(a, b).dimensions = b.dimensions
  BY DEF Plus
<1>3. Piece(b, f) = [size |-> b.size + f.size + k, dimensions |-> b.dimensions \cup new]
  BY DEF Piece
<1>4. Piece(Plus(a, b), f) = [size |-> (a.size + b.size) + f.size + k, dimensions |-> b.dimensions \cup new]
  BY <1>2 DEF Piece
<1>5. k \in Int
  <2>1. IsFiniteSet({DimensionOf(f)})
    BY FS_Singleton
  <2>2. IsFiniteSet(new)
    BY <2>1, FS_Subset
  <2>3. Cardinality(new) \in Nat
    BY <2>2, FS_CardinalityType
  <2>4. Heading \in Nat
    BY ReviewAssumption
  <2> HIDE DEF new
  <2> QED BY <2>3, <2>4
<1> HIDE DEF k, new
<1>6. Plus(a, Piece(b, f)) = [size |-> a.size + (b.size + f.size + k), dimensions |-> b.dimensions \cup new]
  BY <1>3 DEF Plus
<1>7. (a.size + b.size) + f.size + k = a.size + (b.size + f.size + k)
  BY <1>1, <1>5
<1> QED BY <1>4, <1>6, <1>7

LEMMA PiecesOfBoth ==
  ASSUME NEW s \in Seq(ReportFinding), NEW u \in Seq(ReportFinding), NEW D \in SUBSET Nat
  PROVE  Pieces(s \o u, D) = Plus(Pieces(s, D), Pieces(u, Pieces(s, D).dimensions))
<1> DEFINE t == s \o u
           m == Len(s)
           n == Len(u)
           E == Pieces(s, D).dimensions
<1>1. t \in Seq(ReportFinding) /\ Concat(t, s, u)
  BY ConcatOf
<1>2. /\ Len(t) = m + n /\ m \in Nat /\ n \in Nat
      /\ \A i \in 1..(m + n) : t[i] = IF i <= m THEN s[i] ELSE u[i - m]
      /\ \A i \in 1..n : u[i] \in ReportFinding
  BY <1>1 DEF Concat
<1> HIDE DEF t, m, n
<1>3. Pieces(s, D) \in PieceSum /\ E \in SUBSET Nat
  <2>1. Pieces(s, D) \in PieceSum
    BY PiecesTypes
  <2> QED BY <2>1 DEF PieceSum
<1> HIDE DEF E
<1>4. PICK p : Summed(p, t, D)
  BY <1>1, PiecesSummed
<1>5. PICK a : Summed(a, s, D)
  BY PiecesSummed
<1>6. PICK b : Summed(b, u, E)
  BY <1>3, PiecesSummed
<1>7. /\ p[0] = [size |-> 0, dimensions |-> D] /\ Pieces(t, D) = p[m + n]
      /\ \A i \in 1..(m + n) : p[i] = Piece(p[i - 1], t[i])
  BY <1>2, <1>4 DEF Summed
<1>8. /\ a[0] = [size |-> 0, dimensions |-> D] /\ Pieces(s, D) = a[m]
      /\ \A i \in 1..m : a[i] = Piece(a[i - 1], s[i])
  BY <1>5 DEF Summed, m
<1>9. /\ b[0] = [size |-> 0, dimensions |-> E] /\ Pieces(u, E) = b[n]
      /\ \A i \in 1..n : b[i] = Piece(b[i - 1], u[i])
      /\ \A i \in 0..n : b[i] \in PieceSum
  BY <1>6 DEF Summed, n
<1>10. p[m] = a[m]
  <2> DEFINE P == {i \in 0..m : p[i] = a[i]}
  <2>1. 0 \in P
    BY <1>2, <1>7, <1>8
  <2>2. ASSUME NEW i \in 1..m, i - 1 \in P PROVE i \in P
    <3>1. i \in 1..(m + n) /\ i <= m /\ i \in 0..m
      BY <1>2
    <3>2. p[i - 1] = a[i - 1]
      BY <2>2
    <3> QED BY <3>1, <3>2, <1>2, <1>7, <1>8
  <2> HIDE DEF P
  <2>3. \A i \in 0..m : i \in P
    BY <1>2, <2>1, <2>2, UpTo
  <2>4. m \in 0..m
    BY <1>2
  <2> QED BY <2>3, <2>4 DEF P
<1>11. p[m + n] = Plus(a[m], b[n])
  <2> DEFINE P == {i \in 0..n : p[m + i] = Plus(a[m], b[i])}
  <2>1. 0 \in P
    <3>1. a[m] \in PieceSum /\ a[m].dimensions = E
      BY <1>3, <1>8 DEF E
    <3>2. a[m] = [size |-> a[m].size, dimensions |-> a[m].dimensions] /\ a[m].size \in Nat
      BY <3>1 DEF PieceSum
    <3>3. Plus(a[m], b[0]) = [size |-> a[m].size + 0, dimensions |-> E]
      BY <1>9 DEF Plus
    <3>4. Plus(a[m], b[0]) = a[m]
      BY <3>1, <3>2, <3>3
    <3>5. m + 0 = m /\ 0 \in 0..n
      BY <1>2
    <3> QED BY <3>4, <3>5, <1>10
  <2>2. ASSUME NEW i \in 1..n, i - 1 \in P PROVE i \in P
    <3>1. /\ m + i \in 1..(m + n) /\ ~(m + i <= m) /\ (m + i) - m = i /\ (m + i) - 1 = m + (i - 1)
          /\ i \in 0..n /\ i - 1 \in 0..n
      BY <1>2
    <3>2. t[m + i] = u[i] /\ u[i] \in ReportFinding
      BY <1>2, <3>1
    <3>3. p[m + i] = Piece(p[m + (i - 1)], u[i])
      BY <1>7, <3>1, <3>2
    <3>4. p[m + (i - 1)] = Plus(a[m], b[i - 1])
      BY <2>2
    <3>5. b[i] = Piece(b[i - 1], u[i]) /\ b[i - 1] \in PieceSum /\ a[m] \in PieceSum
      BY <1>3, <1>8, <1>9, <3>1
    <3>6. Piece(Plus(a[m], b[i - 1]), u[i]) = Plus(a[m], Piece(b[i - 1], u[i]))
      BY <3>2, <3>5, PlusPiece
    <3> QED BY <3>1, <3>3, <3>4, <3>5, <3>6
  <2> HIDE DEF P
  <2>3. \A i \in 0..n : i \in P
    BY <1>2, <2>1, <2>2, UpTo
  <2>4. n \in 0..n
    BY <1>2
  <2> QED BY <2>3, <2>4 DEF P
<1> QED BY <1>7, <1>8, <1>9, <1>11 DEF t, E
-----------------------------------------------------------------------------
(* The digest.  After n groups: what is shown and what is omitted parts    *)
(* them, by whole groups, and what is shown takes what the room lost.      *)
DigestState == [shown : Seq(ReportFinding), omitted : Seq(ReportFinding), dimensions : SUBSET Nat, room : Int]

Digested(d, gs, n, room) ==
  /\ d \in DigestState
  /\ IsInjective(d.shown) /\ IsInjective(d.omitted)
  /\ ToSet(d.shown) \cap ToSet(d.omitted) = {}
  /\ ToSet(d.shown) \cup ToSet(d.omitted) = CoveredTo(gs, n)
  /\ \A i \in 1..n : ToSet(gs[i]) \subseteq ToSet(d.shown) \/ ToSet(gs[i]) \cap ToSet(d.shown) = {}
  /\ Pieces(d.shown, {}) = [size |-> room - d.room, dimensions |-> d.dimensions]
  /\ room >= 0 => d.room >= 0
  /\ room < 0 => d.shown = <<>> /\ d.room = room

DigestBase(room) == [shown |-> <<>>, omitted |-> <<>>, dimensions |-> {}, room |-> room]
DigestBy(taken, gs, room) ==
  taken = [i \in 0..Len(gs) |-> IF i = 0 THEN DigestBase(room) ELSE Take(taken[i - 1], gs[i])]

LEMMA TakeTypes ==
  ASSUME NEW d \in DigestState, NEW g \in Seq(ReportFinding)
  PROVE  Take(d, g) \in DigestState
<1> DEFINE piece == Pieces(g, d.dimensions)
<1>1. d.shown \in Seq(ReportFinding) /\ d.omitted \in Seq(ReportFinding)
      /\ d.dimensions \in SUBSET Nat /\ d.room \in Int
  BY DEF DigestState
<1>2. piece \in PieceSum
  BY <1>1, PiecesTypes
<1>3. piece.size \in Nat /\ piece.dimensions \in SUBSET Nat
  BY <1>2 DEF PieceSum
<1>4. d.shown \o g \in Seq(ReportFinding) /\ d.omitted \o g \in Seq(ReportFinding)
  BY <1>1, ConcatOf
<1>5. CASE piece.size > d.room
  <2>1. Take(d, g) = [d EXCEPT !.omitted = d.omitted \o g]
    BY <1>5 DEF Take
  <2> QED BY <2>1, <1>4 DEF DigestState
<1>6. CASE ~(piece.size > d.room)
  <2>1. Take(d, g) = [shown |-> d.shown \o g, omitted |-> d.omitted,
                      dimensions |-> piece.dimensions, room |-> d.room - piece.size]
    BY <1>6 DEF Take
  <2>2. d.room - piece.size \in Int
    BY <1>1, <1>3
  <2> HIDE DEF piece
  <2> QED BY <2>1, <2>2, <1>1, <1>3, <1>4 DEF DigestState
<1> QED BY <1>5, <1>6

LEMMA BaseTypes ==
  ASSUME NEW room \in Int
  PROVE  DigestBase(room) \in DigestState
BY DEF DigestBase, DigestState

LEMMA DigestExists ==
  ASSUME NEW gs \in Seq(Seq(ReportFinding)), NEW room \in Int
  PROVE  \E taken : DigestBy(taken, gs, room) /\ Digest(gs, room) = taken[Len(gs)]
<1> DEFINE n == Len(gs)
           base == DigestBase(room)
           step == [x \in (1..n) \X DigestState |-> Take(x[2], gs[x[1]])]
<1>1. n \in Nat /\ \A i \in 1..n : gs[i] \in Seq(ReportFinding)
  OBVIOUS
<1>2. base \in DigestState
  BY BaseTypes
<1>3. step \in [(1..n) \X DigestState -> DigestState]
  <2>1. ASSUME NEW x \in (1..n) \X DigestState PROVE Take(x[2], gs[x[1]]) \in DigestState
    <3>1. x[2] \in DigestState /\ x[1] \in 1..n
      OBVIOUS
    <3>2. gs[x[1]] \in Seq(ReportFinding)
      BY <1>1, <3>1
    <3> QED BY <3>1, <3>2, TakeTypes
  <2> QED BY <2>1
<1>4. \A i \in 1..n : \A v \in DigestState : step[<<i, v>>] = Take(v, gs[i])
  OBVIOUS
<1> HIDE DEF step, base
<1>5. PICK f : Stepwise(n, DigestState, base, step, f)
  BY <1>1, <1>2, <1>3, StepwiseExists, Zenon
<1>6. f \in [0..n -> DigestState] /\ f[0] = base /\ \A i \in 1..n : f[i] = step[<<i, f[i - 1]>>]
  BY <1>5 DEF Stepwise
<1>7. ASSUME NEW i \in 0..n PROVE f[i] = IF i = 0 THEN base ELSE Take(f[i - 1], gs[i])
  <2>1. i # 0 => i \in 1..n /\ i - 1 \in 0..n
    BY <1>1
  <2> QED BY <2>1, <1>4, <1>6
<1>8. DigestBy(f, gs, room)
  BY <1>6, <1>7 DEF DigestBy, base
<1>9. Digest(gs, room) = (CHOOSE taken : DigestBy(taken, gs, room))[Len(gs)]
  BY DEF Digest, DigestBy, DigestBase
<1> QED BY <1>8, <1>9

LEMMA DigestedBase ==
  ASSUME NEW gs, NEW room \in Int
  PROVE  Digested(DigestBase(room), gs, 0, room)
<1> DEFINE e == <<>>
           d == DigestBase(room)
<1>1. e \in Seq(ReportFinding) /\ DOMAIN e = {}
  OBVIOUS
<1>2. d.shown = e /\ d.omitted = e /\ d.dimensions = {} /\ d.room = room /\ d \in DigestState
  BY BaseTypes DEF DigestBase
<1>3. Pieces(e, {}) = [size |-> 0, dimensions |-> {}]
  BY PiecesOfNone
<1> HIDE DEF e, d
<1>4. IsInjective(e) /\ ToSet(e) = {}
  BY <1>1 DEF IsInjective, ToSet
<1>5. CoveredTo(gs, 0) = {} /\ 1..0 = {}
  BY DEF CoveredTo
<1>6. Pieces(e, {}) = [size |-> room - d.room, dimensions |-> d.dimensions]
  <2>1. room - d.room = 0
    BY <1>2
  <2> QED BY <2>1, <1>2, <1>3
<1>7. /\ room >= 0 => d.room >= 0
      /\ room < 0 => d.shown = e /\ d.room = room
  BY <1>2
<1>8. Digested(d, gs, 0, room)
  BY <1>2, <1>4, <1>5, <1>6, <1>7 DEF Digested, e
<1> QED BY <1>8 DEF d

LEMMA OmitOne ==
  ASSUME NEW gs, Packed(gs), NEW i \in 1..Len(gs), NEW room \in Int, NEW d, Digested(d, gs, i - 1, room)
  PROVE  Digested([d EXCEPT !.omitted = d.omitted \o gs[i]], gs, i, room)
<1> DEFINE g == gs[i]
           o == d.omitted \o g
           u == [d EXCEPT !.omitted = o]
<1>1. gs \in Seq(Seq(ReportFinding)) /\ Len(gs) \in Nat /\ i \in DOMAIN gs
  BY DEF Packed
<1>2. g \in Seq(ReportFinding) /\ IsInjective(g)
  BY <1>1 DEF Packed, Bundle
<1>3. /\ CoveredTo(gs, i) = CoveredTo(gs, i - 1) \cup ToSet(g)
      /\ CoveredTo(gs, i - 1) \cap ToSet(g) = {}
  BY CoveredOneMore
<1>4. d \in DigestState
  BY DEF Digested
<1>5. d.shown \in Seq(ReportFinding) /\ d.omitted \in Seq(ReportFinding)
  BY <1>4 DEF DigestState
<1>6. /\ IsInjective(d.shown) /\ IsInjective(d.omitted)
      /\ ToSet(d.shown) \cap ToSet(d.omitted) = {}
      /\ ToSet(d.shown) \cup ToSet(d.omitted) = CoveredTo(gs, i - 1)
      /\ \A j \in 1..(i - 1) : ToSet(gs[j]) \subseteq ToSet(d.shown) \/ ToSet(gs[j]) \cap ToSet(d.shown) = {}
  BY DEF Digested
<1> HIDE DEF g
<1>7. o \in Seq(ReportFinding) /\ ToSet(o) = ToSet(d.omitted) \cup ToSet(g) /\ IsInjective(o)
  BY <1>2, <1>3, <1>5, <1>6, ConcatOnce, ConcatOf
<1> HIDE DEF o
<1>8. u \in DigestState /\ u.shown = d.shown /\ u.omitted = o /\ u.dimensions = d.dimensions /\ u.room = d.room
  BY <1>4, <1>7 DEF DigestState
<1> HIDE DEF u
<1>9. ToSet(u.shown) \cap ToSet(u.omitted) = {}
  BY <1>3, <1>6, <1>7, <1>8
<1>10. ToSet(u.shown) \cup ToSet(u.omitted) = CoveredTo(gs, i)
  BY <1>3, <1>6, <1>7, <1>8
<1>11. ASSUME NEW j \in 1..i
       PROVE  ToSet(gs[j]) \subseteq ToSet(u.shown) \/ ToSet(gs[j]) \cap ToSet(u.shown) = {}
  <2>1. CASE j = i
    BY <2>1, <1>3, <1>6, <1>8 DEF g
  <2>2. CASE j # i
    <3>1. j \in 1..(i - 1)
      BY <2>2, <1>1
    <3> QED BY <3>1, <1>6, <1>8
  <2> QED BY <2>1, <2>2
<1>12. /\ Pieces(u.shown, {}) = [size |-> room - u.room, dimensions |-> u.dimensions]
       /\ room >= 0 => u.room >= 0
       /\ room < 0 => u.shown = <<>> /\ u.room = room
  BY <1>8 DEF Digested
<1>13. Digested(u, gs, i, room)
  BY <1>6, <1>7, <1>8, <1>9, <1>10, <1>11, <1>12 DEF Digested
<1> QED BY <1>13 DEF u, o, g

LEMMA ShowOne ==
  ASSUME NEW gs, Packed(gs), NEW i \in 1..Len(gs), NEW room \in Int, NEW d, Digested(d, gs, i - 1, room),
         ~(Pieces(gs[i], d.dimensions).size > d.room)
  PROVE  Digested([shown |-> d.shown \o gs[i], omitted |-> d.omitted,
                   dimensions |-> Pieces(gs[i], d.dimensions).dimensions,
                   room |-> d.room - Pieces(gs[i], d.dimensions).size], gs, i, room)
<1> DEFINE g == gs[i]
           piece == Pieces(g, d.dimensions)
           s == d.shown \o g
           u == [shown |-> s, omitted |-> d.omitted, dimensions |-> piece.dimensions, room |-> d.room - piece.size]
<1>1. gs \in Seq(Seq(ReportFinding)) /\ Len(gs) \in Nat /\ i \in DOMAIN gs
  BY DEF Packed
<1>2. g \in Seq(ReportFinding) /\ IsInjective(g)
  BY <1>1 DEF Packed, Bundle
<1>3. /\ CoveredTo(gs, i) = CoveredTo(gs, i - 1) \cup ToSet(g)
      /\ CoveredTo(gs, i - 1) \cap ToSet(g) = {}
  BY CoveredOneMore
<1>4. d \in DigestState
  BY DEF Digested
<1>5. d.shown \in Seq(ReportFinding) /\ d.omitted \in Seq(ReportFinding)
      /\ d.dimensions \in SUBSET Nat /\ d.room \in Int
  BY <1>4 DEF DigestState
<1>6. /\ IsInjective(d.shown) /\ IsInjective(d.omitted)
      /\ ToSet(d.shown) \cap ToSet(d.omitted) = {}
      /\ ToSet(d.shown) \cup ToSet(d.omitted) = CoveredTo(gs, i - 1)
      /\ \A j \in 1..(i - 1) : ToSet(gs[j]) \subseteq ToSet(d.shown) \/ ToSet(gs[j]) \cap ToSet(d.shown) = {}
  BY DEF Digested
<1>7. /\ Pieces(d.shown, {}) = [size |-> room - d.room, dimensions |-> d.dimensions]
      /\ room >= 0 => d.room >= 0
      /\ room < 0 => d.shown = <<>> /\ d.room = room
  BY DEF Digested
<1>8. ~(piece.size > d.room)
  OBVIOUS
<1>9. piece \in PieceSum
  <2> HIDE DEF g
  <2> QED BY <1>2, <1>5, PiecesTypes
<1>10. piece.size \in Nat /\ piece.dimensions \in SUBSET Nat
  BY <1>9 DEF PieceSum
<1> HIDE DEF g
<1>11. s \in Seq(ReportFinding) /\ ToSet(s) = ToSet(d.shown) \cup ToSet(g) /\ IsInjective(s)
  BY <1>2, <1>3, <1>5, <1>6, ConcatOnce, ConcatOf
<1>12. Pieces(s, {}) = [size |-> (room - d.room) + piece.size, dimensions |-> piece.dimensions]
  <2>1. Pieces(s, {}) = Plus(Pieces(d.shown, {}), Pieces(g, Pieces(d.shown, {}).dimensions))
    BY <1>2, <1>5, PiecesOfBoth
  <2>2. Pieces(d.shown, {}).dimensions = d.dimensions /\ Pieces(d.shown, {}).size = room - d.room
    BY <1>7
  <2> QED BY <2>1, <2>2 DEF Plus
<1> HIDE DEF s, piece
<1>13. u \in DigestState /\ u.shown = s /\ u.omitted = d.omitted /\ u.dimensions = piece.dimensions
       /\ u.room = d.room - piece.size
  <2>1. d.room - piece.size \in Int
    BY <1>5, <1>10
  <2> QED BY <2>1, <1>5, <1>10, <1>11 DEF DigestState
<1> HIDE DEF u
<1>14. ToSet(u.shown) \cap ToSet(u.omitted) = {}
  BY <1>3, <1>6, <1>11, <1>13
<1>15. ToSet(u.shown) \cup ToSet(u.omitted) = CoveredTo(gs, i)
  BY <1>3, <1>6, <1>11, <1>13
<1>16. ASSUME NEW j \in 1..i
       PROVE  ToSet(gs[j]) \subseteq ToSet(u.shown) \/ ToSet(gs[j]) \cap ToSet(u.shown) = {}
  <2>1. CASE j = i
    BY <2>1, <1>11, <1>13 DEF g
  <2>2. CASE j # i
    <3>1. j \in 1..(i - 1)
      BY <2>2, <1>1
    <3>2. ToSet(gs[j]) \cap ToSet(g) = {}
      <4>1. j \in DOMAIN gs
        BY <3>1, <1>1
      <4> QED BY <4>1, <1>1, <2>2 DEF Packed, g
    <3> QED BY <3>1, <3>2, <1>6, <1>11, <1>13
  <2> QED BY <2>1, <2>2
<1>17. Pieces(u.shown, {}) = [size |-> room - u.room, dimensions |-> u.dimensions]
  <2>1. room - u.room = (room - d.room) + piece.size
    BY <1>5, <1>10, <1>13
  <2> QED BY <2>1, <1>12, <1>13
<1>18. /\ room >= 0 => u.room >= 0
       /\ room < 0 => u.shown = <<>> /\ u.room = room
  BY <1>5, <1>7, <1>8, <1>10, <1>13
<1>19. Digested(u, gs, i, room)
  BY <1>6, <1>11, <1>13, <1>14, <1>15, <1>16, <1>17, <1>18 DEF Digested
<1> QED BY <1>19 DEF u, s, piece, g

LEMMA DigestHolds ==
  ASSUME NEW gs, Packed(gs), NEW room \in Int
  PROVE  Digested(Digest(gs, room), gs, Len(gs), room)
<1> DEFINE n == Len(gs)
<1>1. gs \in Seq(Seq(ReportFinding)) /\ n \in Nat
  BY DEF Packed
<1>2. PICK f : DigestBy(f, gs, room) /\ Digest(gs, room) = f[n]
  BY <1>1, DigestExists
<1>3. \A i \in 0..n : f[i] = IF i = 0 THEN DigestBase(room) ELSE Take(f[i - 1], gs[i])
  BY <1>2 DEF DigestBy
<1> DEFINE P == {i \in 0..n : Digested(f[i], gs, i, room)}
<1>4. 0 \in P
  <2>1. 0 \in 0..n
    BY <1>1
  <2>2. Digested(DigestBase(room), gs, 0, room)
    BY DigestedBase
  <2> QED BY <2>1, <2>2, <1>3
<1>5. ASSUME NEW i \in 1..n, i - 1 \in P PROVE i \in P
  <2>1. i \in 0..n /\ i # 0
    BY <1>1
  <2>2. f[i] = Take(f[i - 1], gs[i])
    BY <2>1, <1>3
  <2>3. Digested(f[i - 1], gs, i - 1, room)
    BY <1>5
  <2> DEFINE d == f[i - 1]
  <2>4. Digested(Take(d, gs[i]), gs, i, room)
    <3>1. Digested(d, gs, i - 1, room)
      BY <2>3
    <3> HIDE DEF d, P
    <3>2. CASE Pieces(gs[i], d.dimensions).size > d.room
      <4>1. Take(d, gs[i]) = [d EXCEPT !.omitted = d.omitted \o gs[i]]
        BY <3>2 DEF Take
      <4>2. Digested([d EXCEPT !.omitted = d.omitted \o gs[i]], gs, i, room)
        BY <3>1, OmitOne
      <4> QED BY <4>1, <4>2
    <3>3. CASE ~(Pieces(gs[i], d.dimensions).size > d.room)
      <4>1. Take(d, gs[i]) = [shown |-> d.shown \o gs[i], omitted |-> d.omitted,
                   dimensions |-> Pieces(gs[i], d.dimensions).dimensions,
                   room |-> d.room - Pieces(gs[i], d.dimensions).size]
        BY <3>3 DEF Take
      <4> QED BY <4>1, <3>1, <3>3, ShowOne
    <3> QED BY <3>2, <3>3
  <2> QED BY <2>1, <2>2, <2>4
<1> HIDE DEF P
<1>6. \A i \in 0..n : i \in P
  BY <1>1, <1>4, <1>5, UpTo
<1>7. n \in P
  BY <1>1, <1>6
<1> QED BY <1>2, <1>7 DEF P

LEMMA LenCounts ==
  ASSUME NEW T, NEW s \in Seq(T), IsInjective(s)
  PROVE  IsFiniteSet(ToSet(s)) /\ Cardinality(ToSet(s)) = Len(s)
<1> DEFINE D == 1..Len(s)
           F == ToSet(s)
<1>1. Len(s) \in Nat /\ DOMAIN s = D /\ s \in [D -> T]
  OBVIOUS
<1>2. s \in [D -> F]
  BY <1>1 DEF ToSet
<1>3. s \in Injection(D, F)
  BY <1>1, <1>2 DEF Injection
<1>4. s \in Surjection(D, F)
  BY <1>1, <1>2 DEF Surjection, ToSet
<1>5. s \in Bijection(D, F)
  BY <1>3, <1>4 DEF Bijection
<1>6. ExistsBijection(D, F)
  BY <1>5 DEF ExistsBijection
<1>7. IsFiniteSet(D) /\ Cardinality(D) = Len(s)
  BY <1>1, FS_Interval
<1> HIDE DEF D, F
<1>8. IsFiniteSet(F) /\ Cardinality(F) = Cardinality(D)
  BY <1>6, <1>7, FS_Bijection
<1> QED BY <1>7, <1>8 DEF F

LEMMA PartsCount ==
  ASSUME NEW T, NEW s \in Seq(T), NEW a \in Seq(T), NEW b \in Seq(T),
         IsInjective(s), IsInjective(a), IsInjective(b),
         ToSet(a) \cap ToSet(b) = {}, ToSet(a) \cup ToSet(b) = ToSet(s)
  PROVE  Len(a) + Len(b) = Len(s)
<1>1. /\ IsFiniteSet(ToSet(a)) /\ Cardinality(ToSet(a)) = Len(a)
      /\ IsFiniteSet(ToSet(b)) /\ Cardinality(ToSet(b)) = Len(b)
      /\ Cardinality(ToSet(s)) = Len(s)
  BY LenCounts
<1>2. Cardinality(ToSet(a) \cup ToSet(b)) = Cardinality(ToSet(a)) + Cardinality(ToSet(b)) - Cardinality(ToSet(a) \cap ToSet(b))
  BY <1>1, FS_Union
<1>3. Cardinality(ToSet(a) \cap ToSet(b)) = 0
  BY FS_EmptySet
<1>4. Len(a) \in Nat /\ Len(b) \in Nat
  OBVIOUS
<1>5. Cardinality(ToSet(a) \cup ToSet(b)) = Len(s)
  BY <1>1
<1>6. Len(s) = Len(a) + Len(b) - 0
  BY <1>1, <1>2, <1>3, <1>5
<1> QED BY <1>4, <1>6
-----------------------------------------------------------------------------
(* What is composed. *)
LEMMA InDigestOrderHolds ==
  ASSUME NEW gs, Packed(gs)
  PROVE  /\ Packed(InDigestOrder(gs)) /\ Covered(InDigestOrder(gs)) = Covered(gs)
         /\ ToSet(InDigestOrder(gs)) = ToSet(gs)
<1> DEFINE n == Len(gs)
           key == [i \in DOMAIN gs |-> DimensionOf(gs[i][1])]
<1>1. gs \in Seq(Seq(ReportFinding)) /\ n \in Nat /\ DOMAIN gs = 1..n
  BY DEF Packed
<1>2. \A i \in DOMAIN gs : DimensionOf(gs[i][1]) \in Nat
  <2> TAKE i \in DOMAIN gs
  <2>1. gs[i] \in Seq(ReportFinding) /\ gs[i] # <<>>
    BY DEF Packed, Bundle
  <2>2. gs[i][1] \in ReportFinding
    BY <2>1
  <2>3. gs[i][1].dimension \in Nat
    BY <2>2 DEF ReportFinding
  <2> QED BY <2>3 DEF DimensionOf
<1>3. key \in [1..n -> Nat]
  BY <1>1, <1>2
<1>4. InDigestOrder(gs) = SortedBy(gs, key)
  BY DEF InDigestOrder
<1> HIDE DEF key, n
<1>5. Permuted(SortedBy(gs, key), gs)
  BY <1>1, <1>3, SortedPermutes
<1> QED BY <1>4, <1>5, PermutedPacked


LEMMA SizesAreNat ==
  /\ BodyHeader \in Nat /\ MarkerFooter \in Nat /\ ProseFooter \in Nat /\ Trailer \in Nat
  /\ Heading \in Nat /\ SkippedFrame \in Nat /\ ClosingLine \in Nat /\ LeastFold \in Nat
  /\ FullFooter \in Nat
BY ReviewAssumption DEF FullFooter

LEMMA GreatestOfTwo ==
  ASSUME NEW a \in Nat, NEW b \in Nat
  PROVE  Max({a, b}) \in Nat /\ Max({a, b}) >= a /\ Max({a, b}) >= b
<1>1. \E x \in {a, b} : \A y \in {a, b} : x >= y
  OBVIOUS
<1> QED BY <1>1 DEF Max

LEMMA FrameBound ==
  ASSUME NEW n \in Nat \ {0}, NEW s \in 0..n
  PROVE  /\ FrameSize(n, s) \in Nat /\ SkippedReserve(n) \in Nat /\ ClosingSize(n, n) \in Nat
         /\ FrameSize(n, s) + ClosingSize(n, n) <= SkippedReserve(n)
<1>1. \A x \in 0..n : FrameSize(n, x) \in Nat
  BY SizesAreNat DEF FrameSize, CountLen, Plural
<1>2. FrameSize(n, s) <= FrameSize(n, 0) \/ FrameSize(n, s) <= FrameSize(n, n)
  BY SizesAreNat DEF FrameSize, CountLen, Plural
<1>3. ClosingSize(n, n) \in Nat
  BY SizesAreNat DEF ClosingSize, CountLen, Plural
<1> DEFINE a == FrameSize(n, 0)
           b == FrameSize(n, n)
           c == ClosingSize(n, n)
           r == SkippedReserve(n)
           f == FrameSize(n, s)
<1>4. a \in Nat /\ b \in Nat /\ f \in Nat /\ c \in Nat
  <2>1. 0 \in 0..n /\ n \in 0..n
    OBVIOUS
  <2> QED BY <1>1, <1>3, <2>1
<1>5. {FrameSize(n, x) : x \in {0, n}} = {a, b}
  OBVIOUS
<1>6. r = Max({a, b}) + c
  BY <1>5 DEF SkippedReserve
<1>7. f <= a \/ f <= b
  BY <1>2
<1> HIDE DEF a, b, c, f, r
<1>8. r \in Nat /\ f + c <= r
  BY <1>4, <1>6, <1>7, GreatestOfTwo
<1> QED BY <1>4, <1>8 DEF r, f, c

LEMMA ClosingBound ==
  ASSUME NEW n \in Nat \ {0}, NEW m \in 1..n
  PROVE  ClosingSize(m, n) \in Nat /\ ClosingSize(m, n) <= ClosingSize(n, n)
BY SizesAreNat DEF ClosingSize, CountLen, Plural

(* A section that shows some entries, by the sum of what they take. *)
LEMMA SectionBound ==
  ASSUME NEW n \in Nat, NEW shown \in Seq(ReportFinding), Len(shown) <= n
  PROVE  /\ SectionSize(n, shown) \in Nat
         /\ n = 0 => SectionSize(n, shown) = 0
         /\ n # 0 => SectionSize(n, shown) <= SkippedReserve(n) + Gap + Pieces(shown, {}).size
<1> DEFINE s == Len(shown)
           p == Pieces(shown, {}).size
           f == FrameSize(n, s)
           c == ClosingSize(n, n)
           r == SkippedReserve(n)
           d == ClosingSize(n - s, n)
<1>1. s \in 0..n /\ s \in Nat
  OBVIOUS
<1>2. p \in Nat
  <2>1. Pieces(shown, {}) \in PieceSum
    BY PiecesTypes
  <2> QED BY <2>1 DEF PieceSum
<1>3. CASE n = 0
  BY <1>3 DEF SectionSize
<1>4. CASE n # 0
  <2>1. f \in Nat /\ r \in Nat /\ c \in Nat /\ f + c <= r
    BY <1>1, <1>4, FrameBound
  <2>2. s # n => d \in Nat /\ d <= c
    <3>1. s # n => n - s \in 1..n
      BY <1>1
    <3> QED BY <3>1, <1>4, ClosingBound
  <2>3. SectionSize(n, shown) = f + p + (IF s = n THEN 0 ELSE Gap + d)
    BY <1>4 DEF SectionSize
  <2>4. Gap = 2
    BY DEF Gap
  <2> HIDE DEF s, p, f, c, r, d
  <2>5. CASE s = n
    BY <2>1, <2>3, <2>4, <2>5, <1>2, <1>4 DEF p, r
  <2>6. CASE s # n
    BY <2>1, <2>2, <2>3, <2>4, <2>6, <1>2, <1>4 DEF p, r
  <2> QED BY <2>5, <2>6
<1> QED BY <1>3, <1>4

LEMMA EnvelopeHolds ==
  ASSUME NEW n \in Nat, prose \in Proses
  PROVE  /\ prose.size \in Nat
         /\ Envelope(n) = BodyHeader + FullFooter + (IF prose.size > 0 THEN 2 ELSE 0)
                            + (IF n > 0 THEN 4 + SkippedReserve(n) ELSE 0)
         /\ Envelope(n) \in Nat
         /\ n > 0 => SkippedReserve(n) \in Nat
<1>1. prose.size \in Nat
  BY ReviewAssumption
<1>2. n > 0 => SkippedReserve(n) \in Nat
  <2>1. n > 0 => n \in Nat \ {0} /\ 0 \in 0..n
    OBVIOUS
  <2> QED BY <2>1, FrameBound
<1>3. Envelope(n) = BodyHeader + FullFooter + (IF prose.size > 0 THEN 2 ELSE 0)
                            + (IF n > 0 THEN 4 + SkippedReserve(n) ELSE 0)
  BY DEF Envelope, Gap
<1>4. Envelope(n) \in Nat
  BY <1>1, <1>2, <1>3, SizesAreNat
<1> QED BY <1>1, <1>2, <1>3, <1>4

(* A body within its envelope fits.                                        *)
LEMMA BodyFits ==
  ASSUME NEW n \in Nat, prose \in Proses, limit \in Limits, NEW text \in Nat, NEW shown \in Seq(ReportFinding),
         Len(shown) <= n, text > 0 => prose.size > 0,
         text + Pieces(shown, {}).size <= limit - Envelope(n)
  PROVE  BodySize(text, SectionSize(n, shown), FullFooter) <= limit
<1> DEFINE p == Pieces(shown, {}).size
           x == SectionSize(n, shown)
           r == SkippedReserve(n)
           z == prose.size
           e == Envelope(n)
<1>1. /\ x \in Nat
      /\ n = 0 => x = 0
      /\ n # 0 => x <= r + 2 + p
  BY SectionBound DEF Gap
<1>2. p \in Nat
  <2>1. Pieces(shown, {}) \in PieceSum
    BY PiecesTypes
  <2> QED BY <2>1 DEF PieceSum
<1>3. /\ z \in Nat /\ e \in Nat
      /\ n > 0 => r \in Nat
      /\ e = BodyHeader + FullFooter + (IF z > 0 THEN 2 ELSE 0) + (IF n > 0 THEN 4 + r ELSE 0)
  BY EnvelopeHolds
<1>4. BodySize(text, x, FullFooter)
        = BodyHeader + (IF text = 0 THEN 0 ELSE 2 + text) + (IF x = 0 THEN 0 ELSE 2 + x) + FullFooter
  BY DEF BodySize, Joined, Gap
<1>5. limit \in Nat
  BY ReviewAssumption
<1>6. text + p <= limit - e /\ (text > 0 => z > 0)
  OBVIOUS
<1>7. BodyHeader \in Nat /\ FullFooter \in Nat
  BY SizesAreNat
<1> HIDE DEF p, x, r, z, e
<1>8. (IF text = 0 THEN 0 ELSE 2 + text) <= (IF z > 0 THEN 2 ELSE 0) + text
  BY <1>3, <1>6
<1> DEFINE a == IF text = 0 THEN 0 ELSE 2 + text
           b == IF x = 0 THEN 0 ELSE 2 + x
           c == IF z > 0 THEN 2 ELSE 0
           d == IF n > 0 THEN 4 + r ELSE 0
<1>9. b <= d + p
  <2>1. CASE n = 0
    BY <2>1, <1>1, <1>2, <1>3
  <2>2. CASE n > 0
    BY <2>2, <1>1, <1>2, <1>3
  <2> QED BY <2>1, <2>2
<1>10. BodySize(text, x, FullFooter) <= limit
  <2>1. a \in Nat /\ b \in Nat /\ c \in Nat /\ d \in Nat
    BY <1>1, <1>3
  <2>2. e = BodyHeader + FullFooter + c + d
    BY <1>3
  <2>3. BodySize(text, x, FullFooter) = BodyHeader + a + b + FullFooter
    BY <1>4
  <2>4. a <= c + text
    BY <1>8
  <2> HIDE DEF a, b, c, d
  <2> QED BY <2>1, <2>2, <2>3, <2>4, <1>2, <1>3, <1>5, <1>6, <1>7, <1>9
<1> QED BY <1>10 DEF x

(* A composed review tells of all entries and fits, unless its skeleton    *)
(* does not.                                                               *)
Frame(n) == BodySize(IF prose.size > 0 THEN LeastFold ELSE 0, SectionSize(n, <<>>), FullFooter)

TellsOf(r, gs, entries) ==
  /\ r.shown \in Seq(ReportFinding) /\ r.omitted \in Seq(ReportFinding)
  /\ IsInjective(r.shown) /\ IsInjective(r.omitted)
  /\ ToSet(r.shown) \cap ToSet(r.omitted) = {}
  /\ ToSet(r.shown) \cup ToSet(r.omitted) = Covered(gs)
  /\ \A g \in ToSet(gs) : ToSet(g) \subseteq ToSet(r.shown) \/ ToSet(g) \cap ToSet(r.shown) = {}
  /\ Len(r.shown) + Len(r.omitted) = Len(entries)
  /\ r.omitted # <<>> => WholeBody(entries) > limit
  /\ r.size > limit => Frame(Len(entries)) > limit

LEMMA NothingShown ==
  ASSUME NEW gs, Packed(gs), NEW entries, entries = FlattenSeq(gs), NEW r,
         (r.shown = <<>> /\ r.omitted = entries) \/ (r.shown = entries /\ r.omitted = <<>>),
         r.omitted # <<>> => WholeBody(entries) > limit,
         r.size > limit => Frame(Len(entries)) > limit
  PROVE  TellsOf(r, gs, entries)
<1> DEFINE e == <<>>
<1>1. e \in Seq(ReportFinding) /\ DOMAIN e = {} /\ Len(e) = 0
  OBVIOUS
<1>2. (r.shown = e /\ r.omitted = entries) \/ (r.shown = entries /\ r.omitted = e)
  OBVIOUS
<1> HIDE DEF e
<1>3. IsInjective(e) /\ ToSet(e) = {}
  BY <1>1 DEF IsInjective, ToSet
<1>4. entries \in Seq(ReportFinding) /\ IsInjective(entries) /\ ToSet(entries) = Covered(gs) /\ Len(entries) \in Nat
  BY FlatHolds
<1>5. \A g \in ToSet(gs) : ToSet(g) \subseteq Covered(gs)
  BY InSet, InCovered
<1>6. CASE r.shown = e /\ r.omitted = entries
  BY <1>1, <1>3, <1>4, <1>6 DEF TellsOf
<1>7. CASE r.shown = entries /\ r.omitted = e
  BY <1>1, <1>3, <1>4, <1>5, <1>7 DEF TellsOf
<1> QED BY <1>2, <1>6, <1>7

LEMMA WholeIsInt ==
  ASSUME prose \in Proses, NEW entries \in Seq(ReportFinding)
  PROVE  WholeBody(entries) \in Int
<1> DEFINE x == SectionSize(Len(entries), entries)
<1>1. x \in Nat
  <2>1. Len(entries) \in Nat /\ Len(entries) <= Len(entries)
    OBVIOUS
  <2> QED BY <2>1, SectionBound
<1>2. prose.size \in Nat
  BY ReviewAssumption
<1>3. WholeBody(entries)
        = BodyHeader + Joined(prose.size) + Joined(x) + (IF prose.footer THEN MarkerFooter ELSE FullFooter)
  BY DEF WholeBody, BodySize
<1> HIDE DEF x
<1>4. Joined(x) \in Nat /\ Joined(prose.size) \in Nat
  BY <1>1, <1>2 DEF Joined, Gap
<1> QED BY <1>3, <1>4, SizesAreNat

LEMMA WholeTells ==
  ASSUME prose \in Proses, limit \in Limits,
         NEW gs, Packed(gs), NEW entries, entries = FlattenSeq(gs), WholeBody(entries) <= limit
  PROVE  TellsOf([size |-> WholeBody(entries), shown |-> entries, omitted |-> <<>>, folded |-> FALSE], gs, entries)
<1> DEFINE r == [size |-> WholeBody(entries), shown |-> entries, omitted |-> <<>>, folded |-> FALSE]
<1>1. r.shown = entries /\ r.omitted = <<>> /\ r.size = WholeBody(entries)
  OBVIOUS
<1> HIDE DEF r
<1>2. ~(r.size > limit)
  <2>1. entries \in Seq(ReportFinding)
    BY FlatHolds
  <2>2. WholeBody(entries) \in Int
    BY <2>1, WholeIsInt
  <2> QED BY <1>1, <2>2, ReviewAssumption
<1>3. TellsOf(r, gs, entries)
  BY <1>1, <1>2, NothingShown
<1> QED BY <1>3 DEF r

(* The prose is folded: no entry is shown.                                 *)
LEMMA FoldedTells ==
  ASSUME prose \in Proses, limit \in Limits,
         NEW gs, Packed(gs), NEW entries, entries = FlattenSeq(gs), ~(WholeBody(entries) <= limit),
         prose.size > 0, NEW text \in AfterFold(limit - Envelope(Len(entries)))
  PROVE  TellsOf([size |-> BodySize(text, SectionSize(Len(entries), <<>>), FullFooter),
                  shown |-> <<>>, omitted |-> entries, folded |-> TRUE], gs, entries)
<1> DEFINE n == Len(entries)
           e == <<>>
           size == BodySize(text, SectionSize(n, e), FullFooter)
           r == [size |-> size, shown |-> e, omitted |-> entries, folded |-> TRUE]
<1>1. r.shown = e /\ r.omitted = entries /\ r.size = size
  OBVIOUS
<1>2. entries \in Seq(ReportFinding) /\ n \in Nat
  BY FlatHolds
<1>3. WholeBody(entries) > limit
  BY <1>2, WholeIsInt, ReviewAssumption
<1>4. Envelope(n) \in Nat
  BY <1>2, EnvelopeHolds
<1>5. limit \in Nat
  BY ReviewAssumption
<1>6. e \in Seq(ReportFinding) /\ Len(e) = 0
  OBVIOUS
<1>7. Pieces(e, {}).size = 0
  <2>1. Pieces(e, {}) = [size |-> 0, dimensions |-> {}]
    BY PiecesOfNone
  <2> QED BY <2>1
<1>8. CASE text = LeastFold
  <2>1. size = Frame(n)
    BY <1>8 DEF Frame
  <2> HIDE DEF r, size
  <2>2. r.size > limit => Frame(n) > limit
    BY <1>1, <2>1
  <2>3. r.omitted # <<>> => WholeBody(entries) > limit
    BY <1>3
  <2>4. r.shown = <<>> /\ r.omitted = entries
    BY <1>1
  <2>5. TellsOf(r, gs, entries)
    BY <2>2, <2>3, <2>4, NothingShown
  <2> QED BY <2>5 DEF r, size
<1>9. CASE text # LeastFold
  <2>1. text = limit - Envelope(n) /\ text > LeastFold
    BY <1>9 DEF AfterFold
  <2>2. text \in Nat /\ text + 0 <= limit - Envelope(n)
    BY <2>1, <1>4, <1>5, SizesAreNat
  <2>3. text + Pieces(e, {}).size <= limit - Envelope(n)
    BY <2>2, <1>7
  <2>4. Len(e) <= n
    BY <1>2, <1>6
  <2>5. text > 0 => prose.size > 0
    OBVIOUS
  <2> HIDE DEF e, n
  <2>6. size <= limit
    BY <1>2, <1>6, <2>2, <2>3, <2>4, <2>5, BodyFits
  <2>7. size \in Int
    <3>1. SectionSize(n, e) \in Nat
      BY <1>2, <1>6, <2>4, SectionBound
    <3> QED BY <3>1, <2>2, SizesAreNat DEF BodySize, Joined, Gap
  <2> HIDE DEF size
  <2>8. r.size > limit => Frame(Len(entries)) > limit
    BY <1>1, <1>5, <2>6, <2>7
  <2>9. r.omitted # <<>> => WholeBody(entries) > limit
    BY <1>3
  <2>10. r.shown = <<>> /\ r.omitted = entries
    BY <1>1 DEF e
  <2> HIDE DEF r
  <2>11. TellsOf(r, gs, entries)
    BY <2>8, <2>9, <2>10, NothingShown
  <2> QED BY <2>11 DEF r, size, e, n
<1> QED BY <1>8, <1>9

(* The prose is whole, and the digest fills what is left.                  *)
LEMMA DigestTells ==
  ASSUME prose \in Proses, limit \in Limits,
         NEW gs, Packed(gs), NEW entries, entries = FlattenSeq(gs), ~(WholeBody(entries) <= limit),
         NEW room, room = limit - Envelope(Len(entries)) - prose.size,
         ~(prose.size > 0 /\ prose.size > limit - Envelope(Len(entries))),
         NEW d, d = Digest(gs, room)
  PROVE  TellsOf([size |-> BodySize(prose.size, SectionSize(Len(entries), d.shown), FullFooter),
                  shown |-> d.shown, omitted |-> d.omitted, folded |-> FALSE], gs, entries)
<1> DEFINE n == Len(entries)
           size == BodySize(prose.size, SectionSize(n, d.shown), FullFooter)
           r == [size |-> size, shown |-> d.shown, omitted |-> d.omitted, folded |-> FALSE]
<1>1. r.shown = d.shown /\ r.omitted = d.omitted /\ r.size = size
  OBVIOUS
<1>2. /\ entries \in Seq(ReportFinding) /\ n \in Nat
      /\ IsInjective(entries) /\ ToSet(entries) = Covered(gs)
  BY FlatHolds
<1>3. WholeBody(entries) > limit
  BY <1>2, WholeIsInt, ReviewAssumption
<1>4. Envelope(n) \in Nat /\ prose.size \in Nat
  BY <1>2, EnvelopeHolds
<1>5. limit \in Nat
  BY ReviewAssumption
<1>6. room \in Int
  BY <1>4, <1>5
<1>7. Digested(d, gs, Len(gs), room)
  BY <1>6, DigestHolds
<1>8. d.shown \in Seq(ReportFinding) /\ d.omitted \in Seq(ReportFinding) /\ d.room \in Int
  BY <1>7 DEF Digested, DigestState
<1>9. /\ IsInjective(d.shown) /\ IsInjective(d.omitted)
      /\ ToSet(d.shown) \cap ToSet(d.omitted) = {}
      /\ ToSet(d.shown) \cup ToSet(d.omitted) = Covered(gs)
  BY <1>7, CoveredToAll DEF Digested
<1>10. Len(d.shown) + Len(d.omitted) = n
  <2> DEFINE a == d.shown
             b == d.omitted
             s == entries
  <2>1. /\ a \in Seq(ReportFinding) /\ b \in Seq(ReportFinding) /\ s \in Seq(ReportFinding)
        /\ IsInjective(a) /\ IsInjective(b) /\ IsInjective(s)
        /\ ToSet(a) \cap ToSet(b) = {} /\ ToSet(a) \cup ToSet(b) = ToSet(s)
    BY <1>2, <1>8, <1>9
  <2> HIDE DEF a, b, s
  <2>2. Len(a) + Len(b) = Len(s)
    BY <2>1, PartsCount
  <2> QED BY <2>2 DEF a, b, s
<1>11. \A g \in ToSet(gs) : ToSet(g) \subseteq ToSet(d.shown) \/ ToSet(g) \cap ToSet(d.shown) = {}
  <2>1. DOMAIN gs = 1..Len(gs)
    BY DEF Packed
  <2>2. \A i \in 1..Len(gs) : ToSet(gs[i]) \subseteq ToSet(d.shown) \/ ToSet(gs[i]) \cap ToSet(d.shown) = {}
    BY <1>7 DEF Digested
  <2> QED BY <2>1, <2>2, InSet
<1>12. Len(d.shown) <= n /\ Len(d.shown) \in Nat
  <2> DEFINE u == Len(d.shown)
             v == Len(d.omitted)
  <2>1. u + v = n
    BY <1>10
  <2>3. n \in Nat
    BY <1>2
  <2> HIDE DEF n
  <2>4. u \in Nat /\ v \in Nat
    BY <1>8
  <2> HIDE DEF u, v
  <2>2. u <= n /\ u \in Nat
    BY <2>1, <2>3, <2>4
  <2> QED BY <2>2 DEF u, n
<1>13. SectionSize(n, d.shown) \in Nat
  BY <1>2, <1>8, <1>12, SectionBound
<1>14. size \in Int
  BY <1>13, <1>4, SizesAreNat DEF BodySize, Joined, Gap
<1>15. size > limit => Frame(n) > limit
  <2>1. CASE room >= 0
    <3>1. Pieces(d.shown, {}).size = room - d.room /\ d.room >= 0
      <4>1. Pieces(d.shown, {}) = [size |-> room - d.room, dimensions |-> d.dimensions] /\ d.room >= 0
        BY <1>7, <2>1 DEF Digested
      <4> QED BY <4>1
    <3>2. prose.size + Pieces(d.shown, {}).size <= limit - Envelope(n)
      BY <3>1, <1>4, <1>5, <1>6, <1>8
    <3> HIDE DEF n
    <3>3. size <= limit
      BY <1>2, <1>4, <1>8, <1>12, <3>2, BodyFits
    <3> HIDE DEF size
    <3> QED BY <3>3, <1>5, <1>14
  <2>2. CASE room < 0
    <3>1. prose.size = 0
      BY <2>2, <1>4, <1>5
    <3>2. d.shown = <<>>
      BY <1>7, <2>2 DEF Digested
    <3>3. size = Frame(n)
      BY <3>1, <3>2 DEF Frame
    <3> QED BY <3>3
  <2> QED BY <2>1, <2>2, <1>6
<1> HIDE DEF r, size
<1>16. TellsOf(r, gs, entries)
  BY <1>1, <1>3, <1>8, <1>9, <1>10, <1>11, <1>15 DEF TellsOf
<1> QED BY <1>16 DEF r, size

LEMMA ComposedTells ==
  ASSUME prose \in Proses, limit \in Limits,
         NEW gs, Packed(gs), NEW r \in Composed(FlattenSeq(gs), gs)
  PROVE  TellsOf(r, gs, FlattenSeq(gs))
<1> DEFINE entries == FlattenSeq(gs)
           n == Len(entries)
           room == limit - Envelope(n)
           digest == Digest(gs, room - prose.size)
<1>1. CASE WholeBody(entries) <= limit
  <2>1. r = [size |-> WholeBody(entries), shown |-> entries, omitted |-> <<>>, folded |-> FALSE]
    BY <1>1 DEF Composed
  <2> HIDE DEF entries
  <2> QED BY <2>1, <1>1, WholeTells DEF entries
<1>2. CASE ~(WholeBody(entries) <= limit) /\ prose.size > 0 /\ prose.size > room
  <2>1. \E text \in AfterFold(room) :
          r = [size |-> BodySize(text, SectionSize(n, <<>>), FullFooter),
               shown |-> <<>>, omitted |-> entries, folded |-> TRUE]
    BY <1>2 DEF Composed
  <2>2. PICK text \in AfterFold(room) :
          r = [size |-> BodySize(text, SectionSize(n, <<>>), FullFooter),
               shown |-> <<>>, omitted |-> entries, folded |-> TRUE]
    BY <2>1
  <2> QED BY <2>2, <1>2, FoldedTells
<1>3. CASE ~(WholeBody(entries) <= limit) /\ ~(prose.size > 0 /\ prose.size > room)
  <2>1. r = [size |-> BodySize(prose.size, SectionSize(n, digest.shown), FullFooter),
            shown |-> digest.shown, omitted |-> digest.omitted, folded |-> FALSE]
    BY <1>3 DEF Composed
  <2> QED BY <2>1, <1>3, DigestTells
<1> QED BY <1>1, <1>2, <1>3
-----------------------------------------------------------------------------
(* Inline comments. *)
LEMMA SizeTypes ==
  ASSUME NEW fs \in Seq(ReportFinding)
  PROVE  SizeOf(fs) \in Nat
<1> DEFINE n == Len(fs)
           step == [x \in (1..n) \X Nat |-> x[2] + fs[x[1]].size]
           By(z) == z = [i \in 0..n |-> IF i = 0 THEN 0 ELSE z[i - 1] + fs[i].size]
<1>0. n \in Nat /\ \A i \in 1..n : fs[i] \in ReportFinding
  OBVIOUS
<1>1. n \in Nat /\ \A i \in 1..n : fs[i].size \in Nat
  BY <1>0 DEF ReportFinding
<1>2. step \in [(1..n) \X Nat -> Nat] /\ 0 \in Nat
  <2>1. ASSUME NEW x \in (1..n) \X Nat PROVE x[2] + fs[x[1]].size \in Nat
    BY <1>1
  <2> QED BY <2>1
<1>3. \A i \in 1..n : \A v \in Nat : step[<<i, v>>] = v + fs[i].size
  OBVIOUS
<1> HIDE DEF step
<1>4. PICK f : Stepwise(n, Nat, 0, step, f)
  BY <1>1, <1>2, StepwiseExists, Zenon
<1>5. f \in [0..n -> Nat] /\ f[0] = 0 /\ \A i \in 1..n : f[i] = step[<<i, f[i - 1]>>]
  BY <1>4 DEF Stepwise
<1>6. ASSUME NEW i \in 0..n PROVE f[i] = IF i = 0 THEN 0 ELSE f[i - 1] + fs[i].size
  <2>1. i # 0 => i \in 1..n /\ i - 1 \in 0..n
    BY <1>1
  <2> QED BY <2>1, <1>3, <1>5
<1>7. By(f)
  BY <1>5, <1>6
<1> DEFINE z == CHOOSE z : By(z)
<1>8. SizeOf(fs) = z[n]
  BY DEF SizeOf
<1>9. By(z)
  BY <1>7
<1> HIDE DEF z
<1>10. \A i \in 0..n : z[i] = IF i = 0 THEN 0 ELSE z[i - 1] + fs[i].size
  BY <1>9
<1> HIDE DEF By
<1> DEFINE P == {i \in 0..n : z[i] \in Nat}
<1>11. 0 \in P
  BY <1>1, <1>10
<1>12. ASSUME NEW i \in 1..n, i - 1 \in P PROVE i \in P
  <2>1. z[i - 1] \in Nat /\ i \in 0..n
    BY <1>12
  <2>2. z[i] = z[i - 1] + fs[i].size
    BY <2>1, <1>10
  <2> QED BY <2>1, <2>2, <1>1
<1> HIDE DEF P
<1>13. \A i \in 0..n : i \in P
  BY <1>1, <1>11, <1>12, UpTo
<1>14. n \in 0..n
  BY <1>1
<1> QED BY <1>8, <1>13, <1>14 DEF P

LEMMA InlineTypes ==
  ASSUME limit \in Limits, NEW fs \in Seq(ReportFinding), NEW size \in InlineSizes(fs)
  PROVE  size \in Nat
<1>1. SizeOf(fs) \in Nat
  BY SizeTypes
<1>2. limit \in Nat
  BY ReviewAssumption
<1>3. size = SizeOf(fs) + Trailer \/ \E n \in AfterFold(limit - Trailer) : size = n + Trailer
  BY DEF InlineSizes
<1>4. \A n \in AfterFold(limit - Trailer) : n \in Nat
  BY <1>2, SizesAreNat DEF AfterFold
<1> QED BY <1>1, <1>3, <1>4, SizesAreNat

InlineComment == [findings : Seq(ReportFinding), size : Nat]
FindingsOf(cs) == [i \in DOMAIN cs |-> cs[i].findings]

LEMMA FindingsOneMore ==
  ASSUME NEW cs \in Seq(InlineComment), NEW c \in InlineComment
  PROVE  /\ Append(cs, c) \in Seq(InlineComment)
         /\ FindingsOf(Append(cs, c)) = Append(FindingsOf(cs), c.findings)
<1> DEFINE t == Append(cs, c)
           n == Len(cs)
           fs == FindingsOf(cs)
           u == Append(fs, c.findings)
<1>1. t \in Seq(InlineComment) /\ n \in Nat /\ DOMAIN cs = 1..n /\ DOMAIN t = 1..(n + 1)
  OBVIOUS
<1>2. \A i \in 1..n : t[i] = cs[i]
  OBVIOUS
<1>3. t[n + 1] = c
  OBVIOUS
<1>4. fs \in Seq(Seq(ReportFinding)) /\ Len(fs) = n /\ \A i \in 1..n : fs[i] = cs[i].findings
  <2>0. \A i \in 1..n : cs[i] \in InlineComment
    BY <1>1
  <2>1. \A i \in 1..n : cs[i].findings \in Seq(ReportFinding)
    BY <2>0 DEF InlineComment
  <2>2. fs = [i \in 1..n |-> cs[i].findings]
    BY <1>1 DEF FindingsOf
  <2> HIDE DEF fs
  <2> QED BY <1>1, <2>1, <2>2
<1>5. c.findings \in Seq(ReportFinding)
  BY DEF InlineComment
<1> HIDE DEF fs, t, n
<1>6. u = [i \in 1..(n + 1) |-> IF i = n + 1 THEN c.findings ELSE fs[i]]
  BY <1>1, <1>4, <1>5
<1>7. \A i \in 1..(n + 1) : i = n + 1 \/ i \in 1..n
  BY <1>1
<1>8. \A i \in 1..(n + 1) : t[i].findings = IF i = n + 1 THEN c.findings ELSE fs[i]
  BY <1>2, <1>3, <1>4, <1>7
<1>9. FindingsOf(t) = [i \in 1..(n + 1) |-> t[i].findings]
  BY <1>1 DEF FindingsOf
<1>10. FindingsOf(t) = u
  BY <1>6, <1>8, <1>9
<1> QED BY <1>1, <1>10 DEF t, fs

LEMMA PackedHead ==
  ASSUME NEW gs, Packed(gs), gs # <<>>
  PROVE  /\ Bundle(Head(gs)) /\ Packed(Tail(gs))
         /\ ToSet(Head(gs)) \cap Covered(Tail(gs)) = {}
         /\ Covered(gs) = ToSet(Head(gs)) \cup Covered(Tail(gs))
<1> DEFINE t == Tail(gs)
           n == Len(gs)
           h == Head(gs)
<1>1. gs \in Seq(Seq(ReportFinding)) /\ n \in Nat \ {0} /\ DOMAIN gs = 1..n
  BY DEF Packed
<1>2. h = gs[1] /\ t \in Seq(Seq(ReportFinding)) /\ DOMAIN t = 1..(n - 1)
  BY <1>1
<1>3. \A i \in 1..(n - 1) : t[i] = gs[i + 1]
  BY <1>1
<1> HIDE DEF t, h, n
<1>4. \A i \in 1..(n - 1) : i + 1 \in 1..n /\ i + 1 # 1
  BY <1>1
<1>5. 1 \in 1..n /\ \A i \in 1..n : i = 1 \/ (i - 1 \in 1..(n - 1) /\ i = (i - 1) + 1)
  BY <1>1
<1>6. Bundle(h)
  BY <1>1, <1>2, <1>5 DEF Packed
<1>7. Packed(t)
  <2>1. \A i \in DOMAIN t : Bundle(t[i])
    BY <1>1, <1>2, <1>3, <1>4 DEF Packed
  <2>2. ASSUME NEW i \in DOMAIN t, NEW j \in DOMAIN t, i # j PROVE ToSet(t[i]) \cap ToSet(t[j]) = {}
    <3>0. i \in 1..(n - 1) /\ j \in 1..(n - 1)
      BY <1>2
    <3>1. i + 1 \in DOMAIN gs /\ j + 1 \in DOMAIN gs /\ i + 1 # j + 1
      BY <1>1, <1>4, <2>2, <3>0
    <3>2. ToSet(gs[i + 1]) \cap ToSet(gs[j + 1]) = {}
      BY <3>1 DEF Packed
    <3> QED BY <3>2, <1>2, <1>3
  <2> QED BY <2>1, <2>2, <1>2 DEF Packed
<1>8. ASSUME NEW x, x \in ToSet(h), x \in Covered(t) PROVE FALSE
  <2>1. PICK i \in 1..(n - 1) : x \in ToSet(t[i])
    BY <1>2, <1>8, InCovered
  <2>2. x \in ToSet(gs[i + 1]) /\ x \in ToSet(gs[1]) /\ i + 1 \in DOMAIN gs /\ 1 \in DOMAIN gs /\ i + 1 # 1
    BY <2>1, <1>1, <1>2, <1>3, <1>4, <1>5, <1>8
  <2>3. ToSet(gs[i + 1]) \cap ToSet(gs[1]) = {}
    BY <2>2 DEF Packed
  <2> QED BY <2>2, <2>3
<1>9. ASSUME NEW x PROVE x \in Covered(gs) <=> x \in ToSet(h) \/ x \in Covered(t)
  <2>1. x \in Covered(gs) <=> \E i \in 1..n : x \in ToSet(gs[i])
    BY <1>1, InCovered
  <2>2. x \in Covered(t) <=> \E i \in 1..(n - 1) : x \in ToSet(gs[i + 1])
    BY <1>2, <1>3, InCovered
  <2>3. ASSUME x \in Covered(gs) PROVE x \in ToSet(h) \/ x \in Covered(t)
    <3>1. PICK i \in 1..n : x \in ToSet(gs[i])
      BY <2>1, <2>3
    <3>2. CASE i = 1
      BY <3>1, <3>2, <1>2
    <3>3. CASE i # 1
      <4>1. i - 1 \in 1..(n - 1) /\ (i - 1) + 1 = i
        BY <3>3, <1>5, <1>1
      <4> QED BY <4>1, <3>1, <2>2
    <3> QED BY <3>2, <3>3
  <2>4. x \in ToSet(h) => x \in Covered(gs)
    BY <2>1, <1>2, <1>5
  <2>5. x \in Covered(t) => x \in Covered(gs)
    BY <2>1, <2>2, <1>4
  <2> QED BY <2>3, <2>4, <2>5
<1>10. Covered(gs) = ToSet(h) \cup Covered(t) /\ ToSet(h) \cap Covered(t) = {}
  BY <1>8, <1>9
<1> QED BY <1>6, <1>7, <1>10 DEF h, t
-----------------------------------------------------------------------------
(* Counting the places of a finding. *)
LEMMA AtMostOne ==
  ASSUME NEW S, \A x, y \in S : x = y
  PROVE  Cardinality(S) = IF S = {} THEN 0 ELSE 1
<1>1. CASE S = {}
  BY <1>1, FS_EmptySet
<1>2. CASE S # {}
  <2>1. PICK x \in S : S = {x}
    BY <1>2
  <2> QED BY <2>1, FS_Singleton
<1> QED BY <1>1, <1>2

LEMMA GroupsOf ==
  ASSUME NEW gs, Packed(gs), NEW f
  PROVE  Cardinality({i \in DOMAIN gs : f \in ToSet(gs[i])}) = IF f \in Covered(gs) THEN 1 ELSE 0
<1> DEFINE S == {i \in DOMAIN gs : f \in ToSet(gs[i])}
<1>1. \A x, y \in S : x = y
  BY DEF Packed
<1>2. S = {} <=> f \notin Covered(gs)
  BY InCovered
<1> HIDE DEF S
<1>3. Cardinality(S) = IF S = {} THEN 0 ELSE 1
  BY <1>1, AtMostOne
<1>4. Cardinality(S) = IF f \in Covered(gs) THEN 1 ELSE 0
  BY <1>2, <1>3
<1> QED BY <1>4 DEF S

LEMMA PlacesIn ==
  ASSUME NEW s, IsInjective(s), NEW f
  PROVE  Cardinality({i \in DOMAIN s : s[i] = f}) = IF f \in ToSet(s) THEN 1 ELSE 0
<1> DEFINE S == {i \in DOMAIN s : s[i] = f}
<1>1. \A x, y \in S : x = y
  BY DEF IsInjective
<1>2. S = {} <=> f \notin ToSet(s)
  BY InSet
<1> HIDE DEF S
<1>3. Cardinality(S) = IF S = {} THEN 0 ELSE 1
  BY <1>1, AtMostOne
<1>4. Cardinality(S) = IF f \in ToSet(s) THEN 1 ELSE 0
  BY <1>2, <1>3
<1> QED BY <1>4 DEF S
-----------------------------------------------------------------------------
(* The invariant: while anything may still be posted, the findings that    *)
(* are told are divided among the groups yet to render, the inline         *)
(* comments and the groups for the body.                                   *)
Divided ==
  /\ comments \in Seq(InlineComment)
  /\ Packed(groups) /\ Packed(FindingsOf(comments)) /\ Packed(listed)
  /\ Covered(groups) \cap Covered(FindingsOf(comments)) = {}
  /\ Covered(groups) \cap Covered(listed) = {}
  /\ Covered(FindingsOf(comments)) \cap Covered(listed) = {}
  /\ Covered(groups) \cup Covered(FindingsOf(comments)) \cup Covered(listed) = Told(Len(report))

Ordered == InDigestOrder(listed)

GInv ==
  /\ report \in Reports /\ prose \in Proses /\ limit \in Limits
  /\ stage \in {"new", "rendering", "composed", "posted", "refused", "refused by the forge"}
  /\ stage = "new" => groups = <<>> /\ comments = <<>> /\ listed = <<>>
  /\ stage \in {"rendering", "composed", "posted"} => Divided
  /\ stage \in {"composed", "posted"} => groups = <<>> /\ review \in Composed(FlattenSeq(Ordered), Ordered)

LEMMA GInvInit == GInit => GInv
BY DEF GInit, GInv

LEMMA RefusePreserves ==
  ASSUME GInv, Refuse
  PROVE  GInv'
BY DEF GInv, Refuse

LEMMA ReportHolds ==
  ASSUME report \in Reports
  PROVE  report \in Seq(ReportFinding) /\ \A i, j \in DOMAIN report : i # j => report[i] # report[j]
BY ReviewAssumption

LEMMA PlanPreserves ==
  ASSUME GInv, Plan
  PROVE  GInv'
<1> DEFINE planned == [i \in DOMAIN Grouped |-> AsGroup(Grouped[i])]
<1>1. CASE Refuse
  BY <1>1, RefusePreserves
<1>2. CASE /\ \A g \in ToSet(Grouped) : ~Disagree(g)
           /\ groups' = planned /\ stage' = "rendering"
           /\ UNCHANGED <<report, prose, limit, comments, listed, review>>
  <2>1. comments = <<>> /\ listed = <<>>
    BY DEF GInv, Plan
  <2>2. Packed(Grouped) /\ Covered(Grouped) = Told(Len(report))
    BY ReportHolds, GroupedPacks DEF GInv
  <2>3. Packed(planned) /\ Covered(planned) = Covered(Grouped)
    BY <1>2, <2>2, PlannedHolds
  <2>4. comments \in Seq(InlineComment) /\ FindingsOf(comments) = <<>>
    <3> DEFINE e == <<>>
    <3>1. e \in Seq(InlineComment) /\ DOMAIN e = {} /\ FindingsOf(e) = <<>>
      BY DEF FindingsOf
    <3> QED BY <3>1, <2>1
  <2> HIDE DEF planned
  <2>5. Divided'
    BY <1>2, <2>1, <2>2, <2>3, <2>4, PackedEmpty DEF Divided, Told, FindingsOf
  <2> QED BY <2>5, <1>2 DEF GInv
<1> QED BY <1>1, <1>2 DEF Plan

(* One group is taken off: what it covers goes elsewhere.                  *)
LEMMA HeadRendered ==
  ASSUME Divided, groups # <<>>
  PROVE  /\ Bundle(Head(groups)) /\ Packed(Tail(groups))
         /\ ToSet(Head(groups)) \cap Covered(Tail(groups)) = {}
         /\ Covered(groups) = ToSet(Head(groups)) \cup Covered(Tail(groups))
         /\ ToSet(Head(groups)) \cap Covered(FindingsOf(comments)) = {}
         /\ ToSet(Head(groups)) \cap Covered(listed) = {}
<1>1. Packed(groups)
  BY DEF Divided
<1>2. /\ Bundle(Head(groups)) /\ Packed(Tail(groups))
      /\ ToSet(Head(groups)) \cap Covered(Tail(groups)) = {}
      /\ Covered(groups) = ToSet(Head(groups)) \cup Covered(Tail(groups))
  BY <1>1, PackedHead
<1>3. Covered(groups) \cap Covered(FindingsOf(comments)) = {} /\ Covered(groups) \cap Covered(listed) = {}
  BY DEF Divided
<1> QED BY <1>2, <1>3

LEMMA RenderInlinePreserves ==
  ASSUME GInv, RenderInline
  PROVE  GInv'
<1> DEFINE h == Head(groups)
           t == Tail(groups)
<1>1. stage = "rendering" /\ groups # <<>> /\ groups' = t /\ Divided /\ limit \in Limits
  BY DEF GInv, RenderInline
<1>2. PICK size \in InlineSizes(h) :
        IF size > limit THEN Refuse /\ UNCHANGED <<comments, listed>>
        ELSE /\ comments' = Append(comments, [findings |-> h, size |-> size])
             /\ UNCHANGED <<report, prose, limit, stage, listed, review>>
  BY DEF RenderInline
<1>3. CASE Refuse
  BY <1>3, RefusePreserves
<1>4. CASE /\ comments' = Append(comments, [findings |-> h, size |-> size])
           /\ UNCHANGED <<report, prose, limit, stage, listed, review>>
  <2> DEFINE c == [findings |-> h, size |-> size]
  <2>1. /\ Bundle(h) /\ Packed(t)
        /\ ToSet(h) \cap Covered(t) = {}
        /\ Covered(groups) = ToSet(h) \cup Covered(t)
        /\ ToSet(h) \cap Covered(FindingsOf(comments)) = {}
        /\ ToSet(h) \cap Covered(listed) = {}
    BY <1>1, HeadRendered
  <2>2. h \in Seq(ReportFinding)
    BY <2>1 DEF Bundle
  <2>3. c \in InlineComment /\ c.findings = h
    <3>1. size \in Nat
      BY <1>1, <2>2, InlineTypes
    <3> QED BY <3>1, <2>2 DEF InlineComment
  <2> HIDE DEF c, h, t
  <2>4. comments \in Seq(InlineComment) /\ Packed(FindingsOf(comments))
    BY <1>1 DEF Divided
  <2>5. comments' = Append(comments, c)
    BY <1>4 DEF c, h
  <2>6. comments' \in Seq(InlineComment) /\ FindingsOf(comments') = Append(FindingsOf(comments), h)
    BY <2>3, <2>4, <2>5, FindingsOneMore
  <2>7. /\ Packed(FindingsOf(comments'))
        /\ Covered(FindingsOf(comments')) = Covered(FindingsOf(comments)) \cup ToSet(h)
    BY <2>1, <2>4, <2>6, PackedAppend
  <2> DEFINE G == Covered(t)
             C == Covered(FindingsOf(comments))
             L == Covered(listed)
             T == Told(Len(report))
             H == ToSet(h)
  <2>8. /\ Packed(listed)
        /\ (H \cup G) \cap C = {} /\ (H \cup G) \cap L = {} /\ C \cap L = {}
        /\ (H \cup G) \cup C \cup L = T
    BY <1>1, <2>1 DEF Divided
  <2>9. T' = T
    BY <1>4 DEF Told
  <2>10. Divided'
    <3>1. G \cap (C \cup H) = {} /\ G \cap L = {} /\ (C \cup H) \cap L = {} /\ G \cup (C \cup H) \cup L = T
      BY <2>1, <2>8
    <3>2. groups' = t /\ listed' = listed
      BY <1>1, <1>4
    <3>3. Covered(FindingsOf(comments')) = C \cup H /\ Covered(groups') = G /\ Covered(listed') = L
      BY <2>7, <3>2
    <3>4. Packed(groups') /\ Packed(listed')
      BY <2>1, <2>8, <3>2
    <3> HIDE DEF G, C, L, T, H
    <3>5. Told(Len(report))' = T
      BY <2>9 DEF T
    <3> QED BY <2>6, <2>7, <3>1, <3>3, <3>4, <3>5 DEF Divided
  <2> QED BY <2>10, <1>1, <1>4 DEF GInv
<1> QED BY <1>2, <1>3, <1>4

LEMMA RenderListedPreserves ==
  ASSUME GInv, RenderListed
  PROVE  GInv'
<1> DEFINE h == Head(groups)
           t == Tail(groups)
<1>1. /\ stage = "rendering" /\ groups # <<>> /\ Divided
      /\ groups' = t /\ listed' = Append(listed, h)
      /\ UNCHANGED <<report, prose, limit, stage, comments, review>>
  BY DEF GInv, RenderListed
<1>2. /\ Bundle(h) /\ Packed(t)
      /\ ToSet(h) \cap Covered(t) = {}
      /\ Covered(groups) = ToSet(h) \cup Covered(t)
      /\ ToSet(h) \cap Covered(FindingsOf(comments)) = {}
      /\ ToSet(h) \cap Covered(listed) = {}
  BY <1>1, HeadRendered
<1> HIDE DEF h, t
<1>3. Packed(listed)
  BY <1>1 DEF Divided
<1>4. Packed(listed') /\ Covered(listed') = Covered(listed) \cup ToSet(h)
  BY <1>1, <1>2, <1>3, PackedAppend
<1> DEFINE G == Covered(t)
           C == Covered(FindingsOf(comments))
           L == Covered(listed)
           T == Told(Len(report))
           H == ToSet(h)
<1>5. /\ comments \in Seq(InlineComment) /\ Packed(FindingsOf(comments))
      /\ (H \cup G) \cap C = {} /\ (H \cup G) \cap L = {} /\ C \cap L = {}
      /\ (H \cup G) \cup C \cup L = T
  BY <1>1, <1>2 DEF Divided
<1>6. T' = T
  BY <1>1 DEF Told
<1>7. Divided'
  <2>1. G \cap C = {} /\ G \cap (L \cup H) = {} /\ C \cap (L \cup H) = {} /\ G \cup C \cup (L \cup H) = T
    BY <1>2, <1>5
  <2>2. comments' = comments
    BY <1>1
  <2>3. Covered(FindingsOf(comments')) = C /\ Covered(groups') = G /\ Covered(listed') = L \cup H
    BY <1>1, <1>4, <2>2
  <2>4. comments' \in Seq(InlineComment) /\ Packed(FindingsOf(comments')) /\ Packed(groups') /\ Packed(listed')
    BY <1>1, <1>2, <1>4, <1>5, <2>2
  <2> HIDE DEF G, C, L, T, H
  <2>5. Told(Len(report))' = T
    BY <1>6 DEF T
  <2> QED BY <2>1, <2>3, <2>4, <2>5 DEF Divided
<1> QED BY <1>1, <1>7 DEF GInv

LEMMA DividedStays ==
  ASSUME Divided, UNCHANGED <<report, groups, comments, listed>>
  PROVE  Divided'
BY DEF Divided, Told

LEMMA ComposePreserves ==
  ASSUME GInv, Compose
  PROVE  GInv'
<1>1. /\ stage = "rendering" /\ groups = <<>> /\ Divided /\ stage' = "composed"
      /\ UNCHANGED <<report, prose, limit, groups, comments, listed>>
      /\ review' \in Composed(FlattenSeq(Ordered), Ordered)
  BY DEF GInv, Compose, Ordered
<1>2. Divided'
  BY <1>1, DividedStays
<1>3. Composed(FlattenSeq(Ordered), Ordered)' = Composed(FlattenSeq(Ordered), Ordered)
  BY <1>1 DEF Ordered, Composed, WholeBody, Envelope
<1>4. review' \in Composed(FlattenSeq(Ordered), Ordered)'
  BY <1>1, <1>3
<1> QED BY <1>1, <1>2, <1>4 DEF GInv

LEMMA SubmitPreserves ==
  ASSUME GInv, Submit
  PROVE  GInv'
<1>1. /\ stage = "composed" /\ groups = <<>> /\ Divided
      /\ UNCHANGED <<report, prose, limit, groups, comments, listed, review>>
      /\ review \in Composed(FlattenSeq(Ordered), Ordered)
      /\ stage' \in {"refused", "posted", "refused by the forge"}
  BY DEF GInv, Submit
<1>2. Divided'
  BY <1>1, DividedStays
<1>3. Composed(FlattenSeq(Ordered), Ordered)' = Composed(FlattenSeq(Ordered), Ordered)
  BY <1>1 DEF Ordered, Composed, WholeBody, Envelope
<1>4. review' \in Composed(FlattenSeq(Ordered), Ordered)'
  BY <1>1, <1>3
<1> QED BY <1>1, <1>2, <1>4 DEF GInv

LEMMA StutterPreserves ==
  ASSUME GInv, UNCHANGED githubVars
  PROVE  GInv'
<1>1. UNCHANGED <<report, prose, limit, stage, groups, comments, listed, review>>
  BY DEF githubVars
<1>2. Divided => Divided'
  BY <1>1, DividedStays
<1>3. Composed(FlattenSeq(Ordered), Ordered)' = Composed(FlattenSeq(Ordered), Ordered)
  BY <1>1 DEF Ordered, Composed, WholeBody, Envelope
<1> QED BY <1>1, <1>2, <1>3 DEF GInv

LEMMA GInvStep == GInv /\ [GNext]_githubVars => GInv'
<1> SUFFICES ASSUME GInv, [GNext]_githubVars PROVE GInv'
  OBVIOUS
<1>1. CASE Plan
  BY <1>1, PlanPreserves
<1>2. CASE RenderInline
  BY <1>2, RenderInlinePreserves
<1>3. CASE RenderListed
  BY <1>3, RenderListedPreserves
<1>4. CASE Compose
  BY <1>4, ComposePreserves
<1>5. CASE Submit
  BY <1>5, SubmitPreserves
<1>6. CASE UNCHANGED githubVars
  BY <1>6, StutterPreserves
<1> QED BY <1>1, <1>2, <1>3, <1>4, <1>5, <1>6 DEF GNext
-----------------------------------------------------------------------------
(* What the invariant says of a composed review. *)
LEMMA ReviewTells ==
  ASSUME GInv, stage \in {"composed", "posted"}
  PROVE  /\ Divided /\ groups = <<>>
         /\ TellsOf(review, Ordered, FlattenSeq(Ordered))
         /\ Covered(Ordered) = Covered(listed) /\ ToSet(Ordered) = ToSet(listed)
<1>1. /\ Divided /\ groups = <<>> /\ prose \in Proses /\ limit \in Limits
      /\ review \in Composed(FlattenSeq(Ordered), Ordered)
  BY DEF GInv
<1>2. Packed(listed)
  BY <1>1 DEF Divided
<1>3. Packed(Ordered) /\ Covered(Ordered) = Covered(listed) /\ ToSet(Ordered) = ToSet(listed)
  BY <1>2, InDigestOrderHolds DEF Ordered
<1>4. TellsOf(review, Ordered, FlattenSeq(Ordered))
  BY <1>1, <1>3, ComposedTells
<1> QED BY <1>1, <1>3, <1>4

LEMMA ToldOnce ==
  ASSUME GInv
  PROVE  EachToldOnce
<1> SUFFICES ASSUME stage \in {"composed", "posted"}, NEW f \in ToSet(report)
             PROVE  Places(f) = IF f.told THEN 1 ELSE 0
  BY DEF EachToldOnce
<1> DEFINE C == Covered(FindingsOf(comments))
           L == Covered(listed)
           S == ToSet(review.shown)
           O == ToSet(review.omitted)
<1>1. /\ Divided /\ groups = <<>>
      /\ TellsOf(review, Ordered, FlattenSeq(Ordered)) /\ Covered(Ordered) = L
  BY ReviewTells
<1>2. IsInjective(review.shown) /\ IsInjective(review.omitted) /\ S \cap O = {} /\ S \cup O = L
  BY <1>1 DEF TellsOf
<1>3. Covered(groups) = {}
  BY <1>1, PackedEmpty
<1>4. Packed(FindingsOf(comments)) /\ C \cap L = {} /\ C \cup L = Told(Len(report))
  BY <1>1, <1>3 DEF Divided
<1>5. f \in Told(Len(report)) <=> f.told
  <2>1. report \in Seq(ReportFinding) /\ \A i, j \in DOMAIN report : i # j => report[i] # report[j]
    BY ReportHolds DEF GInv
  <2>2. DOMAIN report = 1..Len(report)
    BY <2>1
  <2>3. \E i \in DOMAIN report : f = report[i]
    BY InSet
  <2> QED BY <2>2, <2>3 DEF Told
<1>6. Cardinality({i \in DOMAIN comments : f \in ToSet(comments[i].findings)}) = IF f \in C THEN 1 ELSE 0
  <2> DEFINE fs == FindingsOf(comments)
  <2>1. DOMAIN fs = DOMAIN comments /\ \A i \in DOMAIN comments : fs[i] = comments[i].findings
    BY DEF FindingsOf
  <2> HIDE DEF fs
  <2>2. {i \in DOMAIN comments : f \in ToSet(comments[i].findings)} = {i \in DOMAIN fs : f \in ToSet(fs[i])}
    BY <2>1
  <2>3. Cardinality({i \in DOMAIN fs : f \in ToSet(fs[i])}) = IF f \in Covered(fs) THEN 1 ELSE 0
    <3>1. Packed(fs)
      BY <1>4 DEF fs
    <3> QED BY <3>1, GroupsOf
  <2> QED BY <2>2, <2>3 DEF fs
<1>7. Cardinality({i \in DOMAIN review.shown : review.shown[i] = f}) = IF f \in S THEN 1 ELSE 0
  BY <1>2, PlacesIn
<1>8. Cardinality({i \in DOMAIN review.omitted : review.omitted[i] = f}) = IF f \in O THEN 1 ELSE 0
  BY <1>2, PlacesIn
<1>9. Places(f) = (IF f \in C THEN 1 ELSE 0) + (IF f \in S THEN 1 ELSE 0) + (IF f \in O THEN 1 ELSE 0)
  BY <1>6, <1>7, <1>8 DEF Places
<1> HIDE DEF C, L, S, O
<1> QED BY <1>2, <1>4, <1>5, <1>9

LEMMA WholeGroups ==
  ASSUME GInv
  PROVE  GroupsAreWhole
<1> SUFFICES ASSUME stage \in {"composed", "posted"}, NEW g \in ToSet(listed)
             PROVE  ToSet(g) \subseteq ToSet(review.shown) \/ ToSet(g) \cap ToSet(review.shown) = {}
  BY DEF GroupsAreWhole
<1>1. TellsOf(review, Ordered, FlattenSeq(Ordered)) /\ g \in ToSet(Ordered)
  BY ReviewTells
<1> QED BY <1>1 DEF TellsOf

LEMMA HopelessOnly ==
  ASSUME GInv
  PROVE  RefusedOnlyIfHopeless
<1> SUFFICES ASSUME stage = "composed", review.size > limit PROVE Skeleton > limit
  BY DEF RefusedOnlyIfHopeless
<1>1. TellsOf(review, Ordered, FlattenSeq(Ordered))
  BY ReviewTells
<1>2. /\ Len(review.shown) + Len(review.omitted) = Len(FlattenSeq(Ordered))
      /\ Frame(Len(FlattenSeq(Ordered))) > limit
  BY <1>1 DEF TellsOf
<1>3. Skeleton = Frame(Len(review.shown) + Len(review.omitted))
  BY DEF Skeleton, Frame
<1> QED BY <1>2, <1>3

LEMMA LeftOutOnly ==
  ASSUME GInv
  PROVE  LeftOutOnlyIfNeeded
<1> SUFFICES ASSUME stage = "composed", review.omitted # <<>>
             PROVE  WholeBody(FlattenSeq(InDigestOrder(listed))) > limit
  BY DEF LeftOutOnlyIfNeeded
<1>1. TellsOf(review, Ordered, FlattenSeq(Ordered))
  BY ReviewTells
<1>2. WholeBody(FlattenSeq(Ordered)) > limit
  BY <1>1 DEF TellsOf
<1> QED BY <1>2 DEF Ordered

(* Every finding that may be told is told once, inline, in the body or     *)
(* among those the body counts as missing; a group is shown whole or not   *)
(* at all; a composed review is refused only where not even its frame      *)
(* fits; and nothing is left out of a body that could hold all.            *)
THEOREM ReviewAlwaysTellsAll == GSpec => []GithubReviewTellsAll
<1>1. GInit => GInv
  BY GInvInit
<1>2. GInv /\ [GNext]_githubVars => GInv'
  BY GInvStep
<1>3. GInv => GithubReviewTellsAll
  BY ToldOnce, WholeGroups, HopelessOnly, LeftOutOnly DEF GithubReviewTellsAll
<1> QED BY <1>1, <1>2, <1>3, PTL DEF GSpec
-----------------------------------------------------------------------------
(* What a fold keeps of a body (BodyFold), for every body and limit.       *)
(* Bytes first, then runs of backticks, lines, the fences line by line and *)
(* what two texts that begin alike have in common, code spans, and what    *)
(* follows the prefix that is kept; then the invariant of the fold.        *)
LEMMA GreatestOf ==
  ASSUME NEW n \in Nat, NEW T \in SUBSET (0..n), T # {}
  PROVE  Max(T) \in T /\ \A x \in T : x <= Max(T)
<1> DEFINE U == {n - x : x \in T}
<1>1. U \in SUBSET Nat /\ U # {}
  <2>1. \A x \in T : x \in 0..n /\ n - x \in Nat
    OBVIOUS
  <2>2. PICK x \in T : TRUE
    OBVIOUS
  <2>3. n - x \in U
    BY <2>2
  <2> QED BY <2>1, <2>3, Zenon
<1>2. PICK u \in U : \A v \in U : u <= v
  BY <1>1, FirstOf, Zenon
<1>3. PICK y \in T : u = n - y
  BY <1>2
<1>4. \A x \in T : x <= y
  <2> TAKE x \in T
  <2>1. n - x \in U
    OBVIOUS
  <2>2. n - y <= n - x
    BY <1>2, <1>3, <2>1
  <2> QED BY <2>2
<1>5. \E z \in T : \A x \in T : z >= x
  BY <1>4
<1>6. Max(T) = CHOOSE z \in T : \A x \in T : z >= x
  BY DEF Max
<1>7. Max(T) \in T /\ \A x \in T : Max(T) >= x
  BY <1>5, <1>6
<1> QED BY <1>7

BytesBy(f, s) ==
  /\ f \in [0..Len(s) -> Nat]
  /\ f[0] = 0
  /\ \A i \in 1..Len(s) : f[i] = f[i - 1] + Bytes(s[i])
  /\ Utf8Len(s) = f[Len(s)]

LEMMA BytesExist ==
  ASSUME NEW s \in Seq(Symbol)
  PROVE  \E f : BytesBy(f, s)
<1> DEFINE n == Len(s)
           step == [x \in (1..n) \X Nat |-> x[2] + Bytes(s[x[1]])]
           By(z) == z = [i \in 0..n |-> IF i = 0 THEN 0 ELSE z[i - 1] + Bytes(s[i])]
<1>1. n \in Nat /\ \A i \in 1..n : Bytes(s[i]) \in Nat
  BY DEF Bytes
<1>2. step \in [(1..n) \X Nat -> Nat] /\ 0 \in Nat
  <2>1. ASSUME NEW x \in (1..n) \X Nat PROVE x[2] + Bytes(s[x[1]]) \in Nat
    BY <1>1
  <2> QED BY <2>1
<1>3. \A i \in 1..n : \A v \in Nat : step[<<i, v>>] = v + Bytes(s[i])
  OBVIOUS
<1> HIDE DEF step
<1>4. PICK f : Stepwise(n, Nat, 0, step, f)
  BY <1>1, <1>2, StepwiseExists, Zenon
<1>5. f \in [0..n -> Nat] /\ f[0] = 0 /\ \A i \in 1..n : f[i] = step[<<i, f[i - 1]>>]
  BY <1>4 DEF Stepwise
<1>6. ASSUME NEW i \in 0..n PROVE f[i] = IF i = 0 THEN 0 ELSE f[i - 1] + Bytes(s[i])
  <2>1. i # 0 => i \in 1..n /\ i - 1 \in 0..n
    BY <1>1
  <2> QED BY <2>1, <1>3, <1>5
<1>7. By(f)
  BY <1>5, <1>6
<1> DEFINE z == CHOOSE z : By(z)
<1>8. Utf8Len(s) = z[n]
  BY DEF Utf8Len
<1>9. By(z)
  BY <1>7
<1> HIDE DEF z
<1>10. /\ \A i \in 0..n : z[i] = IF i = 0 THEN 0 ELSE z[i - 1] + Bytes(s[i])
       /\ z = [i \in 0..n |-> z[i]]
  BY <1>9
<1> HIDE DEF By
<1> DEFINE P == {i \in 0..n : z[i] \in Nat}
<1>11. 0 \in P /\ z[0] = 0
  BY <1>1, <1>10
<1>12. \A i \in 1..n : z[i] = z[i - 1] + Bytes(s[i])
  <2> HIDE DEF n, step, P
  <2> TAKE i \in 1..n
  <2>1. i \in 0..n /\ i # 0
    BY <1>1
  <2> QED BY <2>1, <1>10
<1>13. ASSUME NEW i \in 1..n, i - 1 \in P PROVE i \in P
  <2>1. z[i - 1] \in Nat /\ i \in 0..n
    BY <1>13
  <2> QED BY <2>1, <1>1, <1>12
<1> HIDE DEF P
<1>14. \A i \in 0..n : i \in P
  BY <1>1, <1>11, <1>13, UpTo
<1>15. z \in [0..n -> Nat]
  BY <1>10, <1>14 DEF P
<1>16. BytesBy(z, s)
  BY <1>8, <1>11, <1>12, <1>15 DEF BytesBy
<1> QED BY <1>16

LEMMA OneMoreByte ==
  ASSUME NEW s \in Seq(Symbol), NEW c \in Symbol
  PROVE  /\ Append(s, c) \in Seq(Symbol) /\ Utf8Len(s) \in Nat
         /\ Utf8Len(Append(s, c)) = Utf8Len(s) + Bytes(c)
<1> DEFINE t == Append(s, c)
           n == Len(s)
<1>1. /\ t \in Seq(Symbol) /\ n \in Nat /\ Len(t) = n + 1 /\ t[n + 1] = c
      /\ \A i \in 1..n : t[i] = s[i]
  OBVIOUS
<1> HIDE DEF t
<1>2. PICK f : BytesBy(f, s)
  BY BytesExist
<1>3. PICK g : BytesBy(g, t)
  BY <1>1, BytesExist
<1>4. f[0] = 0 /\ (\A i \in 1..n : f[i] = f[i - 1] + Bytes(s[i])) /\ Utf8Len(s) = f[n] /\ f[n] \in Nat
  BY <1>1, <1>2 DEF BytesBy
<1>5. g[0] = 0 /\ (\A i \in 1..(n + 1) : g[i] = g[i - 1] + Bytes(t[i])) /\ Utf8Len(t) = g[n + 1]
  BY <1>1, <1>3 DEF BytesBy
<1> HIDE DEF n
<1> DEFINE P == {i \in 0..n : f[i] = g[i]}
<1>6. 0 \in P
  BY <1>1, <1>4, <1>5
<1>7. ASSUME NEW i \in 1..n, i - 1 \in P PROVE i \in P
  <2>1. i \in 1..(n + 1) /\ i \in 0..n
    BY <1>1
  <2>2. f[i - 1] = g[i - 1]
    BY <1>7
  <2>3. f[i] = g[i]
    BY <2>1, <2>2, <1>1, <1>4, <1>5
  <2> QED BY <2>1, <2>3
<1> HIDE DEF P
<1>8. n \in P
  <2>1. \A i \in 0..n : i \in P
    BY <1>1, <1>6, <1>7, UpTo
  <2> QED BY <2>1, <1>1
<1>9. f[n] = g[n]
  BY <1>8 DEF P
<1>10. n + 1 \in 1..(n + 1) /\ (n + 1) - 1 = n
  BY <1>1
<1>11. g[n + 1] = g[n] + Bytes(c)
  BY <1>1, <1>5, <1>10
<1> QED BY <1>1, <1>4, <1>5, <1>9, <1>11 DEF t
-----------------------------------------------------------------------------
(* Runs of backticks. *)
RunIs(s, i, k) ==
  /\ \A j \in i..(i + k - 1) : j \in 1..Len(s) /\ s[j] = "t"
  /\ i + k \in 1..Len(s) => s[i + k] # "t"

LEMMA RunUnique ==
  ASSUME NEW s \in Seq(Symbol), NEW i \in Nat \ {0}, NEW k \in Nat, NEW m \in Nat, RunIs(s, i, k), RunIs(s, i, m)
  PROVE  k = m
<1>1. ASSUME NEW a \in Nat, NEW b \in Nat, RunIs(s, i, a), RunIs(s, i, b), a < b PROVE FALSE
  <2>1. i + a \in i..(i + b - 1)
    BY <1>1
  <2>2. i + a \in 1..Len(s) /\ s[i + a] = "t"
    BY <1>1, <2>1 DEF RunIs
  <2> QED BY <2>2, <1>1 DEF RunIs
<1>2. ~(k < m) /\ ~(m < k)
  BY <1>1
<1> QED BY <1>2

LEMMA RunOf ==
  ASSUME NEW s \in Seq(Symbol), NEW i \in 1..(Len(s) + 1)
  PROVE  TickRun(s, i) \in Nat /\ i + TickRun(s, i) <= Len(s) + 1 /\ RunIs(s, i, TickRun(s, i))
<1> DEFINE n == Len(s)
           T == {j \in i..(n + 1) : j = n + 1 \/ s[j] # "t"}
<1>1. n \in Nat /\ T \in SUBSET Nat /\ n + 1 \in T
  OBVIOUS
<1>2. PICK e \in T : \A j \in T : e <= j
  BY <1>1, FirstOf, Zenon
<1>3. e \in i..(n + 1) /\ (e = n + 1 \/ s[e] # "t")
  BY <1>2
<1>4. \A j \in i..(e - 1) : j \in 1..n /\ s[j] = "t"
  <2> TAKE j \in i..(e - 1)
  <2>1. j \in i..(n + 1) /\ j # n + 1 /\ j < e /\ j \in 1..n
    BY <1>1, <1>3
  <2>2. j \notin T
    BY <2>1, <1>2, <1>3
  <2> QED BY <2>1, <2>2
<1> DEFINE k == e - i
<1>5. k \in 0..n /\ i + k = e
  BY <1>1, <1>3
<1>6. RunIs(s, i, k)
  <2>1. i + k - 1 = e - 1
    BY <1>5, <1>3
  <2>2. e \in 1..n => s[e] # "t"
    BY <1>1, <1>3
  <2> HIDE DEF k, n
  <2> QED BY <2>1, <2>2, <1>4, <1>5 DEF RunIs, n
<1>7. DOMAIN s = 1..n
  OBVIOUS
<1> HIDE DEF n, T, k
<1>8. TickRun(s, i) = CHOOSE x \in 0..n : RunIs(s, i, x)
  BY <1>7 DEF TickRun, RunIs, n
<1>9. TickRun(s, i) \in 0..n /\ RunIs(s, i, TickRun(s, i))
  BY <1>5, <1>6, <1>8
<1>10. TickRun(s, i) = k
  BY <1>1, <1>5, <1>6, <1>9, RunUnique
<1>11. e <= n + 1
  BY <1>1, <1>3
<1> QED BY <1>1, <1>5, <1>9, <1>10, <1>11 DEF n

LEMMA RunIn ==
  ASSUME NEW s \in Seq(Symbol), NEW e \in 1..(Len(s) + 1), EndsAt(s, e), NEW i \in 1..e
  PROVE  i + TickRun(s, i) <= e
<1>1. i \in 1..(Len(s) + 1) /\ Len(s) \in Nat
  OBVIOUS
<1> DEFINE k == TickRun(s, i)
<1>2. k \in Nat /\ i + k <= Len(s) + 1 /\ RunIs(s, i, k)
  BY <1>1, RunOf
<1> HIDE DEF k
<1>3. CASE e = Len(s) + 1
  BY <1>2, <1>3 DEF k
<1>4. CASE e # Len(s) + 1
  <2>1. s[e] = "n"
    BY <1>4 DEF EndsAt
  <2>2. ~(e \in i..(i + k - 1))
    BY <2>1, <1>2 DEF RunIs
  <2> QED BY <2>2, <1>2 DEF k
<1> QED BY <1>3, <1>4

(* A run is where it is on the same line of any other text.               *)
LEMMA SameRun ==
  ASSUME NEW s \in Seq(Symbol), NEW t \in Seq(Symbol), NEW e \in 1..(Len(s) + 1), e \in 1..(Len(t) + 1),
         EndsAt(s, e), EndsAt(t, e), NEW i \in 1..e, \A j \in i..(e - 1) : s[j] = t[j]
  PROVE  TickRun(t, i) = TickRun(s, i)
<1> DEFINE k == TickRun(s, i)
<1>1. i \in 1..(Len(s) + 1) /\ i \in 1..(Len(t) + 1) /\ i \in Nat \ {0} /\ Len(s) \in Nat /\ Len(t) \in Nat
  OBVIOUS
<1>2. k \in Nat /\ RunIs(s, i, k) /\ i + k <= e
  BY <1>1, RunOf, RunIn
<1>3. TickRun(t, i) \in Nat /\ RunIs(t, i, TickRun(t, i))
  BY <1>1, RunOf
<1> HIDE DEF k
<1>4. \A j \in i..(i + k - 1) : j \in 1..Len(t) /\ t[j] = "t"
  <2> TAKE j \in i..(i + k - 1)
  <2>1. j \in 1..Len(s) /\ s[j] = "t"
    BY <1>2 DEF RunIs
  <2>2. j \in i..(e - 1) /\ j \in 1..Len(t)
    BY <1>1, <1>2
  <2> QED BY <2>1, <2>2
<1>5. i + k \in 1..Len(t) => t[i + k] # "t"
  <2>1. CASE i + k = e
    BY <2>1 DEF EndsAt
  <2>2. CASE i + k # e
    <3>1. i + k \in i..(e - 1) /\ i + k \in 1..Len(s)
      BY <2>2, <1>1, <1>2
    <3>2. s[i + k] # "t" /\ s[i + k] = t[i + k]
      BY <3>1, <1>2 DEF RunIs
    <3> QED BY <3>2
  <2> QED BY <2>1, <2>2
<1>6. RunIs(t, i, k)
  BY <1>4, <1>5 DEF RunIs
<1> QED BY <1>1, <1>2, <1>3, <1>6, RunUnique DEF k

(* A run that is at least so long. *)
LEMMA LongRun ==
  ASSUME NEW s \in Seq(Symbol), NEW i \in 1..(Len(s) + 1), NEW k \in Nat,
         \A j \in i..(i + k - 1) : j \in 1..Len(s) /\ s[j] = "t"
  PROVE  k <= TickRun(s, i)
<1>1. TickRun(s, i) \in Nat /\ RunIs(s, i, TickRun(s, i))
  BY RunOf
<1> DEFINE m == TickRun(s, i)
<1> HIDE DEF m
<1> SUFFICES ASSUME m < k PROVE FALSE
  BY <1>1 DEF m
<1>2. i + m \in i..(i + k - 1)
  BY <1>1 DEF m
<1>3. i + m \in 1..Len(s) /\ s[i + m] = "t"
  BY <1>2
<1> QED BY <1>1, <1>3 DEF m, RunIs
-----------------------------------------------------------------------------
(* Lines. *)
StartsAt(s, i, l) ==
  /\ l \in 1..i
  /\ \A j \in l..(i - 1) : s[j] # "n"
  /\ l = 1 \/ s[l - 1] = "n"

LEMMA LineStartIs ==
  ASSUME NEW s \in Seq(Symbol), NEW i \in 1..(Len(s) + 1)
  PROVE  StartsAt(s, i, LineStart(s, i))
<1> DEFINE T == {0} \cup {j \in 1..(i - 1) : s[j] = "n"}
           m == Max(T)
<1>1. i - 1 \in Nat /\ T \in SUBSET (0..(i - 1)) /\ T # {}
  OBVIOUS
<1>2. m \in T /\ \A x \in T : x <= m
  BY <1>1, GreatestOf, Zenon
<1>3. m \in 0..(i - 1) /\ (m = 0 \/ s[m] = "n")
  BY <1>1, <1>2
<1>4. LineStart(s, i) = 1 + m
  BY DEF LineStart
<1>5. ASSUME NEW j \in (m + 1)..(i - 1), s[j] = "n" PROVE FALSE
  <2>1. j \in T
    BY <1>3, <1>5
  <2>2. j <= m
    BY <1>2, <2>1
  <2> QED BY <1>3, <2>2
<1> HIDE DEF m
<1> DEFINE l == m + 1
<1>6. l \in 1..i /\ (l = 1 \/ s[l - 1] = "n") /\ LineStart(s, i) = l
  BY <1>3, <1>4
<1>7. \A j \in l..(i - 1) : s[j] # "n"
  BY <1>5
<1> HIDE DEF l
<1> QED BY <1>6, <1>7 DEF StartsAt

LEMMA LineStartUnique ==
  ASSUME NEW s \in Seq(Symbol), NEW i \in 1..(Len(s) + 1), NEW l, StartsAt(s, i, l)
  PROVE  LineStart(s, i) = l
<1>1. ASSUME NEW a, NEW b, StartsAt(s, i, a), StartsAt(s, i, b), a < b PROVE FALSE
  <2>1. a \in 1..i /\ b \in 1..i /\ b - 1 \in a..(i - 1) /\ b # 1
    BY <1>1 DEF StartsAt
  <2> QED BY <1>1, <2>1 DEF StartsAt
<1>2. StartsAt(s, i, LineStart(s, i))
  BY LineStartIs
<1>3. ~(LineStart(s, i) < l) /\ ~(l < LineStart(s, i))
  BY <1>1, <1>2
<1>4. LineStart(s, i) \in 1..i /\ l \in 1..i
  BY <1>2 DEF StartsAt
<1> QED BY <1>3, <1>4

LEMMA SameLineStart ==
  ASSUME NEW s \in Seq(Symbol), NEW t \in Seq(Symbol), NEW i \in 1..(Len(s) + 1), i \in 1..(Len(t) + 1),
         \A j \in 1..(i - 1) : s[j] = t[j]
  PROVE  LineStart(t, i) = LineStart(s, i)
<1> DEFINE l == LineStart(s, i)
<1>1. StartsAt(s, i, l)
  BY LineStartIs
<1> HIDE DEF l
<1>2. l \in 1..i /\ (\A j \in l..(i - 1) : s[j] # "n") /\ (l = 1 \/ s[l - 1] = "n")
  BY <1>1 DEF StartsAt
<1>3. \A j \in l..(i - 1) : t[j] # "n"
  <2> TAKE j \in l..(i - 1)
  <2>1. j \in 1..(i - 1)
    BY <1>2
  <2> QED BY <1>2, <2>1
<1>4. l = 1 \/ t[l - 1] = "n"
  <2>1. l # 1 => l - 1 \in 1..(i - 1)
    BY <1>2
  <2> QED BY <1>2, <2>1
<1>5. StartsAt(t, i, l)
  BY <1>2, <1>3, <1>4 DEF StartsAt
<1> QED BY <1>5, LineStartUnique DEF l
-----------------------------------------------------------------------------
(* Fences, line by line. *)
FenceState == [width : Nat, at : Nat, closed : SUBSET (Nat \X Nat)]
NoFence == [width |-> 0, at |-> 0, closed |-> {}]

After(s, state, i) ==
  IF EndsAt(s, i) THEN Visit(s, state, <<LineStart(s, i), i>>) ELSE state

LEMMA VisitKeepsType ==
  ASSUME NEW s \in Seq(Symbol), NEW state \in FenceState, NEW i \in 1..(Len(s) + 1), NEW l \in 1..i
  PROVE  Visit(s, state, <<l, i>>) \in FenceState
<1> DEFINE run == TickRun(s, l)
           rest == (l + run)..(i - 1)
           closes == [width |-> 0, at |-> 0, closed |-> state.closed \cup {<<state.at, i + 1>>}]
           opens == [width |-> run, at |-> l, closed |-> state.closed]
<1>1. run \in Nat /\ l \in Nat /\ i + 1 \in Nat
  BY RunOf
<1>2. state.width \in Nat /\ state.at \in Nat /\ state.closed \in SUBSET (Nat \X Nat)
  BY DEF FenceState
<1>3. Visit(s, state, <<l, i>>) =
        IF state.width > 0
        THEN IF run >= state.width /\ rest = {} THEN closes ELSE state
        ELSE IF run >= 3 /\ \A j \in rest : s[j] # "t" THEN opens ELSE state
  BY Zenon DEF Visit
<1>4. closes \in FenceState
  BY <1>1, <1>2 DEF FenceState
<1>5. opens \in FenceState
  BY <1>1, <1>2 DEF FenceState
<1> HIDE DEF closes, opens, run, rest
<1> QED BY <1>3, <1>4, <1>5

LEMMA FencesWalk ==
  ASSUME NEW s \in Seq(Symbol)
  PROVE  /\ FencesOf(s)[0] = NoFence
         /\ \A i \in 0..(Len(s) + 1) : FencesOf(s)[i] \in FenceState
         /\ \A i \in 1..(Len(s) + 1) : FencesOf(s)[i] = After(s, FencesOf(s)[i - 1], i)
<1> DEFINE n == Len(s) + 1
           step == [x \in (1..n) \X FenceState |-> After(s, x[2], x[1])]
           By(z) == z = [i \in 0..n |-> IF i = 0 THEN NoFence ELSE After(s, z[i - 1], i)]
<1>1. n \in Nat /\ NoFence \in FenceState
  BY DEF NoFence, FenceState
<1>2. ASSUME NEW i \in 1..n, NEW state \in FenceState PROVE After(s, state, i) \in FenceState
  <2>1. LineStart(s, i) \in 1..i
    BY LineStartIs DEF StartsAt
  <2>2. Visit(s, state, <<LineStart(s, i), i>>) \in FenceState
    BY <2>1, VisitKeepsType
  <2> QED BY <2>2 DEF After
<1>3. step \in [(1..n) \X FenceState -> FenceState]
  BY <1>2
<1>4. \A i \in 1..n : \A state \in FenceState : step[<<i, state>>] = After(s, state, i)
  OBVIOUS
<1> HIDE DEF step
<1>5. PICK f : Stepwise(n, FenceState, NoFence, step, f)
  BY <1>1, <1>3, StepwiseExists, Zenon
<1>6. f \in [0..n -> FenceState] /\ f[0] = NoFence /\ \A i \in 1..n : f[i] = step[<<i, f[i - 1]>>]
  BY <1>5 DEF Stepwise
<1>7. ASSUME NEW i \in 0..n PROVE f[i] = IF i = 0 THEN NoFence ELSE After(s, f[i - 1], i)
  <2> HIDE DEF n
  <2>1. i # 0 => i \in 1..n /\ i - 1 \in 0..n
    BY <1>1
  <2> QED BY <2>1, <1>4, <1>6
<1>8. By(f)
  BY <1>6, <1>7
<1> DEFINE z == CHOOSE z : By(z)
<1>9. FencesOf(s) = z
  BY Zenon DEF FencesOf, After, NoFence
<1>10. By(z)
  BY <1>8
<1> HIDE DEF z
<1>11. \A i \in 0..n : z[i] = IF i = 0 THEN NoFence ELSE After(s, z[i - 1], i)
  BY <1>10
<1> HIDE DEF By, n
<1>12. z[0] = NoFence
  BY <1>1, <1>11
<1>13. \A i \in 1..n : z[i] = After(s, z[i - 1], i)
  <2> TAKE i \in 1..n
  <2>1. i \in 0..n /\ i # 0
    BY <1>1
  <2> QED BY <2>1, <1>11
<1> DEFINE P == {i \in 0..n : z[i] \in FenceState}
<1>14. 0 \in P
  BY <1>1, <1>12
<1>15. ASSUME NEW i \in 1..n, i - 1 \in P PROVE i \in P
  <2>1. z[i - 1] \in FenceState /\ i \in 0..n
    BY <1>15, <1>1
  <2> QED BY <2>1, <1>2, <1>13
<1> HIDE DEF P
<1>16. \A i \in 0..n : i \in P
  BY <1>1, <1>14, <1>15, UpTo
<1>17. \A i \in 0..n : z[i] \in FenceState
  BY <1>16 DEF P
<1> QED BY <1>9, <1>12, <1>13, <1>17 DEF n

LEMMA SameVisit ==
  ASSUME NEW s \in Seq(Symbol), NEW t \in Seq(Symbol), NEW i \in 1..(Len(s) + 1), i \in 1..(Len(t) + 1),
         EndsAt(s, i), EndsAt(t, i), \A j \in 1..(i - 1) : s[j] = t[j], NEW state
  PROVE  After(t, state, i) = After(s, state, i)
<1> DEFINE l == LineStart(s, i)
           run == TickRun(s, l)
           rest == (l + run)..(i - 1)
<1>1. LineStart(t, i) = l
  BY SameLineStart
<1>2. l \in 1..i
  BY LineStartIs DEF StartsAt
<1> HIDE DEF l
<1>3. TickRun(t, l) = run
  <2>1. \A j \in l..(i - 1) : s[j] = t[j]
    <3> TAKE j \in l..(i - 1)
    <3>1. j \in 1..(i - 1)
      BY <1>2
    <3> QED BY <3>1
  <2> QED BY <1>2, <2>1, SameRun
<1>4. run \in Nat
  BY <1>2, RunOf
<1> HIDE DEF run
<1>5. \A j \in rest : s[j] = t[j]
  <2> TAKE j \in rest
  <2>1. j \in 1..(i - 1)
    BY <1>2, <1>4
  <2> QED BY <2>1
<1>6. (\A j \in rest : s[j] # "t") <=> (\A j \in rest : t[j] # "t")
  BY <1>5
<1> DEFINE closes == [width |-> 0, at |-> 0, closed |-> state.closed \cup {<<state.at, i + 1>>}]
           opens == [width |-> run, at |-> l, closed |-> state.closed]
           Visited(r) ==
             IF state.width > 0
             THEN IF run >= state.width /\ rest = {} THEN closes ELSE state
             ELSE IF run >= 3 /\ \A j \in rest : r[j] # "t" THEN opens ELSE state
<1>7. Visit(s, state, <<l, i>>) = Visited(s)
  BY Zenon DEF Visit, run
<1>8. Visit(t, state, <<l, i>>) = Visited(t)
  BY Zenon, <1>3 DEF Visit
<1> HIDE DEF closes, opens, rest
<1>9. Visited(s) = Visited(t)
  BY <1>6
<1> QED BY <1>1, <1>7, <1>8, <1>9 DEF After, l

(* What is before a position decides what the fences are there.            *)
LEMMA SamePrefix ==
  ASSUME NEW s \in Seq(Symbol), NEW t \in Seq(Symbol), NEW m \in Nat, m <= Len(s), m <= Len(t),
         \A j \in 1..m : s[j] = t[j]
  PROVE  \A i \in 0..m : FencesOf(t)[i] = FencesOf(s)[i]
<1> DEFINE f == FencesOf(s)
           g == FencesOf(t)
           P == {i \in 0..m : g[i] = f[i]}
<1>1. /\ f[0] = NoFence /\ (\A i \in 1..m : f[i] = After(s, f[i - 1], i))
      /\ g[0] = NoFence /\ (\A i \in 1..m : g[i] = After(t, g[i - 1], i))
  <2>1. \A i \in 1..m : i \in 1..(Len(s) + 1) /\ i \in 1..(Len(t) + 1)
    OBVIOUS
  <2> QED BY <2>1, FencesWalk
<1> HIDE DEF f, g
<1>2. 0 \in P
  BY <1>1
<1>3. ASSUME NEW i \in 1..m, i - 1 \in P PROVE i \in P
  <2>1. g[i - 1] = f[i - 1] /\ i \in 0..m /\ i \in 1..(Len(s) + 1) /\ i \in 1..(Len(t) + 1)
    BY <1>3
  <2>2. \A j \in 1..(i - 1) : s[j] = t[j]
    <3> TAKE j \in 1..(i - 1)
    <3>1. j \in 1..m
      OBVIOUS
    <3> QED BY <3>1
  <2>3. EndsAt(s, i) <=> EndsAt(t, i)
    <3>1. i # Len(s) + 1 /\ i # Len(t) + 1 /\ s[i] = t[i]
      OBVIOUS
    <3> QED BY <3>1 DEF EndsAt
  <2>4. After(t, f[i - 1], i) = After(s, f[i - 1], i)
    <3>1. CASE EndsAt(s, i)
      BY <3>1, <2>1, <2>2, <2>3, SameVisit
    <3>2. CASE ~EndsAt(s, i)
      BY <3>2, <2>3 DEF After
    <3> QED BY <3>1, <3>2
  <2>5. g[i] = f[i]
    BY <1>1, <2>1, <2>4
  <2> QED BY <2>1, <2>5
<1> HIDE DEF P
<1>4. \A i \in 0..m : i \in P
  BY <1>2, <1>3, UpTo
<1> QED BY <1>4 DEF P, f, g

LEMMA SameToTheEnd ==
  ASSUME NEW s \in Seq(Symbol), NEW t \in Seq(Symbol), NEW i \in 1..(Len(s) + 1), i \in 1..(Len(t) + 1),
         EndsAt(s, i), EndsAt(t, i), \A j \in 1..(i - 1) : s[j] = t[j]
  PROVE  FencesOf(t)[i] = FencesOf(s)[i]
<1>1. i - 1 \in Nat /\ i - 1 <= Len(s) /\ i - 1 <= Len(t) /\ i - 1 \in 0..(i - 1)
  OBVIOUS
<1>2. FencesOf(t)[i - 1] = FencesOf(s)[i - 1]
  BY <1>1, SamePrefix
<1>3. FencesOf(s)[i] = After(s, FencesOf(s)[i - 1], i) /\ FencesOf(t)[i] = After(t, FencesOf(t)[i - 1], i)
  BY FencesWalk
<1> QED BY <1>2, <1>3, SameVisit

(* Within a line nothing happens. *)
LEMMA Between ==
  ASSUME NEW s \in Seq(Symbol), NEW a \in 0..(Len(s) + 1), NEW b \in a..(Len(s) + 1),
         \A j \in (a + 1)..b : ~EndsAt(s, j)
  PROVE  FencesOf(s)[b] = FencesOf(s)[a]
<1> DEFINE f == FencesOf(s)
           m == b - a
           P == {i \in 0..m : f[a + i] = f[a]}
<1>1. m \in Nat /\ a + m = b /\ a \in Nat
  OBVIOUS
<1>2. \A i \in 1..(Len(s) + 1) : f[i] = After(s, f[i - 1], i)
  BY FencesWalk
<1> HIDE DEF f
<1>3. 0 \in P
  BY <1>1
<1>4. ASSUME NEW i \in 1..m, i - 1 \in P PROVE i \in P
  <2>1. a + i \in (a + 1)..b /\ a + i \in 1..(Len(s) + 1) /\ (a + i) - 1 = a + (i - 1) /\ i \in 0..m
    BY <1>1
  <2>2. f[a + i] = f[a + (i - 1)]
    BY <2>1, <1>2 DEF After
  <2>3. f[a + (i - 1)] = f[a]
    BY <1>4
  <2> QED BY <2>1, <2>2, <2>3
<1> HIDE DEF P, m
<1>5. m \in P
  <2>1. \A i \in 0..m : i \in P
    BY <1>1, <1>3, <1>4, UpTo
  <2>2. m \in 0..m
    BY <1>1
  <2> QED BY <2>1, <2>2
<1> QED BY <1>1, <1>5 DEF P, f
-----------------------------------------------------------------------------
(* What is remembered of a fence is where it is. *)
Sane(s, i, state) ==
  /\ state.width > 0 =>
       /\ state.at \in 1..i /\ state.at + state.width <= i
       /\ TickRun(s, state.at) = state.width /\ state.width >= 3
  /\ \A c \in state.closed :
       /\ c[1] \in 1..i /\ c[2] <= i + 1
       /\ c[1] + TickRun(s, c[1]) < c[2]

(* What visiting a line comes to. *)
Closing(s, state, l, i) ==
  state.width > 0 /\ TickRun(s, l) >= state.width /\ l + TickRun(s, l) = i
Opening(s, state, l, i) == state.width = 0 /\ TickRun(s, l) >= 3

LEMMA Visited ==
  ASSUME NEW s \in Seq(Symbol), NEW state \in FenceState, NEW i \in 1..(Len(s) + 1), EndsAt(s, i), NEW l \in 1..i
  PROVE  \/ /\ Closing(s, state, l, i)
            /\ Visit(s, state, <<l, i>>) =
                 [width |-> 0, at |-> 0, closed |-> state.closed \cup {<<state.at, i + 1>>}]
         \/ /\ ~Closing(s, state, l, i) /\ Opening(s, state, l, i)
            /\ Visit(s, state, <<l, i>>) =
                 [width |-> TickRun(s, l), at |-> l, closed |-> state.closed]
         \/ ~Closing(s, state, l, i) /\ Visit(s, state, <<l, i>>) = state
<1> DEFINE run == TickRun(s, l)
           rest == (l + run)..(i - 1)
           closes == [width |-> 0, at |-> 0, closed |-> state.closed \cup {<<state.at, i + 1>>}]
           opens == [width |-> run, at |-> l, closed |-> state.closed]
<1>1. run \in Nat /\ l \in Nat /\ l + run <= i
  BY RunOf, RunIn
<1>2. state.width \in Nat /\ state.at \in Nat
  BY DEF FenceState
<1>3. Visit(s, state, <<l, i>>) =
        IF state.width > 0
        THEN IF run >= state.width /\ rest = {} THEN closes ELSE state
        ELSE IF run >= 3 /\ \A j \in rest : s[j] # "t" THEN opens ELSE state
  BY Zenon DEF Visit
<1>5. (rest = {}) <=> (l + run = i)
  <2>1. CASE l + run = i
    BY <2>1, <1>1
  <2>2. CASE l + run # i
    <3>1. l + run \in rest
      BY <2>2, <1>1
    <3> QED BY <3>1, <2>2
  <2> QED BY <2>1, <2>2
<1> HIDE DEF closes, opens, run, rest
<1>6. CASE state.width > 0 /\ run >= state.width /\ rest = {}
  BY <1>3, <1>5, <1>6 DEF Closing, run, closes
<1>7. CASE state.width > 0 /\ ~(run >= state.width /\ rest = {})
  BY <1>3, <1>5, <1>7 DEF Closing, run
<1>8. CASE ~(state.width > 0) /\ run >= 3 /\ \A j \in rest : s[j] # "t"
  <2>1. state.width = 0
    BY <1>2, <1>8
  <2>2. Visit(s, state, <<l, i>>) = opens
    BY <1>3, <1>8
  <2> QED BY <1>8, <2>1, <2>2 DEF Closing, Opening, run, opens
<1>9. CASE ~(state.width > 0) /\ ~(run >= 3 /\ \A j \in rest : s[j] # "t")
  BY <1>3, <1>9 DEF Closing
<1> QED BY <1>6, <1>7, <1>8, <1>9

LEMMA SaneAfter ==
  ASSUME NEW s \in Seq(Symbol), NEW state \in FenceState, NEW i \in 1..(Len(s) + 1), Sane(s, i - 1, state)
  PROVE  Sane(s, i, After(s, state, i)) /\ state.closed \subseteq After(s, state, i).closed
<1> DEFINE l == LineStart(s, i)
           new == After(s, state, i)
<1>1. l \in 1..i
  BY LineStartIs DEF StartsAt
<1>2. Sane(s, i, state)
  <2>1. i - 1 < i /\ i - 1 \in Nat /\ i \in Nat
    OBVIOUS
  <2>2. state.width \in Nat /\ state.at \in Nat /\ state.closed \in SUBSET (Nat \X Nat)
    BY DEF FenceState
  <2>3. ASSUME state.width > 0
        PROVE  /\ state.at \in 1..i /\ state.at + state.width <= i
               /\ TickRun(s, state.at) = state.width /\ state.width >= 3
    BY <2>1, <2>2, <2>3 DEF Sane
  <2>4. ASSUME NEW c \in state.closed
        PROVE  c[1] \in 1..i /\ c[2] <= i + 1 /\ c[1] + TickRun(s, c[1]) < c[2]
    <3>1. c[1] \in Nat /\ c[2] \in Nat
      BY <2>2
    <3>2. c[1] \in 1..(i - 1) /\ c[2] <= (i - 1) + 1 /\ c[1] + TickRun(s, c[1]) < c[2]
      BY <2>4 DEF Sane
    <3> QED BY <3>1, <3>2
  <2> QED BY <2>3, <2>4 DEF Sane
<1>3. CASE ~EndsAt(s, i)
  <2>1. new = state
    BY <1>3 DEF After
  <2> QED BY <2>1, <1>2
<1>4. CASE EndsAt(s, i)
  <2>1. new = Visit(s, state, <<l, i>>)
    BY <1>4 DEF After
  <2>2. state.width \in Nat /\ state.at \in Nat /\ state.closed \in SUBSET (Nat \X Nat)
    BY DEF FenceState
  <2>3. TickRun(s, l) \in Nat /\ l + TickRun(s, l) <= i
    BY <1>1, <1>4, RunOf, RunIn
  <2> HIDE DEF new, l
  <2>4. CASE Closing(s, state, l, i) /\ new = [width |-> 0, at |-> 0, closed |-> state.closed \cup {<<state.at, i + 1>>}]
    <3>1. state.width > 0 /\ state.at \in 1..(i - 1) /\ state.at + TickRun(s, state.at) <= i - 1
      BY <2>4 DEF Sane, Closing
    <3>2. new.width = 0 /\ new.closed = state.closed \cup {<<state.at, i + 1>>}
      BY <2>4
    <3>3. ASSUME NEW c \in new.closed
          PROVE  c[1] \in 1..i /\ c[2] <= i + 1 /\ c[1] + TickRun(s, c[1]) < c[2]
      <4>1. CASE c \in state.closed
        BY <4>1, <1>2 DEF Sane
      <4>2. CASE c = <<state.at, i + 1>>
        <5>1. c[1] = state.at /\ c[2] = i + 1
          BY <4>2
        <5>2. state.at \in 1..i /\ TickRun(s, state.at) \in Nat
          <6>1. state.at \in 1..(Len(s) + 1)
            BY <3>1
          <6> QED BY <3>1, <6>1, RunOf
        <5> QED BY <3>1, <5>1, <5>2
      <4> QED BY <3>2, <4>1, <4>2
    <3>4. Sane(s, i, new)
      BY <3>2, <3>3 DEF Sane
    <3> QED BY <3>2, <3>4 DEF new
  <2>5. CASE Opening(s, state, l, i) /\ new = [width |-> TickRun(s, l), at |-> l, closed |-> state.closed]
    <3>1. TickRun(s, l) >= 3
      BY <2>5 DEF Opening
    <3>2. new.width = TickRun(s, l) /\ new.at = l /\ new.closed = state.closed
      BY <2>5
    <3>3. \A c \in new.closed : c[1] \in 1..i /\ c[2] <= i + 1 /\ c[1] + TickRun(s, c[1]) < c[2]
      BY <1>2, <3>2 DEF Sane
    <3>4. Sane(s, i, new)
      BY <3>1, <3>2, <3>3, <1>1, <2>3 DEF Sane
    <3> QED BY <3>2, <3>4 DEF new
  <2>6. CASE new = state
    BY <2>6, <1>2 DEF new
  <2> QED BY <1>1, <1>4, <2>1, <2>4, <2>5, <2>6, Visited
<1> QED BY <1>3, <1>4

LEMMA AlwaysSane ==
  ASSUME NEW s \in Seq(Symbol)
  PROVE  \A i \in 0..(Len(s) + 1) : Sane(s, i, FencesOf(s)[i])
<1> DEFINE f == FencesOf(s)
           n == Len(s) + 1
           P == {i \in 0..n : Sane(s, i, f[i])}
<1>1. n \in Nat /\ f[0] = NoFence /\ \A i \in 1..n : f[i] = After(s, f[i - 1], i) /\ f[i - 1] \in FenceState
  <2>1. \A i \in 1..n : i - 1 \in 0..n
    OBVIOUS
  <2> QED BY <2>1, FencesWalk
<1> HIDE DEF f
<1>2. 0 \in P
  <2>1. Sane(s, 0, NoFence)
    BY DEF Sane, NoFence
  <2> QED BY <2>1, <1>1
<1>3. ASSUME NEW i \in 1..n, i - 1 \in P PROVE i \in P
  <2>1. Sane(s, i - 1, f[i - 1]) /\ i \in 0..n
    BY <1>3
  <2>2. Sane(s, i, After(s, f[i - 1], i))
    BY <2>1, <1>1, SaneAfter
  <2> QED BY <2>1, <2>2, <1>1
<1> HIDE DEF P
<1>4. \A i \in 0..n : i \in P
  BY <1>1, <1>2, <1>3, UpTo
<1> QED BY <1>4 DEF P, f

LEMMA ClosedStays ==
  ASSUME NEW s \in Seq(Symbol), NEW a \in 0..(Len(s) + 1), NEW b \in a..(Len(s) + 1)
  PROVE  FencesOf(s)[a].closed \subseteq FencesOf(s)[b].closed
<1> DEFINE f == FencesOf(s)
           m == b - a
           P == {i \in 0..m : f[a].closed \subseteq f[a + i].closed}
<1>1. m \in Nat /\ a + m = b /\ a \in Nat
  OBVIOUS
<1>2. ASSUME NEW i \in 1..(Len(s) + 1) PROVE f[i - 1].closed \subseteq f[i].closed
  <2>1. i - 1 \in 0..(Len(s) + 1)
    OBVIOUS
  <2>2. f[i - 1] \in FenceState /\ f[i] = After(s, f[i - 1], i) /\ Sane(s, i - 1, f[i - 1])
    BY <2>1, FencesWalk, AlwaysSane
  <2> QED BY <2>2, SaneAfter
<1> HIDE DEF f
<1>3. 0 \in P
  BY <1>1
<1>4. ASSUME NEW i \in 1..m, i - 1 \in P PROVE i \in P
  <2>1. a + i \in 1..(Len(s) + 1) /\ (a + i) - 1 = a + (i - 1) /\ i \in 0..m
    BY <1>1
  <2>2. f[a + (i - 1)].closed \subseteq f[a + i].closed
    BY <2>1, <1>2
  <2>3. f[a].closed \subseteq f[a + (i - 1)].closed
    BY <1>4
  <2> QED BY <2>1, <2>2, <2>3
<1> HIDE DEF P, m
<1>5. m \in P
  <2>1. \A i \in 0..m : i \in P
    BY <1>1, <1>3, <1>4, UpTo
  <2>2. m \in 0..m
    BY <1>1
  <2> QED BY <2>1, <2>2
<1> QED BY <1>1, <1>5 DEF P, f

(* A line that begins with no backtick changes nothing.                    *)
LEMMA PlainLine ==
  ASSUME NEW s \in Seq(Symbol), NEW state \in FenceState, NEW i \in 1..(Len(s) + 1), EndsAt(s, i),
         NEW l \in 1..i, StartsAt(s, i, l), l = i \/ s[l] # "t"
  PROVE  After(s, state, i) = state
<1>1. LineStart(s, i) = l
  BY LineStartUnique
<1>2. RunIs(s, l, 0)
  <2>1. l \in 1..Len(s) => s[l] # "t"
    BY DEF EndsAt
  <2> QED BY <2>1 DEF RunIs
<1>3. TickRun(s, l) = 0
  <2>1. l \in 1..(Len(s) + 1) /\ l \in Nat \ {0}
    OBVIOUS
  <2>2. TickRun(s, l) \in Nat /\ RunIs(s, l, TickRun(s, l))
    BY <2>1, RunOf
  <2> QED BY <2>1, <2>2, <1>2, RunUnique
<1>4. state.width \in Nat
  BY DEF FenceState
<1>5. ~Closing(s, state, l, i) /\ ~Opening(s, state, l, i)
  BY <1>3, <1>4 DEF Closing, Opening
<1>6. Visit(s, state, <<l, i>>) = state
  BY <1>5, Visited
<1> QED BY <1>1, <1>6 DEF After
-----------------------------------------------------------------------------
(* Code spans: none begins inside another. *)
Found == [after : Nat, spans : SUBSET (Nat \X Nat)]
Apart(l, e, i, found) ==
  /\ \A p \in found.spans : l <= p[1] /\ p[1] < i /\ p[1] < p[2] /\ p[2] <= e /\ p[2] <= found.after
  /\ \A p, q \in found.spans : ~(q[1] < p[1] /\ p[1] < q[2])

LEMMA LeastOf ==
  ASSUME NEW T \in SUBSET Nat, T # {}
  PROVE  Min(T) \in T
<1>1. \E x \in T : \A y \in T : x <= y
  BY FirstOf, Zenon
<1>2. Min(T) = CHOOSE x \in T : \A y \in T : x <= y
  BY DEF Min
<1> QED BY <1>1, <1>2

LEMMA PairKeeps ==
  ASSUME NEW s \in Seq(Symbol), NEW e \in 1..(Len(s) + 1), EndsAt(s, e), NEW l \in 1..e,
         NEW i \in l..(e - 1), NEW found \in Found, Apart(l, e, i, found)
  PROVE  /\ Pair(s, <<l, e>>, found, i) \in Found
         /\ Apart(l, e, i + 1, Pair(s, <<l, e>>, found, i))
<1> DEFINE line == <<l, e>>
           new == Pair(s, line, found, i)
           width == TickRun(s, i)
           closers == {j \in RunStarts(s, line) : j >= i + width /\ TickRun(s, j) = width}
           c == Min(closers)
           paired == [after |-> c + width, spans |-> found.spans \cup {<<i, c + width>>}]
<1>1. i \in 1..Len(s) /\ i \in 1..(Len(s) + 1) /\ l \in Nat /\ e \in Nat
  OBVIOUS
<1>2. width \in Nat /\ RunIs(s, i, width)
  BY <1>1, RunOf
<1>3. found.after \in Nat /\ found.spans \in SUBSET (Nat \X Nat)
  BY DEF Found
<1>4. RunStarts(s, line) \subseteq l..(e - 1) /\ (i \in RunStarts(s, line) => s[i] = "t")
  BY DEF RunStarts
<1>5. new = IF i \notin RunStarts(s, line) \/ i < found.after \/ closers = {} THEN found ELSE paired
  BY Zenon DEF Pair
<1>6. Apart(l, e, i + 1, found)
  <2>1. \A p \in found.spans : p[1] < i => p[1] < i + 1
    BY <1>3, <1>1
  <2> QED BY <2>1 DEF Apart
<1>7. CASE i \notin RunStarts(s, line) \/ i < found.after \/ closers = {}
  BY <1>5, <1>6, <1>7
<1>8. CASE ~(i \notin RunStarts(s, line) \/ i < found.after \/ closers = {})
  <2>1. closers \in SUBSET Nat /\ closers # {}
    BY <1>4, <1>8
  <2>2. c \in closers
    BY <2>1, LeastOf
  <2>3. c \in l..(e - 1) /\ c >= i + width /\ TickRun(s, c) = width
    BY <2>2, <1>4
  <2>4. c + width <= e /\ c \in Nat
    <3>1. c \in 1..e
      BY <2>3
    <3> QED BY <3>1, <2>3, RunIn
  <2>5. width # 0
    BY <1>1, <1>2, <1>4, <1>8 DEF RunIs
  <2>6. new = paired
    BY <1>5, <1>8
  <2>7. i >= found.after /\ i \in Nat
    BY <1>8, <1>3, <1>1
  <2> HIDE DEF c, width, new, closers
  <2> DEFINE z == c + width
  <2>8. z \in Nat /\ i < z /\ z <= e
    BY <2>3, <2>4, <2>5, <2>7, <1>2
  <2>9. new = [after |-> z, spans |-> found.spans \cup {<<i, z>>}]
    BY <2>6
  <2> HIDE DEF z
  <2>10. new \in Found
    BY <2>7, <2>8, <2>9, <1>3 DEF Found
  <2>11. new.after = z /\ new.spans = found.spans \cup {<<i, z>>}
    BY <2>9
  <2>12. \A p \in found.spans : p[1] \in Nat /\ p[2] \in Nat /\ l <= p[1] /\ p[1] < i /\ p[1] < p[2] /\ p[2] <= e /\ p[2] <= i
    <3> TAKE p \in found.spans
    <3>1. p[1] \in Nat /\ p[2] \in Nat
      BY <1>3
    <3>2. l <= p[1] /\ p[1] < i /\ p[1] < p[2] /\ p[2] <= e /\ p[2] <= found.after
      BY DEF Apart
    <3> QED BY <3>1, <3>2, <2>7, <1>3
  <2>13. ASSUME NEW p \in new.spans
         PROVE  l <= p[1] /\ p[1] < i + 1 /\ p[1] < p[2] /\ p[2] <= e /\ p[2] <= new.after
    <3>1. CASE p \in found.spans
      BY <3>1, <2>7, <2>8, <2>11, <2>12
    <3>2. CASE p = <<i, z>>
      <4>1. p[1] = i /\ p[2] = z
        BY <3>2
      <4> QED BY <4>1, <2>7, <2>8, <2>11, <1>1
    <3> QED BY <2>11, <3>1, <3>2
  <2>14. ASSUME NEW p \in new.spans, NEW q \in new.spans PROVE ~(q[1] < p[1] /\ p[1] < q[2])
    <3>1. CASE p \in found.spans /\ q \in found.spans
      BY <3>1 DEF Apart
    <3>2. CASE p \in found.spans /\ q = <<i, z>>
      <4>1. q[1] = i
        BY <3>2
      <4> QED BY <3>2, <4>1, <2>12, <2>7
    <3>3. CASE p = <<i, z>> /\ q \in found.spans
      <4>1. p[1] = i
        BY <3>3
      <4> QED BY <3>3, <4>1, <2>12, <2>7
    <3>4. CASE p = <<i, z>> /\ q = <<i, z>>
      <4>1. p[1] = i /\ q[1] = i
        BY <3>4
      <4> QED BY <4>1, <2>7
    <3> QED BY <2>11, <3>1, <3>2, <3>3, <3>4
  <2>15. Apart(l, e, i + 1, new)
    BY <2>13, <2>14 DEF Apart
  <2> QED BY <2>10, <2>15 DEF new
<1> QED BY <1>7, <1>8

LEMMA SpansOfLine ==
  ASSUME NEW s \in Seq(Symbol), NEW e \in 1..(Len(s) + 1), EndsAt(s, e), NEW l \in 1..e
  PROVE  /\ SpansIn(s, <<l, e>>) \in SUBSET (Nat \X Nat)
         /\ \A p \in SpansIn(s, <<l, e>>) : l <= p[1] /\ p[1] < p[2] /\ p[2] <= e
         /\ \A p, q \in SpansIn(s, <<l, e>>) : ~(q[1] < p[1] /\ p[1] < q[2])
<1> DEFINE n == e - l
           line == <<l, e>>
           none == [after |-> 1, spans |-> {}]
           Good(k, x) == x \in Found /\ Apart(l, e, l + k, x)
           step == [x \in (1..n) \X Found |->
                      IF Good(x[1] - 1, x[2]) THEN Pair(s, line, x[2], l + x[1] - 1) ELSE none]
           By(z) == z = [k \in 0..n |-> IF k = 0 THEN none ELSE Pair(s, line, z[k - 1], l + k - 1)]
<1>1. n \in Nat /\ l \in Nat /\ e \in Nat /\ l + n = e
  OBVIOUS
<1>2. Good(0, none) /\ none \in Found
  BY DEF Found, Apart
<1>3. ASSUME NEW k \in 1..n, NEW x, Good(k - 1, x)
      PROVE  Good(k, Pair(s, line, x, l + k - 1))
  <2> DEFINE i == l + k - 1
  <2>1. i \in l..(e - 1) /\ l + (k - 1) = i /\ l + k = i + 1
    OBVIOUS
  <2> HIDE DEF i
  <2>2. x \in Found /\ Apart(l, e, i, x)
    BY <1>3, <2>1
  <2>3. Pair(s, line, x, i) \in Found /\ Apart(l, e, i + 1, Pair(s, line, x, i))
    BY <2>1, <2>2, PairKeeps
  <2> QED BY <2>1, <2>3 DEF i
<1>4. step \in [(1..n) \X Found -> Found]
  <2>1. ASSUME NEW x \in (1..n) \X Found
        PROVE  (IF Good(x[1] - 1, x[2]) THEN Pair(s, line, x[2], l + x[1] - 1) ELSE none) \in Found
    <3>1. x[1] \in 1..n
      OBVIOUS
    <3>2. CASE Good(x[1] - 1, x[2])
      <4>1. Good(x[1], Pair(s, line, x[2], l + x[1] - 1))
        BY <3>1, <3>2, <1>3
      <4> QED BY <3>2, <4>1
    <3>3. CASE ~Good(x[1] - 1, x[2])
      BY <3>3, <1>2
    <3> QED BY <3>2, <3>3
  <2> QED BY <2>1
<1>5. \A k \in 1..n : \A x \in Found : Good(k - 1, x) => step[<<k, x>>] = Pair(s, line, x, l + k - 1)
  OBVIOUS
<1> HIDE DEF step, none
<1>6. PICK f : Stepwise(n, Found, none, step, f)
  BY <1>1, <1>2, <1>4, StepwiseExists, Zenon
<1>7. f \in [0..n -> Found] /\ f[0] = none /\ \A k \in 1..n : f[k] = step[<<k, f[k - 1]>>]
  BY <1>6 DEF Stepwise
<1> HIDE DEF n, Good
<1> DEFINE P == {k \in 0..n : Good(k, f[k])}
<1>8. 0 \in P
  BY <1>1, <1>2, <1>7
<1>9. ASSUME NEW k \in 1..n, Good(k - 1, f[k - 1])
      PROVE  f[k] = Pair(s, line, f[k - 1], l + k - 1)
  <2>1. f[k - 1] \in Found
    BY <1>9 DEF Good
  <2> QED BY <2>1, <1>5, <1>7, <1>9
<1>10. ASSUME NEW k \in 1..n, k - 1 \in P PROVE k \in P
  <2>1. Good(k - 1, f[k - 1]) /\ k \in 0..n
    BY <1>10, <1>1
  <2>2. Good(k, f[k])
    BY <2>1, <1>3, <1>9
  <2> QED BY <2>1, <2>2
<1> HIDE DEF P
<1>11. \A k \in 0..n : k \in P
  BY <1>1, <1>8, <1>10, UpTo
<1>12. ASSUME NEW k \in 0..n PROVE f[k] = IF k = 0 THEN none ELSE Pair(s, line, f[k - 1], l + k - 1)
  <2>1. k # 0 => k \in 1..n /\ k - 1 \in 0..n
    BY <1>1
  <2>2. k # 0 => Good(k - 1, f[k - 1])
    BY <2>1, <1>11 DEF P
  <2> QED BY <2>1, <2>2, <1>7, <1>9
<1>13. By(f)
  BY <1>7, <1>12
<1> DEFINE z == CHOOSE z : By(z)
<1>14. SpansIn(s, line) = z[n].spans
  <2>1. line[1] = l /\ line[2] = e
    OBVIOUS
  <2> HIDE DEF line
  <2> QED BY <2>1, Zenon DEF SpansIn, none, n
<1>15. By(z)
  BY <1>13
<1> HIDE DEF z
<1>16. \A k \in 0..n : z[k] = IF k = 0 THEN none ELSE Pair(s, line, z[k - 1], l + k - 1)
  BY <1>15
<1> HIDE DEF By
<1> DEFINE Q == {k \in 0..n : Good(k, z[k])}
<1>17. 0 \in Q
  BY <1>1, <1>2, <1>16 DEF Good, none
<1>18. ASSUME NEW k \in 1..n, k - 1 \in Q PROVE k \in Q
  <2>1. Good(k - 1, z[k - 1]) /\ k \in 0..n /\ k # 0
    BY <1>18, <1>1
  <2>2. Good(k, Pair(s, line, z[k - 1], l + k - 1))
    BY <2>1, <1>3
  <2> QED BY <2>1, <2>2, <1>16
<1> HIDE DEF Q
<1>19. \A k \in 0..n : k \in Q
  BY <1>1, <1>17, <1>18, UpTo
<1>20. Good(n, z[n])
  <2>1. n \in 0..n
    BY <1>1
  <2> QED BY <1>19, <2>1 DEF Q
<1>21. z[n] \in Found /\ Apart(l, e, l + n, z[n])
  BY <1>20 DEF Good
<1> QED BY <1>14, <1>21 DEF Found, Apart

LEMMA SpansApart ==
  ASSUME NEW s \in Seq(Symbol)
  PROVE  /\ CodeSpans(s) \in SUBSET (Nat \X Nat)
         /\ \A p \in CodeSpans(s) : 1 <= p[1]
         /\ \A p, q \in CodeSpans(s) : ~(q[1] < p[1] /\ p[1] < q[2])
<1>1. ASSUME NEW p \in CodeSpans(s)
      PROVE  \E e \in 1..(Len(s) + 1) : EndsAt(s, e) /\ p \in SpansIn(s, <<LineStart(s, e), e>>)
  BY DEF CodeSpans, LinesOf
<1>2. ASSUME NEW e \in 1..(Len(s) + 1), EndsAt(s, e), NEW p \in SpansIn(s, <<LineStart(s, e), e>>)
      PROVE  /\ p \in Nat \X Nat /\ LineStart(s, e) \in 1..e
             /\ LineStart(s, e) <= p[1] /\ p[1] < p[2] /\ p[2] <= e
             /\ \A q \in SpansIn(s, <<LineStart(s, e), e>>) : ~(q[1] < p[1] /\ p[1] < q[2])
  <2> DEFINE l == LineStart(s, e)
  <2>1. l \in 1..e
    BY LineStartIs DEF StartsAt
  <2> HIDE DEF l
  <2>2. /\ SpansIn(s, <<l, e>>) \in SUBSET (Nat \X Nat)
        /\ \A x \in SpansIn(s, <<l, e>>) : l <= x[1] /\ x[1] < x[2] /\ x[2] <= e
        /\ \A x, y \in SpansIn(s, <<l, e>>) : ~(y[1] < x[1] /\ x[1] < y[2])
    BY <1>2, <2>1, SpansOfLine
  <2>3. p \in SpansIn(s, <<l, e>>)
    BY DEF l
  <2> QED BY <2>1, <2>2, <2>3 DEF l
<1>3. ASSUME NEW p \in CodeSpans(s) PROVE p \in Nat \X Nat /\ 1 <= p[1]
  <2>1. PICK e \in 1..(Len(s) + 1) : EndsAt(s, e) /\ p \in SpansIn(s, <<LineStart(s, e), e>>)
    BY <1>1
  <2>2. p \in Nat \X Nat /\ LineStart(s, e) \in 1..e /\ LineStart(s, e) <= p[1]
    BY <2>1, <1>2
  <2>3. p[1] \in Nat
    BY <2>2
  <2> QED BY <2>2, <2>3
(* A later line begins after an earlier one ends. *)
<1>4. ASSUME NEW a \in 1..(Len(s) + 1), NEW b \in 1..(Len(s) + 1), EndsAt(s, a), a < b
      PROVE  a < LineStart(s, b)
  <2>1. s[a] = "n"
    BY <1>4 DEF EndsAt
  <2>2. LineStart(s, b) \in 1..b /\ \A j \in LineStart(s, b)..(b - 1) : s[j] # "n"
    BY LineStartIs DEF StartsAt
  <2>3. ~(a \in LineStart(s, b)..(b - 1))
    BY <2>1, <2>2
  <2> QED BY <2>2, <2>3, <1>4
<1>5. ASSUME NEW p \in CodeSpans(s), NEW q \in CodeSpans(s) PROVE ~(q[1] < p[1] /\ p[1] < q[2])
  <2>1. PICK a \in 1..(Len(s) + 1) : EndsAt(s, a) /\ p \in SpansIn(s, <<LineStart(s, a), a>>)
    BY <1>1
  <2>2. PICK b \in 1..(Len(s) + 1) : EndsAt(s, b) /\ q \in SpansIn(s, <<LineStart(s, b), b>>)
    BY <1>1
  <2>3. p[1] \in Nat /\ p[2] \in Nat /\ q[1] \in Nat /\ q[2] \in Nat
    BY <1>3
  <2> DEFINE la == LineStart(s, a)
             lb == LineStart(s, b)
  <2>4. la \in 1..a /\ la <= p[1] /\ p[1] < p[2] /\ p[2] <= a
    BY <2>1, <1>2
  <2>5. lb \in 1..b /\ lb <= q[1] /\ q[1] < q[2] /\ q[2] <= b
    BY <2>2, <1>2
  <2>6. CASE a = b
    BY <2>1, <2>2, <2>6, <1>2
  <2>7. CASE a < b
    <3>1. a < lb
      BY <2>1, <2>7, <1>4
    <3> HIDE DEF la, lb
    <3> QED BY <3>1, <2>3, <2>4, <2>5
  <2>8. CASE b < a
    <3>1. b < la
      BY <2>2, <2>8, <1>4
    <3> HIDE DEF la, lb
    <3> QED BY <3>1, <2>3, <2>4, <2>5
  <2> QED BY <2>6, <2>7, <2>8
<1> QED BY <1>3, <1>5

WholeAt(n) == \A p \in CodeSpans(markdown) : ~(p[1] - 1 < n /\ n < p[2] - 1)

LEMMA RetreatWhole ==
  ASSUME NEW n \in Nat, markdown \in Seq(Symbol)
  PROVE  RetreatInsideSpan(n) \in 0..n /\ WholeAt(RetreatInsideSpan(n))
<1> DEFINE around == {p \in CodeSpans(markdown) : p[1] - 1 < n /\ n < p[2] - 1}
           p == CHOOSE p \in around : TRUE
<1>1. CASE around = {}
  <2>1. RetreatInsideSpan(n) = n
    BY <1>1 DEF RetreatInsideSpan
  <2>2. WholeAt(n)
    BY <1>1 DEF WholeAt
  <2> QED BY <2>1, <2>2
<1>2. CASE around # {}
  <2>1. RetreatInsideSpan(n) = p[1] - 1 /\ p \in around
    BY <1>2 DEF RetreatInsideSpan
  <2> HIDE DEF p
  <2>2. CodeSpans(markdown) \in SUBSET (Nat \X Nat) /\ (\A x \in CodeSpans(markdown) : 1 <= x[1])
    BY SpansApart
  <2>3. p[1] \in Nat /\ 1 <= p[1] /\ p[1] - 1 < n
    BY <2>1, <2>2
  <2>4. ASSUME NEW q \in CodeSpans(markdown) PROVE ~(q[1] - 1 < p[1] - 1 /\ p[1] - 1 < q[2] - 1)
    <3>1. ~(q[1] < p[1] /\ p[1] < q[2])
      BY <2>1, SpansApart
    <3>2. q[1] \in Nat /\ q[2] \in Nat
      BY <2>2
    <3> QED BY <3>1, <3>2, <2>3
  <2>5. WholeAt(p[1] - 1)
    BY <2>4 DEF WholeAt
  <2> QED BY <2>1, <2>3, <2>5
<1> QED BY <1>1, <1>2
-----------------------------------------------------------------------------
(* What is kept. *)
Body == markdown \in Seq(Symbol) /\ cut \in 0..Len(markdown)
Prefix == Upto(markdown, cut)
PrefixFence == OpenFence(Prefix)

LEMMA PrefixIs ==
  ASSUME Body
  PROVE  /\ Prefix \in Seq(Symbol) /\ Len(Prefix) = cut /\ cut \in Nat
         /\ \A j \in 1..cut : Prefix[j] = markdown[j]
         /\ PrefixFence = FencesOf(Prefix)[cut + 1] /\ PrefixFence \in FenceState
<1>1. markdown \in Seq(Symbol) /\ cut \in 0..Len(markdown) /\ cut \in Nat
  BY DEF Body
<1>2. Prefix \in Seq(Symbol) /\ Len(Prefix) = cut /\ \A j \in 1..cut : Prefix[j] = markdown[j]
  <2>1. Prefix = SubSeq(markdown, 1, cut)
    BY DEF Prefix, Upto
  <2>2. \A j \in 1..cut : j \in 1..Len(markdown)
    BY <1>1
  <2> QED BY <1>1, <2>1, <2>2
<1>3. cut + 1 \in 0..(Len(Prefix) + 1) /\ PrefixFence = FencesOf(Prefix)[cut + 1]
  BY <1>1, <1>2 DEF PrefixFence, OpenFence
<1>4. PrefixFence \in FenceState
  BY <1>2, <1>3, FencesWalk
<1> QED BY <1>1, <1>2, <1>3, <1>4

Joins(a, b, c, m, n) ==
  /\ c \in Seq(Symbol) /\ Len(c) = m + n
  /\ \A j \in 1..m : c[j] = a[j]
  /\ \A j \in (m + 1)..(m + n) : c[j] = b[j - m]

LEMMA Concatenated ==
  ASSUME NEW a \in Seq(Symbol), NEW b \in Seq(Symbol)
  PROVE  Joins(a, b, a \o b, Len(a), Len(b))
BY DEF Joins

(* What is kept: the prefix, at most one line end, and the closer.           *)
KeptAs(b, w) ==
  /\ b \in {cut, cut + 1} /\ w = PrefixFence.width
  /\ Kept \in Seq(Symbol) /\ Len(Kept) = b + w
  /\ \A j \in 1..cut : Kept[j] = Prefix[j]
  /\ b = cut + 1 => Kept[cut + 1] = "n"
  /\ \A j \in (b + 1)..(b + w) : Kept[j] = "t"
  /\ w = 0 => b = cut
  /\ w > 0 /\ b = cut => cut > 0 /\ Prefix[cut] = "n"

LEMMA KeptIs ==
  ASSUME Body
  PROVE  \E b \in {cut, cut + 1} : KeptAs(b, PrefixFence.width)
<1> DEFINE w == PrefixFence.width
           ticks == [i \in 1..w |-> "t"]
<1>1. /\ Prefix \in Seq(Symbol) /\ Len(Prefix) = cut /\ cut \in Nat /\ w \in Nat
      /\ \A j \in 1..cut : Prefix[j] = markdown[j]
  BY PrefixIs DEF FenceState
<1>2. ticks \in Seq(Symbol) /\ Len(ticks) = w /\ \A j \in 1..w : ticks[j] = "t"
  <2> HIDE DEF w
  <2> QED BY <1>1 DEF Symbol
<1>3. Closer = IF w = 0 THEN <<>> ELSE Separator \o ticks
  BY DEF Closer, PrefixFence, Prefix
<1>4. Kept = Prefix \o Closer
  BY DEF Kept, Prefix
<1> HIDE DEF w, ticks
<1>5. CASE w = 0
  <2>1. Kept = Prefix
    BY <1>1, <1>3, <1>4, <1>5
  <2>2. KeptAs(cut, w)
    BY <1>1, <1>5, <2>1 DEF KeptAs, w
  <2> QED BY <2>2 DEF w
<1>6. CASE w # 0 /\ EndsLine(cut)
  <2>1. cut > 0 /\ Prefix[cut] = "n"
    BY <1>1, <1>6 DEF EndsLine
  <2>2. Kept = Prefix \o ticks
    <3>1. Separator = <<>>
      BY <1>6 DEF Separator
    <3> QED BY <1>2, <1>3, <1>4, <1>6, <3>1
  <2>3. /\ Kept \in Seq(Symbol) /\ Len(Kept) = cut + w
        /\ \A j \in 1..cut : Kept[j] = Prefix[j]
        /\ \A j \in (cut + 1)..(cut + w) : Kept[j] = "t"
    <3>1. \A j \in (cut + 1)..(cut + w) : j - cut \in 1..w
      BY <1>1
    <3>2. /\ Kept \in Seq(Symbol) /\ Len(Kept) = cut + w
          /\ \A j \in 1..cut : Kept[j] = Prefix[j]
          /\ \A j \in (cut + 1)..(cut + w) : Kept[j] = ticks[j - cut]
      <4>1. Joins(Prefix, ticks, Kept, cut, w)
        BY <1>1, <1>2, <2>2, Concatenated
      <4> QED BY <4>1 DEF Joins
    <3> QED BY <1>2, <3>1, <3>2
  <2>4. KeptAs(cut, w)
    BY <1>1, <1>6, <2>1, <2>3 DEF KeptAs, w
  <2> QED BY <2>4 DEF w
<1>7. CASE w # 0 /\ ~EndsLine(cut)
  <2>1. Separator = <<"n">> /\ "n" \in Symbol
    BY <1>7 DEF Separator, Symbol
  <2> DEFINE sep == <<"n">>
             tail == sep \o ticks
             b == cut + 1
  <2>2. /\ tail \in Seq(Symbol) /\ Len(tail) = 1 + w /\ tail[1] = "n"
        /\ \A j \in 2..(1 + w) : tail[j] = "t"
    <3>1. sep \in Seq(Symbol) /\ Len(sep) = 1 /\ sep[1] = "n"
      BY <2>1
    <3>2. \A j \in 2..(1 + w) : j - 1 \in 1..w
      BY <1>1
    <3> HIDE DEF sep
    <3>3. /\ tail \in Seq(Symbol) /\ Len(tail) = 1 + w
          /\ \A j \in 1..1 : tail[j] = sep[j]
          /\ \A j \in 2..(1 + w) : tail[j] = ticks[j - 1]
      <4>1. tail = sep \o ticks
        OBVIOUS
      <4> HIDE DEF tail
      <4>2. Joins(sep, ticks, tail, 1, w)
        BY <1>2, <3>1, <4>1, Concatenated
      <4> QED BY <4>2 DEF Joins
    <3> HIDE DEF tail
    <3> QED BY <1>2, <3>1, <3>2, <3>3
  <2>3. Kept = Prefix \o tail
    BY <1>3, <1>4, <1>7, <2>1
  <2> HIDE DEF tail
  <2>4. /\ Kept \in Seq(Symbol) /\ Len(Kept) = b + w
        /\ \A j \in 1..cut : Kept[j] = Prefix[j]
        /\ Kept[cut + 1] = "n"
        /\ \A j \in (b + 1)..(b + w) : Kept[j] = "t"
    <3>1. \A j \in (b + 1)..(b + w) : j \in (cut + 1)..(cut + (1 + w)) /\ j - cut \in 2..(1 + w)
      BY <1>1
    <3>2. /\ Kept \in Seq(Symbol) /\ Len(Kept) = cut + (1 + w)
          /\ \A j \in 1..cut : Kept[j] = Prefix[j]
          /\ \A j \in (cut + 1)..(cut + (1 + w)) : Kept[j] = tail[j - cut]
      <4>1. Joins(Prefix, tail, Kept, cut, 1 + w)
        BY <1>1, <2>2, <2>3, Concatenated
      <4> QED BY <4>1 DEF Joins
    <3>3. cut + (1 + w) = b + w /\ cut + 1 \in (cut + 1)..(cut + (1 + w)) /\ (cut + 1) - cut = 1
      BY <1>1
    <3>4. Kept[cut + 1] = "n"
      BY <2>2, <3>2, <3>3
    <3>5. \A j \in (b + 1)..(b + w) : Kept[j] = "t"
      BY <2>2, <3>1, <3>2
    <3> QED BY <3>2, <3>3, <3>4, <3>5
  <2>5. KeptAs(b, w)
    BY <1>1, <1>7, <2>4 DEF KeptAs, w
  <2> QED BY <2>5 DEF w
<1> QED BY <1>5, <1>6, <1>7

(* A text that goes on after what is kept is outside every fence there.    *)
LEMMA KeptState ==
  ASSUME Body, NEW t \in Seq(Symbol), NEW k \in Nat, k = Len(Kept) + 1, k <= Len(t),
         \A j \in 1..Len(Kept) : t[j] = Kept[j], t[k] = "n"
  PROVE  /\ Kept \in Seq(Symbol) /\ FencesOf(t)[k] \in FenceState /\ FencesOf(t)[k].width = 0
         /\ \/ /\ PrefixFence.width = 0 /\ k = cut + 1
               /\ FencesOf(t)[k] = PrefixFence
            \/ /\ PrefixFence.width > 0
               /\ FencesOf(t)[k].closed = PrefixFence.closed \cup {<<PrefixFence.at, k + 1>>}
               /\ TickRun(t, PrefixFence.at) = PrefixFence.width
               /\ t[PrefixFence.at + PrefixFence.width] = "s" => PrefixFence.at + PrefixFence.width <= cut
         /\ cut <= Len(Kept) /\ \A j \in 1..cut : t[j] = Prefix[j]
<1> DEFINE st == PrefixFence
           w == st.width
           f == FencesOf(t)
<1>1. /\ Prefix \in Seq(Symbol) /\ Len(Prefix) = cut /\ cut \in Nat
      /\ st = FencesOf(Prefix)[cut + 1] /\ st \in FenceState
  BY PrefixIs
<1>2. w \in Nat /\ st.at \in Nat
  BY <1>1 DEF FenceState
<1>3. PICK b \in {cut, cut + 1} : KeptAs(b, w)
  BY KeptIs
<1> HIDE DEF st, w, f
<1>4. /\ Kept \in Seq(Symbol) /\ Len(Kept) = b + w /\ b \in Nat /\ k = b + w + 1
      /\ \A j \in 1..cut : Kept[j] = Prefix[j]
      /\ b = cut + 1 => Kept[cut + 1] = "n"
      /\ \A j \in (b + 1)..(b + w) : Kept[j] = "t"
      /\ w = 0 => b = cut
      /\ (w > 0 /\ b = cut) => (cut > 0 /\ Prefix[cut] = "n")
  BY <1>1, <1>2, <1>3 DEF KeptAs
<1>5. cut <= b /\ b <= k - 1 /\ k \in 1..Len(t) /\ cut <= Len(Kept)
  BY <1>1, <1>2, <1>3, <1>4
<1>6. \A j \in 1..cut : t[j] = Prefix[j]
  <2> TAKE j \in 1..cut
  <2>1. j \in 1..Len(Kept)
    BY <1>1, <1>5, <1>4, <1>2
  <2> QED BY <2>1, <1>4
<1>7. \A j \in (b + 1)..(b + w) : t[j] = "t"
  <2> TAKE j \in (b + 1)..(b + w)
  <2>1. j \in 1..Len(Kept)
    BY <1>4, <1>2
  <2> QED BY <2>1, <1>4
<1>8. EndsAt(t, k) /\ EndsAt(Prefix, cut + 1)
  BY <1>1 DEF EndsAt
<1>9. f[k] \in FenceState
  BY <1>5, FencesWalk DEF f
<1>10. CASE w = 0
  <2>1. k = cut + 1
    BY <1>4, <1>10, <1>1
  <2>2. f[k] = st
    <3>1. cut + 1 \in 1..(Len(Prefix) + 1) /\ cut + 1 \in 1..(Len(t) + 1) /\ (cut + 1) - 1 = cut
      BY <1>1, <1>5, <2>1
    <3>2. \A j \in 1..((cut + 1) - 1) : Prefix[j] = t[j]
      BY <1>6, <3>1
    <3>3. FencesOf(t)[cut + 1] = FencesOf(Prefix)[cut + 1]
      BY <1>1, <1>8, <2>1, <3>1, <3>2, SameToTheEnd
    <3> QED BY <3>3, <2>1, <1>1 DEF f
  <2> QED BY <2>1, <2>2, <1>4, <1>5, <1>6, <1>9, <1>10 DEF st, w, f
<1>11. CASE w # 0
  <2>1. w > 0
    BY <1>2, <1>11
  <2>2. f[b] = st /\ t[b] = "n" /\ b >= 1
    <3>1. CASE b = cut + 1
      <4>1. b \in 1..Len(Kept) /\ b \in 1..Len(t) /\ b - 1 = cut
        BY <3>1, <1>1, <1>2, <1>4, <1>5
      <4>2. t[b] = "n"
        BY <4>1, <3>1, <1>4
      <4>3. EndsAt(t, b)
        BY <4>2 DEF EndsAt
      <4>4. b \in 1..(Len(Prefix) + 1) /\ b \in 1..(Len(t) + 1) /\ EndsAt(Prefix, b)
        BY <4>1, <3>1, <1>1, <1>8
      <4>5. \A j \in 1..(b - 1) : Prefix[j] = t[j]
        BY <4>1, <1>6
      <4>6. FencesOf(t)[b] = FencesOf(Prefix)[b]
        BY <1>1, <4>3, <4>4, <4>5, SameToTheEnd
      <4> QED BY <4>1, <4>2, <4>6, <3>1, <1>1 DEF f
    <3>2. CASE b = cut
      <4>1. cut > 0 /\ Prefix[cut] = "n" /\ cut \in 1..cut
        BY <3>2, <2>1, <1>1, <1>4
      <4>2. t[cut] = "n" /\ cut <= Len(Prefix) /\ cut <= Len(t) /\ cut \in 0..cut
        BY <4>1, <1>1, <1>5, <1>6
      <4>3. \A j \in 1..cut : Prefix[j] = t[j]
        BY <1>6
      <4>4. FencesOf(t)[cut] = FencesOf(Prefix)[cut]
        BY <1>1, <4>2, <4>3, SamePrefix
      <4> DEFINE i == cut + 1
      <4>5. i \in 1..(Len(Prefix) + 1) /\ i \in 1..i /\ EndsAt(Prefix, i) /\ i - 1 = cut /\ cut \in 0..(Len(Prefix) + 1)
        BY <1>1, <1>8
      <4>6. StartsAt(Prefix, i, i)
        BY <4>1, <4>5, <1>1 DEF StartsAt
      <4>7. FencesOf(Prefix)[cut] \in FenceState /\ FencesOf(Prefix)[i] = After(Prefix, FencesOf(Prefix)[cut], i)
        BY <4>5, <1>1, FencesWalk
      <4>8. After(Prefix, FencesOf(Prefix)[cut], i) = FencesOf(Prefix)[cut]
        BY <4>5, <4>6, <4>7, <1>1, PlainLine
      <4> QED BY <3>2, <4>1, <4>2, <4>4, <4>7, <4>8, <1>1 DEF f
    <3> QED BY <3>1, <3>2
  <2>3. f[k - 1] = st
    <3>1. b \in 0..(Len(t) + 1) /\ k - 1 \in b..(Len(t) + 1) /\ k - 1 = b + w
      BY <1>4, <1>5, <1>2
    <3>2. \A j \in (b + 1)..(k - 1) : ~EndsAt(t, j)
      <4> TAKE j \in (b + 1)..(k - 1)
      <4>1. j \in (b + 1)..(b + w) /\ j # Len(t) + 1
        BY <3>1, <1>5
      <4> QED BY <4>1, <1>7 DEF EndsAt
    <3>3. FencesOf(t)[k - 1] = FencesOf(t)[b]
      BY <3>1, <3>2, Between
    <3> QED BY <3>3, <2>2 DEF f
  <2> DEFINE l == b + 1
  <2>4. l \in 1..k /\ l + w = k /\ l \in 1..(Len(t) + 1) /\ l \in Nat \ {0} /\ k \in 1..(Len(t) + 1)
    BY <1>2, <1>4, <1>5
  <2>5. StartsAt(t, k, l)
    <3>1. \A j \in l..(k - 1) : t[j] # "n"
      <4> TAKE j \in l..(k - 1)
      <4>1. j \in (b + 1)..(b + w)
        BY <1>4, <1>2
      <4> QED BY <4>1, <1>7
    <3>2. l - 1 = b
      BY <1>4
    <3> HIDE DEF l
    <3> QED BY <3>1, <3>2, <2>2, <2>4 DEF StartsAt
  <2>6. LineStart(t, k) = l
    BY <2>4, <2>5, LineStartUnique
  <2>7. TickRun(t, l) = w
    <3>1. \A j \in l..(l + w - 1) : j \in 1..Len(t) /\ t[j] = "t"
      <4> TAKE j \in l..(l + w - 1)
      <4>1. j \in (b + 1)..(b + w) /\ j \in 1..Len(t)
        BY <1>2, <1>4, <1>5
      <4> QED BY <4>1, <1>7
    <3>2. t[l + w] # "t"
      BY <2>4
    <3> HIDE DEF l
    <3>3. RunIs(t, l, w)
      BY <3>1, <3>2 DEF RunIs
    <3>4. TickRun(t, l) \in Nat /\ RunIs(t, l, TickRun(t, l))
      BY <2>4, RunOf
    <3> QED BY <3>3, <3>4, <2>4, <1>2, RunUnique
  <2> HIDE DEF l
  <2>8. Closing(t, st, l, k)
    <3>1. st.width > 0 /\ TickRun(t, l) >= st.width
      BY <2>1, <2>7, <1>2 DEF w
    <3> QED BY <3>1, <2>4, <2>7 DEF Closing
  <2>9. f[k] = [width |-> 0, at |-> 0, closed |-> st.closed \cup {<<st.at, k + 1>>}]
    <3>1. Visit(t, st, <<l, k>>) = [width |-> 0, at |-> 0, closed |-> st.closed \cup {<<st.at, k + 1>>}]
      BY <2>4, <2>8, <1>1, <1>8, Visited
    <3>2. f[k] = After(t, f[k - 1], k)
      BY <2>4, FencesWalk DEF f
    <3> QED BY <3>1, <3>2, <2>3, <2>6, <1>8 DEF After
  <2>10. TickRun(t, st.at) = w /\ st.at \in 1..(k - 1) /\ st.at + w <= k - 1
    <3>1. k - 1 \in 0..(Len(t) + 1)
      BY <1>5
    <3>2. Sane(t, k - 1, f[k - 1])
      BY <3>1, AlwaysSane DEF f
    <3> QED BY <3>2, <2>1, <2>3 DEF Sane, w
  <2>11. t[st.at + w] = "s" => st.at + w <= cut
    <3> SUFFICES ASSUME t[st.at + w] = "s", ~(st.at + w <= cut) PROVE FALSE
      OBVIOUS
    <3> DEFINE x == st.at + w
    <3>1. x \in Nat /\ x <= k - 1 /\ cut < x
      BY <2>10, <1>2, <1>1
    <3>2. ~(x \in (b + 1)..(b + w))
      BY <1>7
    <3> HIDE DEF x
    <3>3. x = cut + 1 /\ b = cut + 1
      BY <3>1, <3>2, <1>1, <1>2, <1>3, <1>4
    <3> QED BY <3>3, <2>2 DEF x
  <2> QED BY <2>1, <2>9, <2>10, <2>11, <1>4, <1>5, <1>6, <1>9 DEF st, w, f
<1> QED BY <1>10, <1>11
-----------------------------------------------------------------------------
(* What follows what is kept. *)
LEMMA EmptyLine ==
  ASSUME NEW t \in Seq(Symbol), NEW i \in 2..(Len(t) + 1), EndsAt(t, i), t[i - 1] = "n"
  PROVE  FencesOf(t)[i] = FencesOf(t)[i - 1]
<1>1. i \in 1..(Len(t) + 1) /\ i \in 1..i /\ i - 1 \in 0..(Len(t) + 1)
  OBVIOUS
<1>2. StartsAt(t, i, i)
  BY <1>1 DEF StartsAt
<1>3. FencesOf(t)[i - 1] \in FenceState /\ FencesOf(t)[i] = After(t, FencesOf(t)[i - 1], i)
  BY <1>1, FencesWalk
<1> QED BY <1>1, <1>2, <1>3, PlainLine

LEMMA NoticeOutside ==
  ASSUME Body
  PROVE  OpenFence(Kept \o <<"n", "n", "x">>).width = 0
<1> DEFINE notice == <<"n", "n", "x">>
           t == Kept \o notice
           n == Len(Kept)
           k == n + 1
           f == FencesOf(t)
<1>1. notice \in Seq(Symbol) /\ Len(notice) = 3 /\ notice[1] = "n" /\ notice[2] = "n" /\ notice[3] = "x"
  BY DEF Symbol
<1>2. Kept \in Seq(Symbol) /\ n \in Nat
  BY KeptIs DEF KeptAs
<1> HIDE DEF notice
<1>3. Joins(Kept, notice, t, n, 3)
  BY <1>1, <1>2, Concatenated
<1> HIDE DEF t, n, f
<1>4. t \in Seq(Symbol) /\ Len(t) = k + 2 /\ \A j \in 1..n : t[j] = Kept[j]
  BY <1>2, <1>3 DEF Joins
<1>5. t[k] = "n" /\ t[k + 1] = "n" /\ t[k + 2] = "x"
  <2>1. \A j \in {k, k + 1, k + 2} : t[j] = notice[j - n]
    <3>1. \A j \in {k, k + 1, k + 2} : j \in (n + 1)..(n + 3)
      BY <1>2
    <3> QED BY <1>3, <3>1 DEF Joins
  <2>2. k - n = 1 /\ (k + 1) - n = 2 /\ (k + 2) - n = 3
    BY <1>2
  <2> QED BY <1>1, <2>1, <2>2
<1>6. k \in Nat /\ k = Len(Kept) + 1 /\ k <= Len(t) /\ \A j \in 1..Len(Kept) : t[j] = Kept[j]
  BY <1>2, <1>4 DEF n
<1>7. f[k].width = 0
  BY <1>4, <1>5, <1>6, KeptState DEF f
<1>8. f[k + 1] = f[k]
  <2> DEFINE i == k + 1
  <2>1. i \in 2..(Len(t) + 1) /\ i - 1 = k /\ EndsAt(t, i)
    BY <1>2, <1>4, <1>5 DEF EndsAt
  <2>2. t[i - 1] = "n"
    BY <1>5, <2>1
  <2> HIDE DEF i
  <2>3. f[i] = f[i - 1]
    BY <2>1, <2>2, <1>4, EmptyLine DEF f
  <2> QED BY <2>1, <2>3 DEF i
<1>9. f[k + 2] = f[k + 1]
  <2>1. k + 2 \in 1..(Len(t) + 1) /\ (k + 2) - 1 = k + 1 /\ ~EndsAt(t, k + 2)
    BY <1>2, <1>4, <1>5 DEF EndsAt
  <2> QED BY <2>1, <1>4, FencesWalk DEF f, After
<1>10. f[k + 3] = f[k + 2]
  <2> DEFINE i == k + 3
             l == k + 2
  <2>1. i \in 1..(Len(t) + 1) /\ l \in 1..i /\ i - 1 = l /\ l - 1 = k + 1 /\ EndsAt(t, i) /\ l \in 0..(Len(t) + 1)
    BY <1>2, <1>4 DEF EndsAt
  <2>2. t[l] = "x" /\ t[l - 1] = "n"
    BY <2>1, <1>5
  <2> HIDE DEF i, l
  <2>3. StartsAt(t, i, l)
    BY <2>1, <2>2 DEF StartsAt
  <2>4. f[l] \in FenceState /\ f[i] = After(t, f[l], i)
    BY <2>1, <1>4, FencesWalk DEF f
  <2>5. After(t, f[l], i) = f[l]
    BY <2>1, <2>2, <2>3, <2>4, <1>4, PlainLine
  <2> QED BY <2>4, <2>5 DEF i, l
<1>11. OpenFence(t) = f[k + 3]
  <2>1. Len(t) + 1 = k + 3
    BY <1>4, <1>2
  <2> QED BY <2>1 DEF OpenFence, f
<1> QED BY <1>7, <1>8, <1>9, <1>10, <1>11 DEF t, notice

(* A fence that was closed reads the same in another text that reads the   *)
(* same up to there. *)
LEMMA SameSuggestion ==
  ASSUME NEW t \in Seq(Symbol), NEW m \in Seq(Symbol), NEW a \in Nat, a <= Len(t), a <= Len(m),
         \A j \in 1..a : t[j] = m[j],
         NEW i \in 0..(Len(t) + 1), NEW f \in FencesOf(t)[i].closed, f[2] <= a + 1
  PROVE  /\ SubSeq(t, f[1], f[2] - 1) = SubSeq(m, f[1], f[2] - 1)
         /\ m[f[1] + TickRun(m, f[1])] = t[f[1] + TickRun(t, f[1])]
<1> DEFINE k == TickRun(t, f[1])
           p == f[1]
<1>1. FencesOf(t)[i] \in FenceState /\ Sane(t, i, FencesOf(t)[i])
  BY FencesWalk, AlwaysSane
<1>2. p \in Nat /\ f[2] \in Nat /\ p \in 1..i /\ p + k < f[2]
  BY <1>1 DEF FenceState, Sane
<1>3. p \in Nat \ {0} /\ p <= Len(t) + 1
  BY <1>2
<1>4. k \in Nat /\ RunIs(t, p, k)
  BY <1>3, RunOf
<1> HIDE DEF p, k
<1>5. p + k <= a /\ p + k \in 1..a /\ p \in 1..(Len(m) + 1) /\ p + k \in 1..Len(t)
  BY <1>2, <1>3, <1>4
<1>6. RunIs(m, p, k)
  <2>1. \A j \in p..(p + k - 1) : j \in 1..Len(m) /\ m[j] = "t"
    <3> TAKE j \in p..(p + k - 1)
    <3>1. j \in 1..a /\ j \in 1..Len(m)
      BY <1>3, <1>4, <1>5
    <3>2. t[j] = "t"
      BY <1>4 DEF RunIs
    <3> QED BY <3>1, <3>2
  <2>2. m[p + k] # "t"
    BY <1>4, <1>5 DEF RunIs
  <2> QED BY <2>1, <2>2 DEF RunIs
<1>7. TickRun(m, p) = k
  <2>1. TickRun(m, p) \in Nat /\ RunIs(m, p, TickRun(m, p))
    BY <1>5, RunOf
  <2> QED BY <2>1, <1>3, <1>4, <1>6, RunUnique
<1>8. m[p + TickRun(m, p)] = t[p + k]
  BY <1>5, <1>7
<1>9. SubSeq(t, p, f[2] - 1) = SubSeq(m, p, f[2] - 1)
  <2> DEFINE y == f[2]
             z == y - 1
             n == z - p + 1
  <2>1. z \in Nat /\ p <= z + 1 /\ z <= a /\ n \in Nat
    <3>1. y \in Nat /\ p \in Nat /\ k \in Nat /\ p + k < y /\ y <= a + 1
      BY <1>2, <1>4
    <3> HIDE DEF y
    <3> QED BY <3>1
  <2> HIDE DEF z
  <2>2. /\ SubSeq(t, p, z) \in Seq(Symbol) /\ Len(SubSeq(t, p, z)) = n
        /\ \A j \in 1..n : SubSeq(t, p, z)[j] = t[p + j - 1]
    <3>1. p \in 1..(Len(t) + 1) /\ z \in (p - 1)..Len(t)
      BY <1>3, <2>1
    <3> QED BY <3>1, SubSeqProperties
  <2>3. /\ SubSeq(m, p, z) \in Seq(Symbol) /\ Len(SubSeq(m, p, z)) = n
        /\ \A j \in 1..n : SubSeq(m, p, z)[j] = m[p + j - 1]
    <3>1. p \in 1..(Len(m) + 1) /\ z \in (p - 1)..Len(m)
      BY <1>3, <2>1
    <3> QED BY <3>1, SubSeqProperties
  <2>4. \A j \in 1..n : t[p + j - 1] = m[p + j - 1]
    <3> TAKE j \in 1..n
    <3>1. p + j - 1 \in 1..a
      BY <1>3, <2>1
    <3> QED BY <3>1
  <2> HIDE DEF n
  <2>5. \A j \in 1..Len(SubSeq(t, p, z)) : SubSeq(t, p, z)[j] = SubSeq(m, p, z)[j]
    BY <2>2, <2>3, <2>4
  <2>6. SubSeq(t, p, z) = SubSeq(m, p, z)
    BY <2>2, <2>3, <2>5, SeqEqual
  <2> QED BY <2>6 DEF y, z
<1> QED BY <1>8, <1>9 DEF p, k

LEMMA SuggestionLine ==
  ASSUME NEW b \in Bodies, NEW e \in 1..(Len(b) + 1), EndsAt(b, e), NEW l, LineStart(b, e) = l,
         NEW state, FencesOf(b)[e - 1] = state, state.width > 0, b[state.at + state.width] = "s",
         TickRun(b, l) >= state.width
  PROVE  e = l + state.width
<1> DEFINE line == <<l, e>>
<1>1. line \in LinesOf(b) /\ line[1] = l /\ line[2] = e
  BY DEF LinesOf
<1> HIDE DEF line
<1> QED BY <1>1, SuggestionAssumption

LEMMA OnlyWhole ==
  ASSUME Body, markdown \in Bodies, OpenSuggestion = {}, protect
  PROVE  Suggestions(Kept \o <<"n">>) \subseteq Suggestions(markdown \o <<"n">>)
<1> DEFINE end == <<"n">>
           t == Kept \o end
           m == markdown \o end
           n == Len(Kept)
           k == n + 1
           N == Len(markdown)
           g == FencesOf(t)
           h == FencesOf(m)
           p == FencesOf(Prefix)
<1>1. end \in Seq(Symbol) /\ Len(end) = 1 /\ end[1] = "n"
  BY DEF Symbol
<1>2. Kept \in Seq(Symbol) /\ n \in Nat
  BY KeptIs DEF KeptAs
<1>3. markdown \in Seq(Symbol) /\ N \in Nat /\ cut \in 0..N
  BY DEF Body
<1> HIDE DEF end
<1>4. Joins(Kept, end, t, n, 1) /\ Joins(markdown, end, m, N, 1)
  BY <1>1, <1>2, <1>3, Concatenated
<1> HIDE DEF t, m, n, g, h, p, N
<1>5. t \in Seq(Symbol) /\ Len(t) = k /\ (\A j \in 1..n : t[j] = Kept[j]) /\ t[k] = "n"
  <2>1. t[k] = end[k - n] /\ k - n = 1
    BY <1>2, <1>4 DEF Joins
  <2> QED BY <1>1, <1>2, <1>4, <2>1 DEF Joins
<1>6. m \in Seq(Symbol) /\ Len(m) = N + 1 /\ (\A j \in 1..N : m[j] = markdown[j]) /\ m[N + 1] = "n"
  <2>1. m[N + 1] = end[(N + 1) - N] /\ (N + 1) - N = 1
    BY <1>3, <1>4 DEF Joins
  <2> QED BY <1>1, <1>3, <1>4, <2>1 DEF Joins
<1>7. /\ Prefix \in Seq(Symbol) /\ Len(Prefix) = cut /\ cut \in Nat
      /\ \A j \in 1..cut : Prefix[j] = markdown[j]
      /\ PrefixFence = p[cut + 1] /\ PrefixFence \in FenceState
  BY PrefixIs DEF p
<1>8. k \in Nat /\ k = Len(Kept) + 1 /\ k <= Len(t) /\ \A j \in 1..Len(Kept) : t[j] = Kept[j]
  BY <1>2, <1>5 DEF n
<1>9. /\ g[k] \in FenceState /\ g[k].width = 0
      /\ \/ PrefixFence.width = 0 /\ k = cut + 1 /\ g[k] = PrefixFence
         \/ /\ PrefixFence.width > 0
            /\ g[k].closed = PrefixFence.closed \cup {<<PrefixFence.at, k + 1>>}
            /\ TickRun(t, PrefixFence.at) = PrefixFence.width
            /\ t[PrefixFence.at + PrefixFence.width] = "s" => PrefixFence.at + PrefixFence.width <= cut
      /\ cut <= n /\ \A j \in 1..cut : t[j] = Prefix[j]
  BY <1>5, <1>8, KeptState DEF g, n
<1>10. \A j \in 1..cut : t[j] = m[j] /\ Prefix[j] = m[j] /\ t[j] = markdown[j]
  <2> TAKE j \in 1..cut
  <2>1. j \in 1..N
    BY <1>3, <1>7
  <2> QED BY <2>1, <1>6, <1>7, <1>9
<1>11. Fenced(t) = g[k].closed
  <2> DEFINE i == k + 1
  <2>1. i \in 2..(Len(t) + 1) /\ i - 1 = k /\ i = Len(t) + 1
    BY <1>2, <1>5
  <2>2. EndsAt(t, i) /\ t[i - 1] = "n"
    BY <2>1, <1>5 DEF EndsAt
  <2> HIDE DEF i
  <2>3. g[i] = g[k]
    BY <2>1, <2>2, <1>5, EmptyLine DEF g
  <2>4. OpenFence(t) = g[k]
    BY <2>1, <2>3 DEF OpenFence, g
  <2> QED BY <2>4, <1>9 DEF Fenced
<1>12. \A i \in 0..(N + 2) : h[i].closed \subseteq Fenced(m)
  <2> TAKE i \in 0..(N + 2)
  <2>1. i \in 0..(Len(m) + 1) /\ N + 2 \in i..(Len(m) + 1) /\ N + 2 = Len(m) + 1
    BY <1>3, <1>6
  <2>2. h[i].closed \subseteq h[N + 2].closed
    BY <2>1, <1>6, ClosedStays DEF h
  <2>3. h[N + 2] = OpenFence(m)
    BY <2>1 DEF OpenFence, h
  <2> QED BY <2>2, <2>3 DEF Fenced
<1>13. p[cut] = h[cut] /\ p[cut] = g[cut] /\ cut \in 0..cut
  <2>1. cut <= Len(Prefix) /\ cut <= Len(m) /\ cut <= Len(t) /\ cut \in 0..cut
    BY <1>2, <1>3, <1>5, <1>6, <1>7, <1>9
  <2>2. (\A j \in 1..cut : Prefix[j] = m[j]) /\ \A j \in 1..cut : Prefix[j] = t[j]
    BY <1>9, <1>10
  <2>3. FencesOf(m)[cut] = FencesOf(Prefix)[cut]
    BY <2>1, <2>2, <1>6, <1>7, SamePrefix
  <2>4. FencesOf(t)[cut] = FencesOf(Prefix)[cut]
    BY <2>1, <2>2, <1>5, <1>7, SamePrefix
  <2> QED BY <2>1, <2>3, <2>4 DEF p, h, g
<1>14. ASSUME NEW f \in Fenced(t), t[f[1] + TickRun(t, f[1])] = "s"
       PROVE  /\ f \in Fenced(m) /\ m[f[1] + TickRun(m, f[1])] = "s"
              /\ SubSeq(t, f[1], f[2] - 1) = SubSeq(m, f[1], f[2] - 1)
  <2>1. f \in g[k].closed
    BY <1>11
  <2>2. CASE f \in p[cut].closed
    <3>1. f \in g[cut].closed /\ f \in h[cut].closed
      BY <2>2, <1>13
    <3>2. cut \in 0..(Len(t) + 1) /\ cut \in 0..(N + 2) /\ cut <= Len(t) /\ cut <= Len(m)
      BY <1>3, <1>5, <1>6, <1>7, <1>9, <1>2
    <3>3. f[2] <= cut + 1
      <4>1. Sane(t, cut, g[cut])
        BY <3>2, <1>5, AlwaysSane DEF g
      <4> QED BY <3>1, <4>1 DEF Sane
    <3>4. f \in FencesOf(t)[cut].closed /\ \A j \in 1..cut : t[j] = m[j]
      BY <3>1, <1>10 DEF g
    <3>5. /\ SubSeq(t, f[1], f[2] - 1) = SubSeq(m, f[1], f[2] - 1)
          /\ m[f[1] + TickRun(m, f[1])] = t[f[1] + TickRun(t, f[1])]
      BY <3>2, <3>3, <3>4, <1>5, <1>6, <1>7, SameSuggestion
    <3> QED BY <3>1, <3>2, <3>5, <1>12, <1>14
  <2>3. CASE f \in PrefixFence.closed /\ f \notin p[cut].closed
    <3> DEFINE i == cut + 1
               l == LineStart(Prefix, i)
               st == p[cut]
               v == st.width
    <3>1. /\ i \in 1..(Len(Prefix) + 1) /\ EndsAt(Prefix, i) /\ i - 1 = cut /\ i \in Nat
          /\ cut \in 0..(Len(Prefix) + 1) /\ cut \in 0..(Len(t) + 1)
      BY <1>2, <1>5, <1>7, <1>9 DEF EndsAt
    <3>2. StartsAt(Prefix, i, l)
      BY <3>1, <1>7, LineStartIs
    <3>3. l \in 1..i /\ (\A j \in l..cut : Prefix[j] # "n") /\ (l = 1 \/ Prefix[l - 1] = "n")
      BY <3>2, <3>1 DEF StartsAt
    <3>4. st \in FenceState /\ p[i] = After(Prefix, st, i)
      BY <3>1, <1>7, FencesWalk DEF p
    <3>5. p[i] = Visit(Prefix, st, <<l, i>>)
      BY <3>1, <3>4 DEF After
    <3> HIDE DEF l, st
    <3>6. Closing(Prefix, st, l, i) /\ p[i] = [width |-> 0, at |-> 0, closed |-> st.closed \cup {<<st.at, i + 1>>}]
      <4>1. f \in p[i].closed /\ f \notin st.closed
        BY <2>3, <1>7 DEF st
      <4>2. CASE p[i] = [width |-> TickRun(Prefix, l), at |-> l, closed |-> st.closed]
        BY <4>1, <4>2
      <4>3. CASE p[i] = st
        BY <4>1, <4>3
      <4> QED BY <4>2, <4>3, <3>1, <3>3, <3>4, <3>5, <1>7, Visited
    <3>7. f = <<st.at, i + 1>> /\ PrefixFence.width = 0 /\ k = i
      <4>1. p[i].width = 0 /\ p[i].closed = st.closed \cup {<<st.at, i + 1>>}
        BY <3>6
      <4> QED BY <4>1, <2>3, <1>7, <1>9 DEF st
    <3>8. f[1] = st.at /\ f[2] = i + 1 /\ v > 0 /\ TickRun(Prefix, l) >= v /\ l + TickRun(Prefix, l) = i /\ v \in Nat
      BY <3>4, <3>6, <3>7 DEF Closing, FenceState
    <3>9. st.at \in 1..cut /\ st.at + v <= cut /\ TickRun(t, st.at) = v
      <4>1. Sane(t, cut, st)
        BY <3>1, <1>5, <1>13, AlwaysSane DEF g, st
      <4> QED BY <4>1, <3>8 DEF Sane
    <3>10. markdown[st.at + v] = "s"
      <4>1. st.at + v \in 1..cut
        BY <3>8, <3>9
      <4>2. t[st.at + v] = "s"
        BY <1>14, <3>8, <3>9
      <4> QED BY <4>1, <4>2, <1>10
    <3> HIDE DEF v
    (* The line that the cut is on, in the whole text. *)
    <3> DEFINE ends == {j \in i..(N + 1) : EndsAt(markdown, j)}
    <3>11. N + 1 \in ends /\ ends \in SUBSET Nat
      BY <1>3, <1>7 DEF EndsAt, N
    <3>12. PICK e \in ends : \A j \in ends : e <= j
      BY <3>11, FirstOf, Zenon
    <3>13. /\ e \in i..(N + 1) /\ EndsAt(markdown, e) /\ e \in 1..(Len(markdown) + 1)
           /\ \A j \in i..(e - 1) : ~EndsAt(markdown, j)
      <4>1. e \in i..(N + 1) /\ EndsAt(markdown, e)
        BY <3>12
      <4>2. \A j \in i..(e - 1) : j \notin ends /\ j \in i..(N + 1)
        BY <4>1, <3>12, <3>1, <1>3
      <4> QED BY <4>1, <4>2, <3>1 DEF N
    <3> HIDE DEF ends
    <3>14. StartsAt(markdown, e, l)
      <4>1. \A j \in l..(e - 1) : markdown[j] # "n"
        <5> TAKE j \in l..(e - 1)
        <5>1. CASE j <= cut
          <6>1. j \in 1..cut /\ j \in l..cut
            BY <5>1, <3>3, <3>1, <1>7
          <6> QED BY <6>1, <3>3, <1>7
        <5>2. CASE ~(j <= cut)
          <6>1. j \in i..(e - 1)
            BY <5>2, <3>3, <3>13, <1>7
          <6> QED BY <6>1, <3>13 DEF EndsAt
        <5> QED BY <5>1, <5>2
      <4>2. l = 1 \/ markdown[l - 1] = "n"
        <5>1. l # 1 => l - 1 \in 1..cut
          BY <3>1, <3>3
        <5> QED BY <5>1, <3>3, <1>7
      <4>3. l \in 1..e
        BY <3>1, <3>3, <3>13
      <4> QED BY <4>1, <4>2, <4>3 DEF StartsAt
    <3>15. LineStart(markdown, e) = l
      BY <1>3, <3>13, <3>14, LineStartUnique
    <3>16. FencesOf(markdown)[e - 1] = st
      <4> DEFINE b == e - 1
      <4>1. cut \in 0..(Len(markdown) + 1) /\ b \in cut..(Len(markdown) + 1) /\ cut + 1 = i
        BY <1>3, <1>7, <3>13 DEF N
      <4>2. \A j \in (cut + 1)..b : ~EndsAt(markdown, j)
        BY <3>13
      <4> HIDE DEF b
      <4>3. FencesOf(markdown)[b] = FencesOf(markdown)[cut]
        BY <4>1, <4>2, <1>3, Between
      <4>4. FencesOf(markdown)[cut] = FencesOf(Prefix)[cut]
        <5>1. cut <= Len(Prefix) /\ cut <= Len(markdown) /\ \A j \in 1..cut : Prefix[j] = markdown[j]
          BY <1>3, <1>7 DEF N
        <5> QED BY <5>1, <1>3, <1>7, <1>13, SamePrefix
      <4> QED BY <4>3, <4>4 DEF b, st, p
    <3>17. TickRun(markdown, l) >= v
      <4> DEFINE r == TickRun(Prefix, l)
      <4>1. l \in 1..(Len(Prefix) + 1) /\ l \in 1..(Len(markdown) + 1)
        BY <3>1, <3>3, <1>3, <1>7 DEF N
      <4>2. r \in Nat /\ RunIs(Prefix, l, r)
        BY <4>1, <1>7, RunOf
      <4> HIDE DEF r
      <4>3. \A j \in l..(l + r - 1) : j \in 1..Len(markdown) /\ markdown[j] = "t"
        <5> TAKE j \in l..(l + r - 1)
        <5>1. j \in 1..Len(Prefix) /\ Prefix[j] = "t"
          BY <4>2 DEF RunIs
        <5>2. j \in 1..cut /\ j \in 1..Len(markdown)
          BY <5>1, <1>3, <1>7 DEF N
        <5> QED BY <5>1, <5>2, <1>7
      <4>4. r <= TickRun(markdown, l)
        BY <4>1, <4>2, <4>3, <1>3, LongRun
      <4>5. TickRun(markdown, l) \in Nat
        BY <4>1, <1>3, RunOf
      <4> QED BY <4>2, <4>4, <4>5, <3>8 DEF r
    <3>18. e = l + v
      BY <3>8, <3>10, <3>13, <3>15, <3>16, <3>17, SuggestionLine DEF v
    <3>19. e = i
      <4>1. l \in 1..(Len(Prefix) + 1)
        BY <3>1, <3>3
      <4>2. TickRun(Prefix, l) \in Nat
        BY <4>1, <1>7, RunOf
      <4> QED BY <4>1, <4>2, <3>1, <3>8, <3>13, <3>18, <1>3
    <3>20. /\ i \in 1..(Len(m) + 1) /\ EndsAt(m, i) /\ m[i] = "n"
           /\ i \in 1..Len(m) /\ i <= Len(t) /\ i \in 0..(N + 2)
      <4>1. i \in 1..(N + 1)
        BY <3>1, <3>13, <1>3, <1>7
      <4>2. m[i] = "n"
        <5>1. CASE i = N + 1
          BY <5>1, <1>6
        <5>2. CASE i # N + 1
          <6>1. markdown[i] = "n" /\ i \in 1..N
            BY <5>2, <4>1, <3>13, <3>19, <1>3 DEF EndsAt, N
          <6> QED BY <6>1, <1>6
        <5> QED BY <5>1, <5>2
      <4> QED BY <4>1, <4>2, <3>7, <1>3, <1>5, <1>6 DEF EndsAt
    <3>21. h[i] = p[i]
      <4>1. \A j \in 1..(i - 1) : Prefix[j] = m[j]
        BY <3>1, <1>10
      <4> QED BY <4>1, <3>1, <3>20, <1>6, <1>7, SameToTheEnd DEF h, p
    <3>22. f \in Fenced(m)
      <4>1. f \in p[i].closed
        BY <2>3, <1>7
      <4> QED BY <4>1, <3>20, <3>21, <1>12
    <3>23. \A j \in 1..i : t[j] = m[j]
      <4> TAKE j \in 1..i
      <4>1. CASE j = i
        BY <4>1, <3>7, <3>20, <1>5
      <4>2. CASE j # i
        <5>1. j \in 1..cut
          BY <4>2, <3>1
        <5> QED BY <5>1, <1>10
      <4> QED BY <4>1, <4>2
    <3>24. f \in FencesOf(t)[i].closed /\ i \in 0..(Len(t) + 1) /\ i <= Len(m) /\ f[2] <= i + 1
      BY <2>1, <3>1, <3>7, <3>8, <3>20, <1>5 DEF g
    <3>25. /\ SubSeq(t, f[1], f[2] - 1) = SubSeq(m, f[1], f[2] - 1)
           /\ m[f[1] + TickRun(m, f[1])] = t[f[1] + TickRun(t, f[1])]
      BY <3>1, <3>20, <3>23, <3>24, <1>5, <1>6, SameSuggestion
    <3> QED BY <3>22, <3>25, <1>14
  <2>4. CASE f \notin PrefixFence.closed
    <3> DEFINE at == PrefixFence.at
               w == PrefixFence.width
    <3>1. /\ w > 0 /\ f = <<at, k + 1>> /\ TickRun(t, at) = w
          /\ t[at + w] = "s" => at + w <= cut
      BY <2>1, <2>4, <1>9
    <3>2. f[1] = at
      BY <3>1
    <3>3. t[at + w] = "s" /\ at + w <= cut
      BY <3>1, <3>2, <1>14
    <3>4. at + w \in 1..cut
      <4>1. at \in Nat /\ w \in Nat
        BY <1>7 DEF FenceState
      <4> QED BY <4>1, <3>1, <3>3, <1>7
    <3>5. markdown[at + w] = "s"
      BY <3>3, <3>4, <1>10
    <3>6. OpenSuggestion = {at}
      <4>1. PrefixFence = OpenFence(Upto(markdown, cut))
        BY DEF PrefixFence, Prefix
      <4> QED BY <4>1, <3>1, <3>3, <3>5 DEF OpenSuggestion
    <3> QED BY <3>6
  <2> QED BY <2>2, <2>3, <2>4
<1>15. ASSUME NEW x \in Suggestions(t) PROVE x \in Suggestions(m)
  <2>1. PICK f \in Fenced(t) : t[f[1] + TickRun(t, f[1])] = "s" /\ x = SubSeq(t, f[1], f[2] - 1)
    BY DEF Suggestions
  <2>2. /\ f \in Fenced(m) /\ m[f[1] + TickRun(m, f[1])] = "s"
        /\ SubSeq(t, f[1], f[2] - 1) = SubSeq(m, f[1], f[2] - 1)
    BY <2>1, <1>14
  <2> QED BY <2>1, <2>2 DEF Suggestions
<1> QED BY <1>15 DEF t, m, end
-----------------------------------------------------------------------------
(* The fold: where a cut may be. *)
LEMMA LongestIs ==
  ASSUME NEW n \in Nat, NEW candidates \in SUBSET (0..n), NEW budget
  PROVE  Longest(candidates, budget) \in 0..n
<1> DEFINE T == {0} \cup {x \in candidates : Utf8Len(Upto(markdown, x)) <= budget}
<1>1. T \in SUBSET (0..n) /\ T # {}
  <2>1. 0 \in 0..n
    OBVIOUS
  <2> QED BY <2>1, Zenon
<1> HIDE DEF T
<1>2. Max(T) \in T
  BY <1>1, GreatestOf, Zenon
<1>3. Longest(candidates, budget) = Max(T)
  BY DEF Longest, T
<1> QED BY <1>1, <1>2, <1>3

LEMMA FirstCutIs ==
  ASSUME markdown \in Seq(Symbol), NEW budget
  PROVE  FirstCut(budget) \in 0..Len(markdown)
<1> DEFINE n == Len(markdown)
           ends == {l[2] - 1 : l \in LinesOf(markdown)}
           within == UNION {(l[1] - 1)..(l[2] - 1) : l \in TooLong(budget)}
<1>1. n \in Nat
  OBVIOUS
<1>2. ASSUME NEW l \in LinesOf(markdown)
      PROVE  l[1] \in Nat \ {0} /\ l[2] - 1 \in 0..n
  <2>1. PICK i \in 1..(n + 1) : l = <<LineStart(markdown, i), i>>
    BY DEF LinesOf
  <2>2. LineStart(markdown, i) \in 1..i
    BY LineStartIs DEF StartsAt
  <2>3. l[1] = LineStart(markdown, i) /\ l[2] = i
    BY <2>1
  <2> QED BY <1>1, <2>2, <2>3
<1>3. WholeLines(budget) \in 0..n
  <2>1. ends \in SUBSET (0..n)
    BY <1>2
  <2> QED BY <1>1, <2>1, LongestIs DEF WholeLines
<1>4. within \in SUBSET (0..n)
  <2>1. ASSUME NEW x \in within PROVE x \in 0..n
    <3>1. PICK l \in LinesOf(markdown) : x \in (l[1] - 1)..(l[2] - 1)
      BY DEF TooLong
    <3>2. l[1] \in Nat \ {0} /\ l[2] - 1 \in 0..n
      BY <1>2
    <3> QED BY <1>1, <3>1, <3>2
  <2> QED BY <2>1
<1>5. {WholeLines(budget)} \cup within \in SUBSET (0..n)
  BY <1>3, <1>4
<1>6. FirstCut(budget) = Longest({WholeLines(budget)} \cup within, budget)
  BY DEF FirstCut
<1> HIDE DEF within, n
<1> QED BY <1>1, <1>5, <1>6, LongestIs DEF n

LEMMA DropLastLineIs ==
  ASSUME Body, cut # 0
  PROVE  DropLastLine \in 0..(cut - 1)
<1> DEFINE end == IF EndsLine(cut) THEN cut - 1 ELSE cut
           before == {i \in 1..end : markdown[i] = "n"}
<1>1. cut \in Nat \ {0}
  BY DEF Body
<1>2. end \in Nat /\ end <= cut /\ (EndsLine(cut) => end = cut - 1)
  BY <1>1
<1>3. DropLastLine =
        IF before = {} THEN 0 ELSE IF EndsLine(cut) THEN Max(before) ELSE Max(before) - 1
  BY DEF DropLastLine
<1> HIDE DEF end
<1>4. before # {} => Max(before) \in 1..end
  <2> SUFFICES ASSUME before # {} PROVE Max(before) \in 1..end
    OBVIOUS
  <2>1. before \in SUBSET (0..end) /\ before \subseteq 1..end
    BY <1>2
  <2> HIDE DEF before
  <2>2. Max(before) \in before
    BY <1>2, <2>1, GreatestOf, Zenon
  <2> QED BY <2>1, <2>2
<1> HIDE DEF before
<1> QED BY <1>1, <1>2, <1>3, <1>4

(* What holds all along. *)
FoldInv ==
  /\ markdown \in Bodies /\ cut \in 0..Len(markdown)
  /\ turns \in Nat /\ turns + cut <= Len(markdown)
  /\ phase = "new" => turns = 0
  /\ phase \in {"retreating", "folded"} => WholeAt(cut)
  /\ phase = "folded" => OpenSuggestion = {} /\ Fits

LEMMA FoldBody ==
  ASSUME FoldInv
  PROVE  Body /\ markdown \in Seq(Symbol) /\ markdown \in Bodies
BY FoldAssumption DEF FoldInv, Body

LEMMA TakenBackKeeps ==
  ASSUME FoldInv, phase = "retreating", NEW n \in 0..(cut - 1), NEW inside, TakenBack(n, inside)
  PROVE  FoldInv'
<1>1. markdown \in Seq(Symbol) /\ cut \in 0..Len(markdown) /\ turns \in Nat /\ turns + cut <= Len(markdown)
  BY FoldBody DEF FoldInv
<1>2. n \in Nat
  OBVIOUS
<1>3. RetreatInsideSpan(n) \in 0..n /\ WholeAt(RetreatInsideSpan(n))
  BY <1>1, <1>2, RetreatWhole
<1> DEFINE m == RetreatInsideSpan(n)
<1> HIDE DEF m
<1>4. cut' = m /\ turns' = turns + 1 /\ markdown' = markdown /\ phase' = "retreating"
  BY DEF TakenBack, m
<1>5. m \in 0..n /\ WholeAt(m)
  BY <1>3 DEF m
<1>6. WholeAt(cut)'
  BY <1>4, <1>5 DEF WholeAt
<1>7. markdown' \in Bodies
  BY <1>4 DEF FoldInv
<1>8. cut' \in 0..Len(markdown') /\ turns' \in Nat /\ turns' + cut' <= Len(markdown')
  BY <1>1, <1>4, <1>5
<1> QED BY <1>4, <1>6, <1>7, <1>8 DEF FoldInv

LEMMA FoldStarts ==
  ASSUME FInit
  PROVE  FoldInv
<1>1. markdown \in Bodies /\ cut = 0 /\ turns = 0 /\ phase = "new"
  BY DEF FInit
<1>2. Len(markdown) \in Nat
  BY <1>1, FoldAssumption
<1> QED BY <1>1, <1>2 DEF FoldInv

LEMMA FoldSteps ==
  ASSUME FoldInv, [FNext]_foldVars
  PROVE  FoldInv'
<1>1. Body /\ markdown \in Seq(Symbol) /\ markdown \in Bodies
  BY FoldBody
<1>2. cut \in 0..Len(markdown) /\ turns \in Nat /\ turns + cut <= Len(markdown) /\ Len(markdown) \in Nat
  BY <1>1 DEF FoldInv
<1>3. CASE KeepWhole
  <2>1. turns = 0
    BY <1>3 DEF KeepWhole, FoldInv
  <2> QED BY <1>1, <1>2, <1>3, <2>1 DEF KeepWhole, FoldInv
<1>4. CASE StartFold
  <2> DEFINE budget == allowance - Reserve
             n == IF budget < 0 THEN 0 ELSE FirstCut(budget)
             m == RetreatInsideSpan(n)
  <2>1. cut' = m /\ turns' = turns /\ markdown' = markdown /\ phase' = "retreating" /\ phase = "new"
    BY <1>4 DEF StartFold
  <2>2. turns = 0
    BY <2>1 DEF FoldInv
  <2> HIDE DEF budget
  <2>3. n \in 0..Len(markdown)
    <3>1. FirstCut(budget) \in 0..Len(markdown)
      BY <1>1, FirstCutIs
    <3> QED BY <3>1, <1>2
  <2> HIDE DEF n
  <2>4. n \in Nat
    BY <2>3
  <2>5. m \in 0..n /\ WholeAt(m)
    BY <1>1, <2>4, RetreatWhole
  <2> HIDE DEF m
  <2>6. WholeAt(cut)'
    BY <2>1, <2>5 DEF WholeAt
  <2>7. cut' \in 0..Len(markdown') /\ turns' \in Nat /\ turns' + cut' <= Len(markdown')
    BY <1>2, <2>1, <2>2, <2>3, <2>5
  <2> QED BY <1>1, <2>1, <2>6, <2>7 DEF FoldInv
<1>5. CASE DropSuggestion
  <2>1. PICK at \in OpenSuggestion : TakenBack(at - 1, midline)
    BY <1>5 DEF DropSuggestion
  <2>2. phase = "retreating"
    BY <1>5 DEF DropSuggestion
  <2>3. at = PrefixFence.at /\ PrefixFence.width > 0 /\ PrefixFence.at + PrefixFence.width <= cut
    <3>1. PrefixFence = OpenFence(Upto(markdown, cut))
      BY DEF PrefixFence, Prefix
    <3> QED BY <2>1, <3>1 DEF OpenSuggestion
  <2>4. PrefixFence.at \in 1..(cut + 1) /\ PrefixFence.width \in Nat
    <3>1. /\ Prefix \in Seq(Symbol) /\ Len(Prefix) = cut /\ cut \in Nat
          /\ PrefixFence = FencesOf(Prefix)[cut + 1] /\ PrefixFence \in FenceState
      BY <1>1, PrefixIs
    <3>2. cut + 1 \in 0..(Len(Prefix) + 1)
      BY <3>1
    <3>3. Sane(Prefix, cut + 1, PrefixFence)
      BY <3>1, <3>2, AlwaysSane
    <3> QED BY <2>3, <3>1, <3>3 DEF Sane, FenceState
  <2>5. at - 1 \in 0..(cut - 1)
    BY <1>2, <2>3, <2>4
  <2> QED BY <2>1, <2>2, <2>5, TakenBackKeeps
<1>6. CASE Retreat
  <2>1. phase = "retreating" /\ cut # 0
    BY <1>6 DEF Retreat, Fits
  <2>2. TakenBack(cut - 1, TRUE) \/ TakenBack(DropLastLine, FALSE)
    BY <1>6 DEF Retreat
  <2>3. cut - 1 \in 0..(cut - 1)
    BY <1>2, <2>1
  <2>4. DropLastLine \in 0..(cut - 1)
    BY <1>1, <2>1, DropLastLineIs
  <2> QED BY <2>1, <2>2, <2>3, <2>4, TakenBackKeeps
<1>7. CASE EndFold
  <2>1. phase = "retreating" /\ phase' = "folded" /\ OpenSuggestion = {} /\ Fits
    BY <1>7 DEF EndFold
  <2>2. UNCHANGED <<markdown, allowance, protect, cut, midline, turns>>
    BY <1>7 DEF EndFold
  <2>3. OpenSuggestion' = OpenSuggestion
    BY <2>2 DEF OpenSuggestion
  <2>4. Fits' = Fits
    BY <2>2 DEF Fits, FoldedLen, Kept, Closer, Separator, EndsLine, Dropped
  <2>5. WholeAt(cut) /\ WholeAt(cut)'
    BY <2>1, <2>2 DEF WholeAt, FoldInv
  <2> QED BY <1>1, <1>2, <2>1, <2>2, <2>3, <2>4, <2>5 DEF FoldInv
<1>8. CASE UNCHANGED foldVars
  <2>1. UNCHANGED <<markdown, allowance, protect, cut, midline, phase, turns>>
    BY <1>8 DEF foldVars
  <2>2. OpenSuggestion' = OpenSuggestion
    BY <2>1 DEF OpenSuggestion
  <2>3. Fits' = Fits
    BY <2>1 DEF Fits, FoldedLen, Kept, Closer, Separator, EndsLine, Dropped
  <2>4. WholeAt(cut)' = WholeAt(cut)
    BY <2>1 DEF WholeAt
  <2> QED BY <2>1, <2>2, <2>3, <2>4 DEF FoldInv
<1> QED BY <1>3, <1>4, <1>5, <1>6, <1>7, <1>8 DEF FNext

LEMMA InvKeepsMeaning ==
  ASSUME FoldInv
  PROVE  FoldKeepsMeaning
<1>1. Body /\ markdown \in Seq(Symbol) /\ markdown \in Bodies
  BY FoldBody
<1>2. FoldEnds
  BY DEF FoldInv, FoldEnds
<1>3. FoldFits
  <2> SUFFICES ASSUME phase = "folded", cut # 0
               PROVE  Utf8Len(Kept \o <<"n", "n">>)
                        + FoldLine(Utf8Len(markdown) - Utf8Len(Upto(markdown, cut))) <= allowance
    BY DEF FoldFits
  <2>1. Utf8Len(Kept) + 2 + FoldLine(Dropped) <= allowance
    BY DEF FoldInv, Fits, FoldedLen
  <2>2. Kept \in Seq(Symbol)
    BY <1>1, KeptIs DEF KeptAs
  <2> DEFINE one == Append(Kept, "n")
             two == Append(one, "n")
  <2>3. "n" \in Symbol /\ Bytes("n") = 1
    BY DEF Symbol, Bytes
  <2>4. one \in Seq(Symbol) /\ Utf8Len(Kept) \in Nat /\ Utf8Len(one) = Utf8Len(Kept) + 1
    BY <2>2, <2>3, OneMoreByte
  <2>5. Kept \o <<"n", "n">> = two
    BY <2>2, <2>3
  <2> HIDE DEF one
  <2>6. Utf8Len(two) = Utf8Len(one) + 1
    BY <2>3, <2>4, OneMoreByte
  <2>7. Utf8Len(two) = Utf8Len(Kept) + 2
    BY <2>4, <2>6
  <2> QED BY <2>1, <2>5, <2>7 DEF Dropped
<1>4. NoticeIsProse
  BY <1>1, NoticeOutside DEF NoticeIsProse
<1>5. SpansAreWhole
  BY DEF SpansAreWhole, FoldInv, WholeAt
<1>6. OnlyWholeSuggestions
  <2>1. phase = "folded" => OpenSuggestion = {}
    BY DEF FoldInv
  <2> QED BY <1>1, <2>1, OnlyWhole DEF OnlyWholeSuggestions
<1> QED BY <1>2, <1>3, <1>4, <1>5, <1>6 DEF FoldKeepsMeaning

(* A body that is over the limit is folded so that it fits; what comes     *)
(* after what is kept is no code, no code span is cut open, and a patch    *)
(* that can be applied with a click is one that the body proposes: of      *)
(* _fold, for every body and every limit.                                  *)
THEOREM FoldAlwaysKeepsMeaning == FSpec => []FoldKeepsMeaning
<1>1. FInit => FoldInv
  BY FoldStarts
<1>2. FoldInv /\ [FNext]_foldVars => FoldInv'
  BY FoldSteps
<1>3. FoldInv => FoldKeepsMeaning
  BY InvKeepsMeaning
<1> QED BY <1>1, <1>2, <1>3, PTL DEF FSpec
=============================================================================
