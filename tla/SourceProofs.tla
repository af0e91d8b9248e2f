----------------------------- MODULE SourceProofs -----------------------------
(***************************************************************************)
(* What the operators of the source build compute, for every repository,   *)
(* policy and CMake file: build_graph, the staging of its tree, and        *)
(* scan_archives.  Each is a fold over a sequence; a fact about a fold is  *)
(* proved by induction over its places, stated with a set of numbers.      *)
(***************************************************************************)
EXTENDS SourcePins, FiniteSetTheorems, SequenceTheorems, NaturalsInduction,
        WellFoundedInduction, TLAPS

(* Numbers, and folds. *)

\* A set of natural numbers has a least member.
LEMMA Least ==
    ASSUME NEW T, T \subseteq Nat, T # {}
    PROVE  \E n \in T : \A m \in T : n <= m
<1> DEFINE R == {r \in Nat \X Nat : r[1] < r[2]}
<1>1. IsWellFoundedOn(R, Nat)  BY NatLessThanWellFounded DEF OpToRel
<1> HIDE DEF R
<1>2. PICK n \in T : \A m \in T : <<m, n>> \notin R  BY <1>1, WFMin
<1>3. \A m \in T : ~(m < n)  BY <1>2 DEF R
<1> QED BY <1>3

\* Induction, for a set.
LEMMA Induction ==
    ASSUME NEW T, 0 \in T, \A n \in Nat : n \in T => n + 1 \in T
    PROVE  Nat \subseteq T
<1> SUFFICES ASSUME Nat \ T # {} PROVE FALSE  OBVIOUS
<1>1. PICK n \in Nat \ T : \A m \in Nat \ T : n <= m  BY Least
<1>2. n # 0  OBVIOUS
<1>3. n - 1 \in Nat /\ ~(n <= n - 1) /\ (n - 1) + 1 = n  BY <1>2
<1>4. n - 1 \in T  BY <1>1, <1>3
<1> QED BY <1>1, <1>3, <1>4

\* The greatest number of a set of places.
LEMMA MaxFacts ==
    ASSUME NEW k \in Nat, NEW s \in SUBSET (1 .. k), s # {}
    PROVE  Max(s) \in s /\ \A y \in s : y <= Max(s)
<1> DEFINE T == {k - y : y \in s}
<1>1. T \subseteq Nat /\ T # {}
  <2>1. \A y \in s : k - y \in Nat  OBVIOUS
  <2> QED BY <2>1
<1>2. PICK t \in T : \A u \in T : t <= u
  <2> HIDE DEF T
  <2> QED BY <1>1, Least
<1>3. PICK x \in s : t = k - x  OBVIOUS
<1>4. \A y \in s : y <= x
  <2> TAKE y \in s
  <2>1. k - x <= k - y  BY <1>2, <1>3
  <2> QED BY <2>1
<1>5. x \in s /\ \A y \in s : x >= y  BY <1>3, <1>4
<1>6. (CHOOSE z \in s : \A y \in s : z >= y) \in s
      /\ \A y \in s : (CHOOSE z \in s : \A w \in s : z >= w) >= y
  BY <1>5
<1>7. Max(s) \in s /\ \A y \in s : Max(s) >= y
  BY <1>6 DEF Max
<1> QED BY <1>7

\* The places as far as i end in i.
LEMMA MaxOfInterval ==
    ASSUME NEW i \in Nat \ {0}
    PROVE  1 .. i # {} /\ Max(1 .. i) = i /\ (1 .. i) \ {i} = 1 .. (i - 1)
<1>1. i \in 1 .. i  OBVIOUS
<1>2. Max(1 .. i) \in 1 .. i /\ i <= Max(1 .. i)  BY <1>1, MaxFacts
<1>3. Max(1 .. i) = i  BY <1>2
<1> QED BY <1>1, <1>3

\* f is the function on sets of places that a fold computes; step is the fold's
\* operator at each place.
IsFold(f, n, base, step) ==
    \A s \in SUBSET (1 .. n) :
        f[s] = IF s = {} THEN base ELSE step[<<Max(s), f[s \ {Max(s)}]>>]

\* There is such a function, whatever the fold's operator is.
LEMMA FoldExists ==
    ASSUME NEW n \in Nat, NEW V, NEW base \in V, NEW step \in [(1 .. n) \X V -> V]
    PROVE  \E f \in [SUBSET (1 .. n) -> V] : IsFold(f, n, base, step)
<1> DEFINE Good(k) == \E f \in [SUBSET (1 .. k) -> V] : \A s \in SUBSET (1 .. k) :
               f[s] = IF s = {} THEN base ELSE step[<<Max(s), f[s \ {Max(s)}]>>]
           T == {k \in Nat : k <= n => Good(k)}
<1> HIDE DEF Good
<1>1. 0 \in T
  <2> DEFINE f == [s \in SUBSET (1 .. 0) |-> base]
  <2>1. f \in [SUBSET (1 .. 0) -> V] /\ \A s \in SUBSET (1 .. 0) : s = {} /\ f[s] = base
    OBVIOUS
  <2> HIDE DEF f
  <2>2. Good(0)  BY <2>1 DEF Good
  <2> QED BY <2>2
<1>2. ASSUME NEW k \in Nat, k \in T PROVE k + 1 \in T
  <2> SUFFICES ASSUME k + 1 <= n PROVE Good(k + 1)
    OBVIOUS
  <2>1. PICK f \in [SUBSET (1 .. k) -> V] : \A s \in SUBSET (1 .. k) :
               f[s] = IF s = {} THEN base ELSE step[<<Max(s), f[s \ {Max(s)}]>>]
    <3>1. k <= n  OBVIOUS
    <3>2. Good(k)  BY <1>2, <3>1
    <3> QED BY <3>2 DEF Good
  <2> HIDE DEF T
  <2> DEFINE g == [s \in SUBSET (1 .. k + 1) |->
                     IF k + 1 \notin s THEN f[s] ELSE step[<<k + 1, f[s \ {k + 1}]>>]]
  <2>2. \A s \in SUBSET (1 .. k + 1) :
            /\ s \ {k + 1} \in SUBSET (1 .. k)
            /\ k + 1 \notin s => s \in SUBSET (1 .. k)
    <3> TAKE s \in SUBSET (1 .. k + 1)
    <3>1. \A y \in s : y # k + 1 => y \in 1 .. k  OBVIOUS
    <3> QED BY <3>1
  <2>3. k + 1 \in 1 .. n  OBVIOUS
  <2>4. g \in [SUBSET (1 .. k + 1) -> V]
    <3>1. \A s \in SUBSET (1 .. k + 1) : f[s \ {k + 1}] \in V /\ (k + 1 \notin s => f[s] \in V)
      BY <2>2
    <3>2. \A v \in V : step[<<k + 1, v>>] \in V  BY <2>3
    <3> QED BY <3>1, <3>2
  <2>5. ASSUME NEW s \in SUBSET (1 .. k + 1), s # {}
        PROVE  g[s] = step[<<Max(s), g[s \ {Max(s)}]>>]
    <3>1. Max(s) \in s /\ \A y \in s : y <= Max(s)
      <4>1. k + 1 \in Nat  OBVIOUS
      <4> QED BY <2>5, <4>1, MaxFacts
    <3>2. s \ {Max(s)} \in SUBSET (1 .. k + 1)  OBVIOUS
    <3>3. CASE k + 1 \in s
      <4>1. Max(s) = k + 1
        <5>1. Max(s) \in 1 .. k + 1 /\ k + 1 <= Max(s)  BY <3>1, <3>3
        <5> QED BY <5>1
      <4>2. g[s \ {k + 1}] = f[s \ {k + 1}]  BY <2>2
      <4> QED BY <3>3, <4>1, <4>2
    <3>4. CASE k + 1 \notin s
      <4>1. s \in SUBSET (1 .. k)  BY <2>2, <3>4
      <4>2. f[s] = step[<<Max(s), f[s \ {Max(s)}]>>]  BY <2>1, <2>5, <4>1
      <4>3. g[s] = f[s] /\ g[s \ {Max(s)}] = f[s \ {Max(s)}]  BY <3>2, <3>4
      <4> QED BY <4>2, <4>3
    <3> QED BY <3>3, <3>4
  <2>6. g[{}] = base
    <3>1. f[{}] = base  BY <2>1
    <3> QED BY <3>1
  <2> HIDE DEF g
  <2>7. \A s \in SUBSET (1 .. k + 1) :
            g[s] = IF s = {} THEN base ELSE step[<<Max(s), g[s \ {Max(s)}]>>]
    BY <2>5, <2>6
  <2> QED BY <2>4, <2>7 DEF Good
<1> HIDE DEF T
<1>3. n \in T  BY <1>1, <1>2, Induction
<1>4. Good(n)  BY <1>3 DEF T
<1> QED BY <1>4 DEF Good, IsFold

\* The values of a fold at each place are of the fold's kind.
LEMMA FoldPlaces ==
    ASSUME NEW n \in Nat, NEW V, NEW F, F[{}] \in V,
           \A i \in 1 .. n : F[1 .. (i - 1)] \in V => F[1 .. i] \in V
    PROVE  [i \in 0 .. n |-> F[1 .. i]] \in [0 .. n -> V]
<1> DEFINE T == {i \in Nat : i <= n => F[1 .. i] \in V}
<1>1. 0 \in T
  <2>1. 1 .. 0 = {}  OBVIOUS
  <2> QED BY <2>1
<1>2. ASSUME NEW i \in Nat, i \in T PROVE i + 1 \in T
  <2>1. (i + 1) - 1 = i  OBVIOUS
  <2>2. CASE i + 1 <= n  BY <1>2, <2>1, <2>2
  <2>3. CASE ~(i + 1 <= n)  BY <2>3
  <2> QED BY <2>2, <2>3
<1> HIDE DEF T
<1>3. Nat \subseteq T  BY <1>1, <1>2, Induction
<1>4. \A i \in 0 .. n : F[1 .. i] \in V  BY <1>3 DEF T
<1> QED BY <1>4

\* F folds with step, wherever its values are in V; h are its values at each place.
FoldsIn(F, V, n, base, step) ==
    /\ F[{}] = base
    /\ \A s \in SUBSET (1 .. n) : s # {} /\ F[s \ {Max(s)}] \in V =>
           F[s] = step[<<Max(s), F[s \ {Max(s)}]>>]
Places(h, n, base, step) == h[0] = base /\ \A i \in 1 .. n : h[i] = step[<<i, h[i - 1]>>]

\* So a fold's result is the last value of a run.
LEMMA FoldResult ==
    ASSUME NEW n \in Nat, NEW V, NEW base \in V, NEW step \in [(1 .. n) \X V -> V],
           NEW F, FoldsIn(F, V, n, base, step)
    PROVE  \E h \in [0 .. n -> V] : F[1 .. n] = h[n] /\ Places(h, n, base, step)
<1> USE DEF FoldsIn
<1> DEFINE h == [i \in 0 .. n |-> F[1 .. i]]
<1>1. ASSUME NEW i \in 1 .. n, F[1 .. (i - 1)] \in V
      PROVE  F[1 .. i] = step[<<i, F[1 .. (i - 1)]>>]
  <2>1. 1 .. i # {} /\ Max(1 .. i) = i /\ (1 .. i) \ {i} = 1 .. (i - 1)
    BY MaxOfInterval
  <2>2. 1 .. i \in SUBSET (1 .. n)  OBVIOUS
  <2> QED BY <1>1, <2>1, <2>2
<1>2. \A i \in 1 .. n : F[1 .. (i - 1)] \in V => F[1 .. i] \in V
  BY <1>1
<1>3. h \in [0 .. n -> V]  BY <1>2, FoldPlaces
<1>4. 1 .. 0 = {}  OBVIOUS
<1>5. h[0] = base /\ F[1 .. n] = h[n]  BY <1>4
<1>6. \A i \in 1 .. n : h[i] = step[<<i, h[i - 1]>>]
  <2> TAKE i \in 1 .. n
  <2>1. i \in 0 .. n /\ i - 1 \in 0 .. n  OBVIOUS
  <2>2. h[i] = F[1 .. i] /\ h[i - 1] = F[1 .. (i - 1)] /\ h[i - 1] \in V  BY <1>3, <2>1
  <2> QED BY <1>1, <2>2
<1> HIDE DEF h
<1> QED BY <1>3, <1>5, <1>6 DEF Places
-----------------------------------------------------------------------------
(* The folds of the source build: their values stay in a set that each    *)
(* turn keeps, and are those of a run, turn by turn.                       *)

\* The loop over enabled_root_paths, turn by turn.
EnabledRun(root, h, n, base, seq) ==
    h[0] = base /\ \A i \in 1 .. n : h[i] = AddEnabled(root, h[i - 1], seq[i])
LEMMA EnabledFold ==
    ASSUME NEW root, NEW n \in Nat, NEW seq, DOMAIN seq = 1 .. n, NEW V, NEW base \in V,
           \A v \in V : \A i \in 1 .. n : AddEnabled(root, v, seq[i]) \in V
    PROVE  \E h \in [0 .. n -> V] :
               EnableAll(root, base, seq) = h[n] /\ EnabledRun(root, h, n, base, seq)
<1> DEFINE step == [x \in (1 .. n) \X V |-> AddEnabled(root, x[2], seq[x[1]])]
           Folds(g) == g = [s \in SUBSET (1 .. n) |->
               IF s = {} THEN base ELSE AddEnabled(root, g[s \ {Max(s)}], seq[Max(s)])]
           F == CHOOSE g : Folds(g)
<1>1. EnableAll(root, base, seq) = F[1 .. n]
  BY DEF EnableAll, FoldLeft, MapThenFoldSet
<1>2. step \in [(1 .. n) \X V -> V]
  OBVIOUS
<1>3. \A v \in V : \A i \in 1 .. n : step[<<i, v>>] = AddEnabled(root, v, seq[i])
  OBVIOUS
<1> HIDE DEF F, Folds, step
<1>4. PICK f \in [SUBSET (1 .. n) -> V] : IsFold(f, n, base, step)
  BY <1>2, FoldExists
<1>5. \A s \in SUBSET (1 .. n) : f[s] =
          IF s = {} THEN base ELSE AddEnabled(root, f[s \ {Max(s)}], seq[Max(s)])
  <2> TAKE s \in SUBSET (1 .. n)
  <2>1. CASE s = {}  BY <1>4, <2>1 DEF IsFold
  <2>2. CASE s # {}
    <3>1. Max(s) \in 1 .. n  BY <2>2, MaxFacts
    <3>2. f[s \ {Max(s)}] \in V  BY <1>4
    <3> QED BY <1>3, <1>4, <2>2, <3>1, <3>2 DEF IsFold
  <2> QED BY <2>1, <2>2
<1>6. Folds(f)  BY <1>4, <1>5 DEF Folds
<1>7. Folds(F)  BY <1>6 DEF F
<1>8. ASSUME NEW s \in SUBSET (1 .. n), s # {}, F[s \ {Max(s)}] \in V
      PROVE  F[s] = step[<<Max(s), F[s \ {Max(s)}]>>]
  <2>1. Max(s) \in 1 .. n  BY <1>8, MaxFacts
  <2>2. F[s] = AddEnabled(root, F[s \ {Max(s)}], seq[Max(s)])  BY <1>7, <1>8 DEF Folds
  <2> QED BY <1>3, <1>8, <2>1, <2>2
<1>9. FoldsIn(F, V, n, base, step)
  <2>1. F[{}] = base  BY <1>7 DEF Folds
  <2> QED BY <1>8, <2>1 DEF FoldsIn
<1>10. PICK h \in [0 .. n -> V] : F[1 .. n] = h[n] /\ Places(h, n, base, step)
  BY <1>2, <1>9, FoldResult
<1>11. EnabledRun(root, h, n, base, seq)
  <2>1. ASSUME NEW i \in 1 .. n PROVE h[i] = AddEnabled(root, h[i - 1], seq[i])
    <3>1. h[i - 1] \in V  BY <1>10
    <3> QED BY <1>3, <1>10, <3>1 DEF Places
  <2> QED BY <1>10, <2>1 DEF Places, EnabledRun
<1> QED BY <1>1, <1>10, <1>11

\* The loop over nested_specs.
LEMMA NestedFold ==
    ASSUME NEW root, NEW n \in Nat, NEW seq, DOMAIN seq = 1 .. n, NEW V, NEW base \in V,
           \A v \in V : \A i \in 1 .. n : AddNested(root, v, seq[i]) \in V
    PROVE  NestAll(root, base, seq) \in V
<1> DEFINE step == [x \in (1 .. n) \X V |-> AddNested(root, x[2], seq[x[1]])]
           Folds(g) == g = [s \in SUBSET (1 .. n) |->
               IF s = {} THEN base ELSE AddNested(root, g[s \ {Max(s)}], seq[Max(s)])]
           F == CHOOSE g : Folds(g)
<1>1. NestAll(root, base, seq) = F[1 .. n]
  BY DEF NestAll, FoldLeft, MapThenFoldSet
<1>2. step \in [(1 .. n) \X V -> V]
  OBVIOUS
<1>3. \A v \in V : \A i \in 1 .. n : step[<<i, v>>] = AddNested(root, v, seq[i])
  OBVIOUS
<1> HIDE DEF F, Folds, step
<1>4. PICK f \in [SUBSET (1 .. n) -> V] : IsFold(f, n, base, step)
  BY <1>2, FoldExists
<1>5. \A s \in SUBSET (1 .. n) : f[s] =
          IF s = {} THEN base ELSE AddNested(root, f[s \ {Max(s)}], seq[Max(s)])
  <2> TAKE s \in SUBSET (1 .. n)
  <2>1. CASE s = {}  BY <1>4, <2>1 DEF IsFold
  <2>2. CASE s # {}
    <3>1. Max(s) \in 1 .. n  BY <2>2, MaxFacts
    <3>2. f[s \ {Max(s)}] \in V  BY <1>4
    <3> QED BY <1>3, <1>4, <2>2, <3>1, <3>2 DEF IsFold
  <2> QED BY <2>1, <2>2
<1>6. Folds(f)  BY <1>4, <1>5 DEF Folds
<1>7. Folds(F)  BY <1>6 DEF F
<1>8. ASSUME NEW s \in SUBSET (1 .. n), s # {}, F[s \ {Max(s)}] \in V
      PROVE  F[s] = step[<<Max(s), F[s \ {Max(s)}]>>]
  <2>1. Max(s) \in 1 .. n  BY <1>8, MaxFacts
  <2>2. F[s] = AddNested(root, F[s \ {Max(s)}], seq[Max(s)])  BY <1>7, <1>8 DEF Folds
  <2> QED BY <1>3, <1>8, <2>1, <2>2
<1>9. FoldsIn(F, V, n, base, step)
  <2>1. F[{}] = base  BY <1>7 DEF Folds
  <2> QED BY <1>8, <2>1 DEF FoldsIn
<1>10. PICK h \in [0 .. n -> V] : F[1 .. n] = h[n] /\ Places(h, n, base, step)
  BY <1>2, <1>9, FoldResult
<1> QED BY <1>1, <1>10

\* The loop over deepNestedSubmodules.
DeepenAll(base, seq) == FoldLeft(AddDeep, base, seq)
LEMMA DeepFold ==
    ASSUME NEW n \in Nat, NEW seq, DOMAIN seq = 1 .. n, NEW V, NEW base \in V,
           \A v \in V : \A i \in 1 .. n : AddDeep(v, seq[i]) \in V
    PROVE  DeepenAll(base, seq) \in V
<1> DEFINE step == [x \in (1 .. n) \X V |-> AddDeep(x[2], seq[x[1]])]
           Folds(g) == g = [s \in SUBSET (1 .. n) |->
               IF s = {} THEN base ELSE AddDeep(g[s \ {Max(s)}], seq[Max(s)])]
           F == CHOOSE g : Folds(g)
<1>1. DeepenAll(base, seq) = F[1 .. n]
  BY DEF DeepenAll, FoldLeft, MapThenFoldSet
<1>2. step \in [(1 .. n) \X V -> V]
  OBVIOUS
<1>3. \A v \in V : \A i \in 1 .. n : step[<<i, v>>] = AddDeep(v, seq[i])
  OBVIOUS
<1> HIDE DEF F, Folds, step
<1>4. PICK f \in [SUBSET (1 .. n) -> V] : IsFold(f, n, base, step)
  BY <1>2, FoldExists
<1>5. \A s \in SUBSET (1 .. n) : f[s] =
          IF s = {} THEN base ELSE AddDeep(f[s \ {Max(s)}], seq[Max(s)])
  <2> TAKE s \in SUBSET (1 .. n)
  <2>1. CASE s = {}  BY <1>4, <2>1 DEF IsFold
  <2>2. CASE s # {}
    <3>1. Max(s) \in 1 .. n  BY <2>2, MaxFacts
    <3>2. f[s \ {Max(s)}] \in V  BY <1>4
    <3> QED BY <1>3, <1>4, <2>2, <3>1, <3>2 DEF IsFold
  <2> QED BY <2>1, <2>2
<1>6. Folds(f)  BY <1>4, <1>5 DEF Folds
<1>7. Folds(F)  BY <1>6 DEF F
<1>8. ASSUME NEW s \in SUBSET (1 .. n), s # {}, F[s \ {Max(s)}] \in V
      PROVE  F[s] = step[<<Max(s), F[s \ {Max(s)}]>>]
  <2>1. Max(s) \in 1 .. n  BY <1>8, MaxFacts
  <2>2. F[s] = AddDeep(F[s \ {Max(s)}], seq[Max(s)])  BY <1>7, <1>8 DEF Folds
  <2> QED BY <1>3, <1>8, <2>1, <2>2
<1>9. FoldsIn(F, V, n, base, step)
  <2>1. F[{}] = base  BY <1>7 DEF Folds
  <2> QED BY <1>8, <2>1 DEF FoldsIn
<1>10. PICK h \in [0 .. n -> V] : F[1 .. n] = h[n] /\ Places(h, n, base, step)
  BY <1>2, <1>9, FoldResult
<1> QED BY <1>1, <1>10

\* The staging, source by source.
InstallAll(base, seq) == FoldLeft(InstallSource, base, seq)
StageRun(h, n, base, seq) == h[0] = base /\ \A i \in 1 .. n : h[i] = InstallSource(h[i - 1], seq[i])
LEMMA StageFold ==
    ASSUME NEW n \in Nat, NEW seq, DOMAIN seq = 1 .. n, NEW V, NEW base \in V,
           \A v \in V : \A i \in 1 .. n : InstallSource(v, seq[i]) \in V
    PROVE  \E h \in [0 .. n -> V] : InstallAll(base, seq) = h[n] /\ StageRun(h, n, base, seq)
<1> DEFINE step == [x \in (1 .. n) \X V |-> InstallSource(x[2], seq[x[1]])]
           Folds(g) == g = [s \in SUBSET (1 .. n) |->
               IF s = {} THEN base ELSE InstallSource(g[s \ {Max(s)}], seq[Max(s)])]
           F == CHOOSE g : Folds(g)
<1>1. InstallAll(base, seq) = F[1 .. n]
  BY DEF InstallAll, FoldLeft, MapThenFoldSet
<1>2. step \in [(1 .. n) \X V -> V]
  OBVIOUS
<1>3. \A v \in V : \A i \in 1 .. n : step[<<i, v>>] = InstallSource(v, seq[i])
  OBVIOUS
<1> HIDE DEF F, Folds, step
<1>4. PICK f \in [SUBSET (1 .. n) -> V] : IsFold(f, n, base, step)
  BY <1>2, FoldExists
<1>5. \A s \in SUBSET (1 .. n) : f[s] =
          IF s = {} THEN base ELSE InstallSource(f[s \ {Max(s)}], seq[Max(s)])
  <2> TAKE s \in SUBSET (1 .. n)
  <2>1. CASE s = {}  BY <1>4, <2>1 DEF IsFold
  <2>2. CASE s # {}
    <3>1. Max(s) \in 1 .. n  BY <2>2, MaxFacts
    <3>2. f[s \ {Max(s)}] \in V  BY <1>4
    <3> QED BY <1>3, <1>4, <2>2, <3>1, <3>2 DEF IsFold
  <2> QED BY <2>1, <2>2
<1>6. Folds(f)  BY <1>4, <1>5 DEF Folds
<1>7. Folds(F)  BY <1>6 DEF F
<1>8. ASSUME NEW s \in SUBSET (1 .. n), s # {}, F[s \ {Max(s)}] \in V
      PROVE  F[s] = step[<<Max(s), F[s \ {Max(s)}]>>]
  <2>1. Max(s) \in 1 .. n  BY <1>8, MaxFacts
  <2>2. F[s] = InstallSource(F[s \ {Max(s)}], seq[Max(s)])  BY <1>7, <1>8 DEF Folds
  <2> QED BY <1>3, <1>8, <2>1, <2>2
<1>9. FoldsIn(F, V, n, base, step)
  <2>1. F[{}] = base  BY <1>7 DEF Folds
  <2> QED BY <1>8, <2>1 DEF FoldsIn
<1>10. PICK h \in [0 .. n -> V] : F[1 .. n] = h[n] /\ Places(h, n, base, step)
  BY <1>2, <1>9, FoldResult
<1>11. StageRun(h, n, base, seq)
  <2>1. ASSUME NEW i \in 1 .. n PROVE h[i] = InstallSource(h[i - 1], seq[i])
    <3>1. h[i - 1] \in V  BY <1>10
    <3> QED BY <1>3, <1>10, <3>1 DEF Places
  <2> QED BY <1>10, <2>1 DEF Places, StageRun
<1> QED BY <1>1, <1>10, <1>11

\* The scan of a file, statement by statement.
ScanStatements(base, seq) == FoldLeft(ScanStatement, base, seq)
StatementRun(h, n, base, seq) ==
    h[0] = base /\ \A i \in 1 .. n : h[i] = ScanStatement(h[i - 1], seq[i])
LEMMA StatementFold ==
    ASSUME NEW n \in Nat, NEW seq, DOMAIN seq = 1 .. n, NEW V, NEW base \in V,
           \A v \in V : \A i \in 1 .. n : ScanStatement(v, seq[i]) \in V
    PROVE  \E h \in [0 .. n -> V] :
               ScanStatements(base, seq) = h[n] /\ StatementRun(h, n, base, seq)
<1> DEFINE step == [x \in (1 .. n) \X V |-> ScanStatement(x[2], seq[x[1]])]
           Folds(g) == g = [s \in SUBSET (1 .. n) |->
               IF s = {} THEN base ELSE ScanStatement(g[s \ {Max(s)}], seq[Max(s)])]
           F == CHOOSE g : Folds(g)
<1>1. ScanStatements(base, seq) = F[1 .. n]
  BY DEF ScanStatements, FoldLeft, MapThenFoldSet
<1>2. step \in [(1 .. n) \X V -> V]
  OBVIOUS
<1>3. \A v \in V : \A i \in 1 .. n : step[<<i, v>>] = ScanStatement(v, seq[i])
  OBVIOUS
<1> HIDE DEF F, Folds, step
<1>4. PICK f \in [SUBSET (1 .. n) -> V] : IsFold(f, n, base, step)
  BY <1>2, FoldExists
<1>5. \A s \in SUBSET (1 .. n) : f[s] =
          IF s = {} THEN base ELSE ScanStatement(f[s \ {Max(s)}], seq[Max(s)])
  <2> TAKE s \in SUBSET (1 .. n)
  <2>1. CASE s = {}  BY <1>4, <2>1 DEF IsFold
  <2>2. CASE s # {}
    <3>1. Max(s) \in 1 .. n  BY <2>2, MaxFacts
    <3>2. f[s \ {Max(s)}] \in V  BY <1>4
    <3> QED BY <1>3, <1>4, <2>2, <3>1, <3>2 DEF IsFold
  <2> QED BY <2>1, <2>2
<1>6. Folds(f)  BY <1>4, <1>5 DEF Folds
<1>7. Folds(F)  BY <1>6 DEF F
<1>8. ASSUME NEW s \in SUBSET (1 .. n), s # {}, F[s \ {Max(s)}] \in V
      PROVE  F[s] = step[<<Max(s), F[s \ {Max(s)}]>>]
  <2>1. Max(s) \in 1 .. n  BY <1>8, MaxFacts
  <2>2. F[s] = ScanStatement(F[s \ {Max(s)}], seq[Max(s)])  BY <1>7, <1>8 DEF Folds
  <2> QED BY <1>3, <1>8, <2>1, <2>2
<1>9. FoldsIn(F, V, n, base, step)
  <2>1. F[{}] = base  BY <1>7 DEF Folds
  <2> QED BY <1>8, <2>1 DEF FoldsIn
<1>10. PICK h \in [0 .. n -> V] : F[1 .. n] = h[n] /\ Places(h, n, base, step)
  BY <1>2, <1>9, FoldResult
<1>11. StatementRun(h, n, base, seq)
  <2>1. ASSUME NEW i \in 1 .. n PROVE h[i] = ScanStatement(h[i - 1], seq[i])
    <3>1. h[i - 1] \in V  BY <1>10
    <3> QED BY <1>3, <1>10, <3>1 DEF Places
  <2> QED BY <1>10, <2>1 DEF Places, StatementRun
<1> QED BY <1>1, <1>10, <1>11

\* The scan of the files.
ScanFiles(base, seq) == FoldLeft(ScanFile, base, seq)
LEMMA FileFold ==
    ASSUME NEW n \in Nat, NEW seq, DOMAIN seq = 1 .. n, NEW V, NEW base \in V,
           \A v \in V : \A i \in 1 .. n : ScanFile(v, seq[i]) \in V
    PROVE  ScanFiles(base, seq) \in V
<1> DEFINE step == [x \in (1 .. n) \X V |-> ScanFile(x[2], seq[x[1]])]
           Folds(g) == g = [s \in SUBSET (1 .. n) |->
               IF s = {} THEN base ELSE ScanFile(g[s \ {Max(s)}], seq[Max(s)])]
           F == CHOOSE g : Folds(g)
<1>1. ScanFiles(base, seq) = F[1 .. n]
  BY DEF ScanFiles, FoldLeft, MapThenFoldSet
<1>2. step \in [(1 .. n) \X V -> V]
  OBVIOUS
<1>3. \A v \in V : \A i \in 1 .. n : step[<<i, v>>] = ScanFile(v, seq[i])
  OBVIOUS
<1> HIDE DEF F, Folds, step
<1>4. PICK f \in [SUBSET (1 .. n) -> V] : IsFold(f, n, base, step)
  BY <1>2, FoldExists
<1>5. \A s \in SUBSET (1 .. n) : f[s] =
          IF s = {} THEN base ELSE ScanFile(f[s \ {Max(s)}], seq[Max(s)])
  <2> TAKE s \in SUBSET (1 .. n)
  <2>1. CASE s = {}  BY <1>4, <2>1 DEF IsFold
  <2>2. CASE s # {}
    <3>1. Max(s) \in 1 .. n  BY <2>2, MaxFacts
    <3>2. f[s \ {Max(s)}] \in V  BY <1>4
    <3> QED BY <1>3, <1>4, <2>2, <3>1, <3>2 DEF IsFold
  <2> QED BY <2>1, <2>2
<1>6. Folds(f)  BY <1>4, <1>5 DEF Folds
<1>7. Folds(F)  BY <1>6 DEF F
<1>8. ASSUME NEW s \in SUBSET (1 .. n), s # {}, F[s \ {Max(s)}] \in V
      PROVE  F[s] = step[<<Max(s), F[s \ {Max(s)}]>>]
  <2>1. Max(s) \in 1 .. n  BY <1>8, MaxFacts
  <2>2. F[s] = ScanFile(F[s \ {Max(s)}], seq[Max(s)])  BY <1>7, <1>8 DEF Folds
  <2> QED BY <1>3, <1>8, <2>1, <2>2
<1>9. FoldsIn(F, V, n, base, step)
  <2>1. F[{}] = base  BY <1>7 DEF Folds
  <2> QED BY <1>8, <2>1 DEF FoldsIn
<1>10. PICK h \in [0 .. n -> V] : F[1 .. n] = h[n] /\ Places(h, n, base, step)
  BY <1>2, <1>9, FoldResult
<1> QED BY <1>1, <1>10
-----------------------------------------------------------------------------
(* scan_archives. *)

\* The CMake files, and the values of their statements.
CMakeFiles == UNION {Range(Repository[rev].cmake) : rev \in DOMAIN Repository}
Values == {s.value : s \in UNION {Range(file) : file \in CMakeFiles}}
Names == {v.name : v \in Values}

\* Functions from some of the names.
Partial(S, A) == UNION {[D -> A] : D \in SUBSET S}

\* A file states the hash next to its url.
Stated(a) ==
    \E file \in CMakeFiles : \E i \in DOMAIN file \ {1} :
        /\ file[i - 1] = [is |-> "url", value |-> a.url]
        /\ file[i] = [is |-> "hash", value |-> a.hash]
Archive == [url : Values, hash : Values]
StatedArchives == Partial(Names, {a \in Archive : Stated(a)})
Scans == [archives : Partial(Names, Archive), pending : Values \cup {None}]

\* One archive more.
LEMMA PutPartial ==
    ASSUME NEW S, NEW A, NEW f \in Partial(S, A), NEW k \in S, NEW a \in A
    PROVE  Put(f, k, a) \in Partial(S, A)
<1>1. PICK D \in SUBSET S : f \in [D -> A]  BY DEF Partial
<1>2. Put(f, k, a) \in [{k} \cup D -> A]  BY <1>1 DEF Put
<1>3. {k} \cup D \in SUBSET S  BY <1>1
<1> QED BY <1>2, <1>3 DEF Partial

\* The empty file of pins.
LEMMA NothingYet == ASSUME NEW S, NEW A PROVE <<>> \in Partial(S, A)
<1>1. <<>> \in [{} -> A]  OBVIOUS
<1> QED BY <1>1 DEF Partial

\* A statement keeps the scan well-formed.
LEMMA StatementIn ==
    ASSUME NEW scan \in Scans, NEW s, s.is \in {"url", "hash"}, s.value \in Values
    PROVE  ScanStatement(scan, s) \in Scans
<1>1. scan.archives \in Partial(Names, Archive) /\ scan.pending \in Values \cup {None}
      /\ scan = [archives |-> scan.archives, pending |-> scan.pending]
  BY DEF Scans
<1>2. CASE s.is = "url"
  BY <1>1, <1>2 DEF Scans, ScanStatement
<1>3. CASE s.is = "hash" /\ scan.pending # None /\ scan.pending.https
  <2>1. scan.pending.name \in Names  BY <1>1, <1>3 DEF Names
  <2>2. [url |-> scan.pending, hash |-> s.value] \in Archive  BY <1>1, <1>3 DEF Archive
  <2>3. ScanStatement(scan, s) =
            [archives |-> Put(scan.archives, scan.pending.name,
                              [url |-> scan.pending, hash |-> s.value]),
             pending |-> None]
    BY <1>3 DEF ScanStatement
  <2> QED BY <1>1, <2>1, <2>2, <2>3, PutPartial DEF Scans
<1>4. CASE s.is = "hash" /\ ~(scan.pending # None /\ scan.pending.https)
  BY <1>4 DEF ScanStatement
<1> QED BY <1>2, <1>3, <1>4

\* What a CMake file is made of.
LEMMA FileStatements ==
    ASSUME NEW file \in CMakeFiles
    PROVE  /\ DOMAIN file = 1 .. Len(file) /\ Len(file) \in Nat
           /\ \A i \in 1 .. Len(file) :
                /\ file[i] = [is |-> file[i].is, value |-> file[i].value]
                /\ file[i].is \in {"url", "hash"} /\ file[i].value \in Values
<1>1. PICK rev \in DOMAIN Repository : file \in Range(Repository[rev].cmake)
  BY DEF CMakeFiles
<1>2. file \in Seq(Range(file))
      /\ \A s \in Range(file) : s = [is |-> s.is, value |-> s.value] /\ s.is \in {"url", "hash"}
  BY <1>1, SourcesAssumption
<1>3. DOMAIN file = 1 .. Len(file) /\ Len(file) \in Nat  BY <1>2, LenProperties
<1>4. \A i \in 1 .. Len(file) : file[i] \in Range(file)  BY <1>3 DEF Range
<1>5. \A s \in Range(file) : s.value \in Values  BY DEF Values
<1> QED BY <1>2, <1>3, <1>4, <1>5

\* A file adds to the archives only what it states.
LEMMA FileIn ==
    ASSUME NEW file \in CMakeFiles, NEW archives \in StatedArchives
    PROVE  ScanFile(archives, file) \in StatedArchives
<1> DEFINE n == Len(file)
           base == [archives |-> archives, pending |-> None]
<1>1. /\ DOMAIN file = 1 .. n /\ n \in Nat
      /\ \A i \in 1 .. n : /\ file[i] = [is |-> file[i].is, value |-> file[i].value]
                           /\ file[i].is \in {"url", "hash"} /\ file[i].value \in Values
  BY FileStatements
<1>2. archives \in Partial(Names, Archive)
  BY DEF StatedArchives, Partial
<1>3. base \in Scans  BY <1>2 DEF Scans
<1>4. \A v \in Scans : \A i \in 1 .. n : ScanStatement(v, file[i]) \in Scans
  BY <1>1, StatementIn
<1> HIDE DEF n
<1>5. PICK h \in [0 .. n -> Scans] :
          ScanStatements(base, file) = h[n] /\ StatementRun(h, n, base, file)
  <2> HIDE DEF base
  <2>1. n \in Nat /\ DOMAIN file = 1 .. n  BY <1>1
  <2> QED BY <2>1, <1>3, <1>4, StatementFold
<1> DEFINE Good(i) ==
               /\ h[i].archives \in StatedArchives
               /\ h[i].pending # None /\ h[i].pending.https =>
                    i # 0 /\ file[i] = [is |-> "url", value |-> h[i].pending]
           T == {i \in Nat : i <= n => Good(i)}
<1>6. 0 \in T
  <2>1. h[0].archives = archives /\ h[0].pending = None  BY <1>5 DEF StatementRun
  <2> QED BY <2>1
<1>7. ASSUME NEW i \in Nat, i \in T PROVE i + 1 \in T
  <2> SUFFICES ASSUME i + 1 <= n PROVE Good(i + 1)
    OBVIOUS
  <2>1. Good(i)
    <3>1. i <= n  BY <1>1
    <3> QED BY <1>7, <3>1
  <2> DEFINE scan == h[i]  s == file[i + 1]
  <2>2. i + 1 \in 1 .. n /\ i \in 0 .. n /\ (i + 1) - 1 = i  BY <1>1
  <2>3. scan \in Scans /\ h[i + 1] = ScanStatement(scan, s)  BY <1>5, <2>2 DEF StatementRun
  <2>4. /\ scan = [archives |-> scan.archives, pending |-> scan.pending]
        /\ scan.archives \in StatedArchives
        /\ scan.pending \in Values \cup {None}
        /\ scan.pending # None /\ scan.pending.https =>
             i # 0 /\ file[i] = [is |-> "url", value |-> scan.pending]
    BY <2>1, <2>3 DEF Scans
  <2>5. s = [is |-> s.is, value |-> s.value] /\ s.is \in {"url", "hash"} /\ s.value \in Values
    BY <1>1, <2>2
  <2> HIDE DEF T, scan, s
  <2>6. CASE s.is = "url"
    <3>1. ScanStatement(scan, s) = [scan EXCEPT !.pending = s.value]
      BY <2>6 DEF ScanStatement
    <3>2. h[i + 1].archives = scan.archives /\ h[i + 1].pending = s.value
      BY <2>3, <2>4, <3>1
    <3>3. file[i + 1] = [is |-> "url", value |-> s.value]  BY <2>5, <2>6 DEF s
    <3> QED BY <2>4, <3>2, <3>3
  <2>7. CASE s.is = "hash" /\ scan.pending # None /\ scan.pending.https
    <3> DEFINE a == [url |-> scan.pending, hash |-> s.value]
    <3>1. ScanStatement(scan, s) =
            [archives |-> Put(scan.archives, scan.pending.name, a), pending |-> None]
      BY <2>7 DEF ScanStatement
    <3>2. h[i + 1].archives = Put(scan.archives, scan.pending.name, a) /\ h[i + 1].pending = None
      BY <2>3, <3>1
    <3>3. file[i] = [is |-> "url", value |-> a.url] /\ i # 0  BY <2>4, <2>7
    <3>4. file[i + 1] = [is |-> "hash", value |-> a.hash]  BY <2>5, <2>7 DEF s
    <3>5. i + 1 \in DOMAIN file \ {1}  BY <1>1, <2>2, <3>3
    <3>6. a \in Archive /\ scan.pending.name \in Names
      BY <2>4, <2>5, <2>7 DEF Archive, Names
    <3> HIDE DEF a
    <3>7. Stated(a)  BY <2>2, <3>3, <3>4, <3>5 DEF Stated
    <3>8. Put(scan.archives, scan.pending.name, a) \in StatedArchives
      <4>1. a \in {b \in Archive : Stated(b)}  BY <3>6, <3>7
      <4> QED BY <2>4, <3>6, <4>1, PutPartial DEF StatedArchives
    <3> QED BY <3>2, <3>8
  <2>8. CASE s.is = "hash" /\ ~(scan.pending # None /\ scan.pending.https)
    <3>1. h[i + 1] = scan  BY <2>3, <2>8 DEF ScanStatement
    <3> QED BY <2>4, <2>8, <3>1
  <2> QED BY <2>5, <2>6, <2>7, <2>8
<1> HIDE DEF T
<1>8. Nat \subseteq T  BY <1>6, <1>7, Induction
<1>9. h[n].archives \in StatedArchives
  <2>1. n \in T /\ n <= n  BY <1>1, <1>8
  <2> QED BY <2>1 DEF T
<1> QED BY <1>5, <1>9 DEF ScanFile, ScanStatements

\* Every archive that scan_archives finds is stated by some file, hash after url.
LEMMA ArchivesAreStated ==
    ASSUME NEW rev \in DOMAIN Repository
    PROVE  ScanArchives(rev) \in StatedArchives
<1> DEFINE files == Repository[rev].cmake  n == Len(files)
<1>1. files \in Seq(Range(files))  BY SourcesAssumption
<1>2. DOMAIN files = 1 .. n /\ n \in Nat  BY <1>1, LenProperties
<1>3. \A i \in 1 .. n : files[i] \in CMakeFiles  BY <1>2 DEF CMakeFiles, Range
<1>4. \A v \in StatedArchives : \A i \in 1 .. n : ScanFile(v, files[i]) \in StatedArchives
  BY <1>3, FileIn
<1>5. <<>> \in StatedArchives  BY NothingYet DEF StatedArchives
<1> HIDE DEF files, n
<1>6. ScanFiles(<<>>, files) \in StatedArchives
  BY <1>2, <1>4, <1>5, FileFold
<1> QED BY <1>6 DEF ScanArchives, ScanFiles, files
-----------------------------------------------------------------------------
(* install_source, over the tree. *)

\* rm -rf of a destination leaves what does not lie in it.
LEMMA InstallKeeps ==
    ASSUME NEW staged, NEW e, e.path \in Seq(STRING)
    PROVE  /\ e.path \in DOMAIN InstallSource(staged, e)
           /\ InstallSource(staged, e)[e.path] = e.rev
           /\ \A p \in DOMAIN staged : ~IsPrefix(e.path, p) =>
                /\ p \in DOMAIN InstallSource(staged, e)
                /\ InstallSource(staged, e)[p] = staged[p]
<1>1. Len(e.path) \in Nat  BY LenProperties
<1>2. IsPrefix(e.path, e.path)  BY <1>1 DEF IsPrefix
<1> QED BY <1>2 DEF InstallSource

\* A staged tree stays one.
LEMMA InstallIn ==
    ASSUME NEW P, NEW R, NEW staged \in Partial(P, R), NEW e, e.path \in P, e.rev \in R
    PROVE  InstallSource(staged, e) \in Partial(P, R)
<1> DEFINE kept == {p \in DOMAIN staged : ~IsPrefix(e.path, p)}
<1>1. PICK D \in SUBSET P : staged \in [D -> R]  BY DEF Partial
<1>2. InstallSource(staged, e) =
          [p \in {e.path} \cup kept |-> IF p \in kept THEN staged[p] ELSE e.rev]
  BY DEF InstallSource
<1>3. kept \subseteq D /\ \A p \in kept : staged[p] \in R  BY <1>1
<1> HIDE DEF kept
<1>4. InstallSource(staged, e) \in [{e.path} \cup kept -> R] /\ {e.path} \cup kept \in SUBSET P
  BY <1>1, <1>2, <1>3
<1> QED BY <1>4 DEF Partial

\* No entry lies in a later one.
Ordered(entries) ==
    \E n \in Nat :
        /\ DOMAIN entries = 1 .. n
        /\ \A i \in 1 .. n : entries[i].path \in Path
        /\ \A i, j \in 1 .. n : i < j => ~IsPrefix(entries[j].path, entries[i].path)

\* In such an order nothing that is staged is lost.
THEOREM StagingKeepsAll ==
    ASSUME NEW root, NEW entries, Ordered(entries)
    PROVE  /\ Stage(root, entries)[<<>>] = root
           /\ \A i \in DOMAIN entries :
                /\ entries[i].path \in DOMAIN Stage(root, entries)
                /\ Stage(root, entries)[entries[i].path] = entries[i].rev
<1>1. PICK n \in Nat :
         /\ DOMAIN entries = 1 .. n
         /\ \A i \in 1 .. n : entries[i].path \in Path
         /\ \A i, j \in 1 .. n : i < j => ~IsPrefix(entries[j].path, entries[i].path)
  BY DEF Ordered
<1> DEFINE P == {<<>>} \cup {entries[i].path : i \in 1 .. n}
           R == {root} \cup {entries[i].rev : i \in 1 .. n}
           base == [p \in {<<>>} |-> root]
<1>2. P \subseteq Seq(STRING)  BY <1>1, EmptySeq DEF Path
<1>3. \A i \in 1 .. n : entries[i].path \in P /\ entries[i].rev \in R  OBVIOUS
<1>4. base \in Partial(P, R)
  <2>1. base \in [{<<>>} -> R] /\ {<<>>} \in SUBSET P  OBVIOUS
  <2> QED BY <2>1 DEF Partial
<1>5. base[<<>>] = root /\ <<>> \in DOMAIN base  OBVIOUS
<1>6. \A i \in 1 .. n : ~IsPrefix(entries[i].path, <<>>)
  <2> TAKE i \in 1 .. n
  <2>1. entries[i].path \in Seq(STRING) /\ entries[i].path # <<>>  BY <1>1 DEF Path
  <2>2. Len(entries[i].path) \in Nat \ {0}  BY <2>1, EmptySeq, LenProperties
  <2>3. Len(<<>>) = 0  OBVIOUS
  <2> QED BY <2>2, <2>3 DEF IsPrefix
<1> HIDE DEF P, R, base
<1>7. \A v \in Partial(P, R) : \A i \in 1 .. n : InstallSource(v, entries[i]) \in Partial(P, R)
  BY <1>3, InstallIn
<1>8. PICK h \in [0 .. n -> Partial(P, R)] :
          InstallAll(base, entries) = h[n] /\ StageRun(h, n, base, entries)
  BY <1>1, <1>4, <1>7, StageFold
<1> DEFINE Kept(i) == /\ <<>> \in DOMAIN h[i] /\ h[i][<<>>] = root
                      /\ \A j \in 1 .. i : /\ entries[j].path \in DOMAIN h[i]
                                           /\ h[i][entries[j].path] = entries[j].rev
           T == {i \in Nat : i <= n => Kept(i)}
<1>9. 0 \in T
  BY <1>5, <1>8 DEF StageRun
<1>10. ASSUME NEW i \in Nat, i \in T PROVE i + 1 \in T
  <2> SUFFICES ASSUME i + 1 <= n PROVE Kept(i + 1)
    OBVIOUS
  <2>1. i <= n /\ i \in 0 .. n /\ i + 1 \in 1 .. n /\ (i + 1) - 1 = i  OBVIOUS
  <2>2. Kept(i)  BY <1>10, <2>1
  <2> DEFINE e == entries[i + 1]
  <2>3. /\ h[i] \in Partial(P, R) /\ h[i + 1] = InstallSource(h[i], e)
        /\ e.path \in P /\ e.rev \in R
    BY <1>3, <1>8, <2>1 DEF StageRun
  <2> HIDE DEF e, T
  <2> DEFINE new == InstallSource(h[i], e)
  <2>4. /\ e.path \in DOMAIN new /\ new[e.path] = e.rev
        /\ \A p \in DOMAIN h[i] : ~IsPrefix(e.path, p) => p \in DOMAIN new /\ new[p] = h[i][p]
    <3>1. e.path \in Seq(STRING)  BY <1>2, <2>3
    <3> QED BY <3>1, InstallKeeps
  <2>5. <<>> \in DOMAIN h[i + 1] /\ h[i + 1][<<>>] = root
    BY <1>6, <2>1, <2>2, <2>3, <2>4 DEF e
  <2>6. ASSUME NEW j \in 1 .. i + 1
        PROVE  entries[j].path \in DOMAIN h[i + 1] /\ h[i + 1][entries[j].path] = entries[j].rev
    <3>1. CASE j = i + 1  BY <2>3, <2>4, <3>1 DEF e
    <3>2. CASE j # i + 1
      <4>1. j \in 1 .. i /\ j \in 1 .. n /\ j < i + 1  BY <2>1, <3>2
      <4>2. ~IsPrefix(e.path, entries[j].path)  BY <1>1, <2>1, <4>1 DEF e
      <4> QED BY <2>2, <2>3, <2>4, <4>1, <4>2
    <3> QED BY <3>1, <3>2
  <2> QED BY <2>5, <2>6
<1> HIDE DEF T
<1>11. Nat \subseteq T  BY <1>9, <1>10, Induction
<1>12. n \in T /\ n <= n  BY <1>1, <1>11
<1>13. Kept(n)  BY <1>12 DEF T
<1>14. Stage(root, entries) = h[n]  BY <1>8 DEF Stage, InstallAll, base
<1> QED BY <1>1, <1>13, <1>14
-----------------------------------------------------------------------------
(* Paths. *)

Text == Seq(STRING)

\* A prefix agrees with the path as far as it goes.
LEMMA PrefixIs ==
    ASSUME NEW s \in Text, NEW t \in Text
    PROVE  IsPrefix(s, t) <=> Len(s) <= Len(t) /\ \A i \in 1 .. Len(s) : s[i] = t[i]
<1>1. Len(s) \in Nat /\ Len(t) \in Nat  BY LenProperties DEF Text
<1>2. SubSeq(s, 1, Len(s)) \in Text /\ Len(SubSeq(s, 1, Len(s))) = Len(s)
      /\ \A i \in 1 .. Len(s) : SubSeq(s, 1, Len(s))[i] = s[i]
  BY <1>1, SubSeqProperties DEF Text
<1>3. ASSUME Len(s) <= Len(t)
      PROVE  SubSeq(t, 1, Len(s)) \in Text /\ Len(SubSeq(t, 1, Len(s))) = Len(s)
             /\ \A i \in 1 .. Len(s) : SubSeq(t, 1, Len(s))[i] = t[i]
  BY <1>1, <1>3, SubSeqProperties DEF Text
<1>4. ASSUME Len(s) <= Len(t), \A i \in 1 .. Len(s) : s[i] = t[i]
      PROVE  SubSeq(s, 1, Len(s)) = SubSeq(t, 1, Len(s))
  BY <1>1, <1>2, <1>3, <1>4, SeqEqual DEF Text
<1>5. ASSUME IsPrefix(s, t)
      PROVE  Len(s) <= Len(t) /\ \A i \in 1 .. Len(s) : s[i] = t[i]
  BY <1>1, <1>2, <1>3, <1>5 DEF IsPrefix
<1> QED BY <1>4, <1>5 DEF IsPrefix

\* Of two prefixes of a path one is a prefix of the other.
LEMMA PrefixesNest ==
    ASSUME NEW s \in Text, NEW t \in Text, NEW path \in Text,
           IsPrefix(s, path), IsPrefix(t, path), Len(s) <= Len(t)
    PROVE  IsPrefix(s, t) /\ (Len(s) = Len(t) => s = t)
<1>1. Len(s) \in Nat /\ Len(t) \in Nat /\ Len(path) \in Nat  BY LenProperties DEF Text
<1>2. /\ \A i \in 1 .. Len(s) : s[i] = path[i]
      /\ \A i \in 1 .. Len(t) : t[i] = path[i]
  BY PrefixIs
<1>3. \A i \in 1 .. Len(s) : s[i] = t[i]  BY <1>1, <1>2
<1>4. Len(s) = Len(t) => s = t  BY <1>3, SeqEqual DEF Text
<1> QED BY <1>3, <1>4, PrefixIs

\* A path and its parent.
LEMMA BelowParent ==
    ASSUME NEW q \in Text, NEW rest \in Text \ {<<>>}
    PROVE  /\ q \o rest \in Text \ {<<>>} /\ IsStrictPrefix(q, q \o rest)
           /\ Len(q) < Len(q \o rest)
           /\ SubSeq(q \o rest, Len(q) + 1, Len(q \o rest)) = rest
<1> DEFINE path == q \o rest
<1>1. Len(q) \in Nat /\ Len(rest) \in Nat /\ Len(rest) # 0
  BY LenProperties, EmptySeq DEF Text
<1>2. /\ path \in Text /\ Len(path) = Len(q) + Len(rest)
      /\ \A i \in 1 .. Len(path) : path[i] = IF i <= Len(q) THEN q[i] ELSE rest[i - Len(q)]
  BY ConcatProperties DEF Text
<1> HIDE DEF path
<1>3. Len(q) < Len(path) /\ path # <<>> /\ q # path  BY <1>1, <1>2
<1>4. IsPrefix(q, path)
  <2>1. \A i \in 1 .. Len(q) : i \in 1 .. Len(path) /\ i <= Len(q)  BY <1>1, <1>2
  <2>2. \A i \in 1 .. Len(q) : q[i] = path[i]  BY <1>2, <2>1
  <2> QED BY <1>2, <1>3, <2>2, PrefixIs
<1>5. SubSeq(path, Len(q) + 1, Len(path)) = rest
  <2> DEFINE sub == SubSeq(path, Len(q) + 1, Len(path))
  <2>1. sub \in Text /\ Len(sub) = Len(rest)
        /\ \A i \in 1 .. Len(rest) : sub[i] = path[Len(q) + i]
    <3>1. Len(q) + 1 \in 1 .. Len(path) + 1 /\ Len(path) \in Len(q) .. Len(path)
      BY <1>1, <1>2
    <3> QED BY <1>1, <1>2, <3>1, SubSeqProperties DEF Text
  <2>2. \A i \in 1 .. Len(rest) : path[Len(q) + i] = rest[i]
    <3> TAKE i \in 1 .. Len(rest)
    <3>1. Len(q) + i \in 1 .. Len(path) /\ ~(Len(q) + i <= Len(q)) /\ (Len(q) + i) - Len(q) = i
      BY <1>1, <1>2
    <3> QED BY <1>2, <3>1
  <2> HIDE DEF sub
  <2>3. sub = rest  BY <2>1, <2>2, SeqEqual DEF Text
  <2> QED BY <2>3 DEF sub
<1> QED BY <1>2, <1>3, <1>4, <1>5 DEF path, IsStrictPrefix

\* What lies below one parent.
LEMMA SameParent ==
    ASSUME NEW q \in Text, NEW a \in Text, NEW b \in Text, IsPrefix(q \o a, q \o b)
    PROVE  IsPrefix(a, b)
<1>1. Len(q) \in Nat /\ Len(a) \in Nat /\ Len(b) \in Nat  BY LenProperties DEF Text
<1>2. /\ q \o a \in Text /\ Len(q \o a) = Len(q) + Len(a)
      /\ \A i \in 1 .. Len(q) + Len(a) : (q \o a)[i] = IF i <= Len(q) THEN q[i] ELSE a[i - Len(q)]
  BY ConcatProperties DEF Text
<1>3. /\ q \o b \in Text /\ Len(q \o b) = Len(q) + Len(b)
      /\ \A i \in 1 .. Len(q) + Len(b) : (q \o b)[i] = IF i <= Len(q) THEN q[i] ELSE b[i - Len(q)]
  BY ConcatProperties DEF Text
<1>4. Len(q \o a) <= Len(q \o b) /\ \A i \in 1 .. Len(q \o a) : (q \o a)[i] = (q \o b)[i]
  BY <1>2, <1>3, PrefixIs
<1>5. Len(a) <= Len(b)  BY <1>1, <1>2, <1>3, <1>4
<1>6. \A i \in 1 .. Len(a) : a[i] = b[i]
  <2> TAKE i \in 1 .. Len(a)
  <2>1. /\ Len(q) + i \in 1 .. Len(q) + Len(a) /\ Len(q) + i \in 1 .. Len(q) + Len(b)
        /\ ~(Len(q) + i <= Len(q)) /\ (Len(q) + i) - Len(q) = i
    BY <1>1, <1>5
  <2>2. (q \o a)[Len(q) + i] = a[i] /\ (q \o b)[Len(q) + i] = b[i]  BY <1>2, <1>3, <2>1
  <2> QED BY <1>2, <1>4, <2>1, <2>2
<1> QED BY <1>5, <1>6, PrefixIs
-----------------------------------------------------------------------------
(* A graph and what git records. *)

Urls == {m.url : m \in UNION {Submodules(rev) : rev \in DOMAIN Repository}}
Entry == [url : Urls, rev : DOMAIN Repository]

\* The repository at a path of a graph, and the links of its tree.
LinksAt(root, graph, q) == Repository[IF q = <<>> THEN root ELSE graph[q].rev].links
\* `path' is what the tree of the entry at `q' links at `rest'.
Linked(root, graph, path, q, rest) ==
    /\ q \in {<<>>} \cup DOMAIN graph
    /\ rest \in DOMAIN LinksAt(root, graph, q)
    /\ path = q \o rest /\ LinksAt(root, graph, q)[rest] = graph[path].rev
Grown(root, graph) ==
    \A path \in DOMAIN graph : \E q, rest : Linked(root, graph, path, q, rest)

\* What git keeps of a repository in a graph.
LEMMA LinksArePaths ==
    ASSUME NEW root \in DOMAIN Repository, NEW g \in Partial(Path, Entry),
           NEW q \in {<<>>} \cup DOMAIN g, NEW rest \in DOMAIN LinksAt(root, g, q)
    PROVE  /\ q \in Text /\ rest \in Text \ {<<>>}
           /\ LinksAt(root, g, q)[rest] \in DOMAIN Repository
           /\ \A other \in DOMAIN LinksAt(root, g, q) : ~IsStrictPrefix(other, rest)
<1>1. q \in Text  BY EmptySeq DEF Partial, Path, Text
<1>2. PICK rev \in DOMAIN Repository : LinksAt(root, g, q) = Repository[rev].links
  <2>1. (IF q = <<>> THEN root ELSE g[q].rev) \in DOMAIN Repository  BY DEF Partial, Entry
  <2> QED BY <2>1 DEF LinksAt
<1> QED BY <1>1, <1>2, RepositoryAssumption DEF Path, Text

\* A repository between a path and its parent.
Between(g, q, path) == {r \in DOMAIN g : IsStrictPrefix(r, path) /\ Len(q) < Len(r)}

\* The parent of an entry is its innermost enclosing repository.
LEMMA ParentIsInnermost ==
    ASSUME NEW root \in DOMAIN Repository, NEW g \in Partial(Path, Entry), Grown(root, g)
    PROVE  \A path \in DOMAIN g : \A q, rest :
               Linked(root, g, path, q, rest) => Between(g, q, path) = {}
<1> DEFINE Bad == {path \in DOMAIN g : \E q, rest : Linked(root, g, path, q, rest)
                                                    /\ Between(g, q, path) # {}}
<1>1. DOMAIN g \subseteq Text  BY DEF Partial, Path, Text
<1>2. \A s \in Text : Len(s) \in Nat  BY LenProperties DEF Text
<1> SUFFICES ASSUME Bad # {} PROVE FALSE  OBVIOUS
<1>3. PICK path \in Bad : \A other \in Bad : Len(path) <= Len(other)
  <2> DEFINE T == {Len(p) : p \in Bad}
  <2>1. T \subseteq Nat /\ T # {}  BY <1>1, <1>2
  <2>2. \E n \in T : \A m \in T : n <= m
    <3> HIDE DEF T
    <3> QED BY <2>1, Least
  <2> QED BY <2>2
<1>4. PICK q, rest : Linked(root, g, path, q, rest) /\ Between(g, q, path) # {}
  OBVIOUS
<1>5. PICK r \in Between(g, q, path) : \A other \in Between(g, q, path) : Len(r) <= Len(other)
  <2> DEFINE T == {Len(p) : p \in Between(g, q, path)}
  <2>1. T \subseteq Nat /\ T # {}  BY <1>1, <1>2, <1>4 DEF Between
  <2>2. \E n \in T : \A m \in T : n <= m
    <3> HIDE DEF T
    <3> QED BY <2>1, Least
  <2> QED BY <2>2
<1>6. r \in DOMAIN g /\ IsPrefix(r, path) /\ r # path /\ Len(q) < Len(r)
  BY DEF Between, IsStrictPrefix
<1>7. PICK p, below : Linked(root, g, r, p, below)  BY <1>6 DEF Grown
<1>8. /\ q \in Text /\ rest \in Text \ {<<>>} /\ path = q \o rest
      /\ IsStrictPrefix(q, path) /\ Len(q) < Len(path)
  BY <1>4, LinksArePaths, BelowParent DEF Linked
<1>9. /\ p \in Text /\ below \in Text \ {<<>>} /\ r = p \o below
      /\ IsStrictPrefix(p, r) /\ Len(p) < Len(r)
  BY <1>7, LinksArePaths, BelowParent DEF Linked
<1>10. path \in Text /\ r \in Text /\ path \in DOMAIN g  BY <1>1, <1>6
<1>11. Len(p) \in Nat /\ Len(q) \in Nat /\ Len(r) \in Nat /\ Len(path) \in Nat
  BY <1>2, <1>8, <1>9, <1>10
<1>12. IsStrictPrefix(p, path) /\ Len(r) < Len(path)
  <2>1. Len(r) <= Len(path)  BY <1>6, <1>10, PrefixIs
  <2>2. Len(r) # Len(path)
    <3>1. IsPrefix(path, path)  BY <1>10, <1>11, PrefixIs
    <3> QED BY <1>6, <1>10, <1>11, <3>1, PrefixesNest
  <2>3. IsPrefix(p, path)
    <3>1. Len(p) <= Len(r) /\ \A i \in 1 .. Len(p) : p[i] = r[i]
      BY <1>9, <1>10, PrefixIs DEF IsStrictPrefix
    <3>2. \A i \in 1 .. Len(r) : r[i] = path[i]  BY <1>6, <1>10, PrefixIs
    <3>3. \A i \in 1 .. Len(p) : p[i] = path[i]  BY <1>11, <3>1, <3>2
    <3>4. Len(p) <= Len(path)  BY <1>11, <2>1, <3>1
    <3> QED BY <1>9, <1>10, <3>3, <3>4, PrefixIs
  <2>4. p # path  BY <1>9, <1>11, <2>1
  <2> QED BY <1>11, <2>1, <2>2, <2>3, <2>4 DEF IsStrictPrefix
<1>13. CASE Len(p) = Len(q)
  <2>1. p = q
    BY <1>8, <1>9, <1>10, <1>11, <1>12, <1>13, PrefixesNest DEF IsStrictPrefix
  <2>2. IsPrefix(below, rest)
    <3>1. IsPrefix(q \o below, q \o rest)  BY <1>6, <1>8, <1>9, <2>1
    <3> QED BY <1>8, <1>9, <3>1, SameParent
  <2>3. below # rest  BY <1>6, <1>8, <1>9, <2>1
  <2>4. below \in DOMAIN LinksAt(root, g, q)  BY <1>7, <2>1 DEF Linked
  <2>5. q \in {<<>>} \cup DOMAIN g /\ rest \in DOMAIN LinksAt(root, g, q)  BY <1>4 DEF Linked
  <2>6. ~IsStrictPrefix(below, rest)  BY <2>4, <2>5, LinksArePaths
  <2> QED BY <2>2, <2>3, <2>6 DEF IsStrictPrefix
<1>14. CASE Len(q) < Len(p)
  <2>1. p # <<>>
    <3>1. Len(p) # 0  BY <1>11, <1>14
    <3> QED BY <3>1
  <2>2. p \in DOMAIN g  BY <1>7, <2>1 DEF Linked
  <2>3. p \in Between(g, q, path)  BY <1>12, <1>14, <2>2 DEF Between
  <2>4. Len(r) <= Len(p)  BY <1>5, <2>3
  <2> QED BY <1>9, <1>11, <2>4
<1>15. CASE Len(p) < Len(q)
  <2>1. q # <<>>
    <3>1. Len(q) # 0  BY <1>11, <1>15
    <3> QED BY <3>1
  <2>2. q \in DOMAIN g  BY <1>4, <2>1 DEF Linked
  <2>3. IsPrefix(q, r) /\ q # r
    <3>1. Len(q) <= Len(r)  BY <1>6, <1>11
    <3>2. IsPrefix(q, r)  BY <1>6, <1>8, <1>10, <3>1, PrefixesNest DEF IsStrictPrefix
    <3>3. q # r  BY <1>6, <1>11
    <3> QED BY <3>2, <3>3
  <2>4. q \in Between(g, p, r)  BY <1>15, <2>2, <2>3 DEF Between, IsStrictPrefix
  <2>5. r \in Bad  BY <1>6, <1>7, <2>4
  <2>6. Len(path) <= Len(r)  BY <1>3, <2>5
  <2> QED BY <1>11, <1>12, <2>6
<1> QED BY <1>11, <1>13, <1>14, <1>15

\* A grown graph is what git records.
LEMMA GrownIsGits ==
    ASSUME NEW root \in DOMAIN Repository, NEW g \in Partial(Path, Entry), Grown(root, g)
    PROVE  IsGitsOwn(root, g)
<1> SUFFICES ASSUME NEW path \in DOMAIN g
             PROVE  LET q == Enclosing(g, path)
                        rev == IF q = <<>> THEN root ELSE g[q].rev
                        rest == SubSeq(path, Len(q) + 1, Len(path))
                    IN rest \in DOMAIN Repository[rev].links
                       /\ Repository[rev].links[rest] = g[path].rev
  BY DEF IsGitsOwn
<1>1. PICK q, rest : Linked(root, g, path, q, rest)  BY DEF Grown
<1>2. /\ q \in Text /\ rest \in Text \ {<<>>} /\ path = q \o rest /\ path \in Text
      /\ IsStrictPrefix(q, path) /\ SubSeq(path, Len(q) + 1, Len(path)) = rest
  BY <1>1, LinksArePaths, BelowParent DEF Linked
<1>3. \A s \in Text : Len(s) \in Nat  BY LenProperties DEF Text
<1>4. DOMAIN g \subseteq Text /\ <<>> \in Text  BY EmptySeq DEF Partial, Path, Text
<1>5. \A r \in DOMAIN g : IsStrictPrefix(r, path) => Len(r) <= Len(q)
  <2> TAKE r \in DOMAIN g
  <2> HAVE IsStrictPrefix(r, path)
  <2>1. Between(g, q, path) = {}  BY <1>1, ParentIsInnermost
  <2>2. ~(Len(q) < Len(r))  BY <2>1 DEF Between
  <2> QED BY <1>2, <1>3, <1>4, <2>2
<1> DEFINE e == Enclosing(g, path)
<1>6. /\ e \in {<<>>} \cup DOMAIN g /\ IsStrictPrefix(e, path)
      /\ \A r \in DOMAIN g : IsStrictPrefix(r, path) => Len(r) <= Len(e)
  <2>1. q \in {<<>>} \cup DOMAIN g  BY <1>1 DEF Linked
  <2> QED BY <1>2, <1>5, <2>1 DEF Enclosing
<1> HIDE DEF e
<1>7. e \in Text /\ Len(e) \in Nat /\ Len(q) \in Nat  BY <1>2, <1>3, <1>4, <1>6
<1>8. Len(<<>>) = 0  OBVIOUS
<1>9. Len(e) <= Len(q)
  BY <1>5, <1>6, <1>7, <1>8
<1>10. Len(q) <= Len(e)
  <2>1. q \in {<<>>} \cup DOMAIN g  BY <1>1 DEF Linked
  <2> QED BY <1>2, <1>6, <1>7, <1>8, <2>1
<1>11. e = q
  <2>1. Len(e) = Len(q)  BY <1>7, <1>9, <1>10
  <2> QED BY <1>2, <1>6, <1>7, <2>1, PrefixesNest DEF IsStrictPrefix
<1> QED BY <1>1, <1>2, <1>11 DEF Linked, LinksAt, e
-----------------------------------------------------------------------------
(* build_graph. *)

\* The graphs of `root' that have all of `paths', and the failed one.
GraphsWith(root, paths) ==
    {g \in Partial(Path, Entry) :
        Grown(root, g) /\ IsFiniteSet(DOMAIN g) /\ paths \subseteq DOMAIN g}
    \cup {Unresolved}

\* The url of a submodule.
LEMMA ResolvedUrl ==
    ASSUME NEW rev \in DOMAIN Repository, NEW selector, NEW preferName,
           NEW m \in Resolve(rev, selector, preferName)
    PROVE  m.url \in Urls
BY DEF Resolve, Urls

\* An entry that its parent's tree links.
LEMMA EntryGrows ==
    ASSUME NEW root \in DOMAIN Repository, NEW paths, NEW g \in GraphsWith(root, paths),
           g # Unresolved, NEW q \in {<<>>} \cup DOMAIN g, NEW at, NEW url \in Urls,
           NEW rev, rev = IF q = <<>> THEN root ELSE g[q].rev
    PROVE  LET new == AddEntry(g, q \o at, url, rev, at) IN
           new = Unresolved \/ new \in GraphsWith(root, {q \o at} \cup paths)
<1>1. /\ g \in Partial(Path, Entry) /\ Grown(root, g) /\ paths \subseteq DOMAIN g
      /\ IsFiniteSet(DOMAIN g) /\ LinksAt(root, g, q) = Repository[rev].links
  BY DEF GraphsWith, LinksAt
<1> SUFFICES ASSUME at \in DOMAIN LinksAt(root, g, q)
             PROVE  AddEntry(g, q \o at, url, rev, at) \in GraphsWith(root, {q \o at} \cup paths)
  BY <1>1 DEF AddEntry
<1> DEFINE path == q \o at
           entry == [url |-> url, rev |-> LinksAt(root, g, q)[at]]
           new == [p \in {path} \cup DOMAIN g |-> IF p \in DOMAIN g THEN g[p] ELSE entry]
<1>2. /\ q \in Text /\ at \in Text \ {<<>>} /\ LinksAt(root, g, q)[at] \in DOMAIN Repository
  BY <1>1, LinksArePaths
<1>3. path \in Path /\ q # path
  <2>1. path \in Text \ {<<>>} /\ IsStrictPrefix(q, path)  BY <1>2, BelowParent
  <2> HIDE DEF path
  <2> QED BY <2>1 DEF Path, Text, IsStrictPrefix
<1>4. entry \in Entry  BY <1>2 DEF Entry
<1>5. AddEntry(g, q \o at, url, rev, at) = new  BY <1>1 DEF AddEntry
<1>6. entry.rev = LinksAt(root, g, q)[at]  OBVIOUS
<1> HIDE DEF entry, path
<1>7. new \in Partial(Path, Entry)
  <2>1. PICK D \in SUBSET Path : g \in [D -> Entry]  BY <1>1 DEF Partial
  <2>2. new \in [{path} \cup D -> Entry] /\ {path} \cup D \in SUBSET Path
    BY <1>3, <1>4, <2>1
  <2> QED BY <2>2 DEF Partial
<1>8. DOMAIN new = {path} \cup DOMAIN g /\ \A p \in DOMAIN g : new[p] = g[p]
  OBVIOUS
<1>9. path \notin DOMAIN g => new[path] = entry
  OBVIOUS
<1> HIDE DEF new
<1>10. \A p \in {<<>>} \cup DOMAIN g : LinksAt(root, new, p) = LinksAt(root, g, p)
  BY <1>8 DEF LinksAt
<1>11. Grown(root, new)
  <2> SUFFICES ASSUME NEW p \in DOMAIN new PROVE \E par, rest : Linked(root, new, p, par, rest)
    BY DEF Grown
  <2>1. CASE p \in DOMAIN g
    <3>1. PICK par, rest : Linked(root, g, p, par, rest)  BY <1>1, <2>1 DEF Grown
    <3>2. Linked(root, new, p, par, rest)  BY <1>8, <1>10, <2>1, <3>1 DEF Linked
    <3> QED BY <3>2
  <2>2. CASE p \notin DOMAIN g
    <3>1. p = path /\ new[p] = entry  BY <1>8, <1>9, <2>2
    <3>2. Linked(root, new, p, q, at)  BY <1>6, <1>8, <1>10, <3>1 DEF Linked, path
    <3> QED BY <3>2
  <2> QED BY <2>1, <2>2
<1>12. IsFiniteSet(DOMAIN new)
  <2>1. DOMAIN new = DOMAIN g \cup {path}  BY <1>8
  <2> QED BY <1>1, <2>1, FS_AddElement
<1> QED BY <1>1, <1>5, <1>7, <1>8, <1>11, <1>12 DEF GraphsWith, path

\* A turn of the first loop adds its path.
LEMMA EnabledIn ==
    ASSUME NEW root \in DOMAIN Repository, NEW paths, NEW g \in GraphsWith(root, paths),
           NEW path \in Range(Repository[root].enabled)
    PROVE  AddEnabled(root, g, path) = Unresolved
           \/ AddEnabled(root, g, path) \in GraphsWith(root, {path} \cup paths)
<1> DEFINE metas == Resolve(root, path, FALSE)
           url == (CHOOSE m \in metas : TRUE).url
<1> SUFFICES ASSUME g # Unresolved, metas # {}, path \in DOMAIN Repository[root].links
             PROVE  AddEnabled(root, g, path) = Unresolved
                    \/ AddEnabled(root, g, path) \in GraphsWith(root, {path} \cup paths)
  BY DEF AddEnabled, AddEntry
<1>1. url \in Urls  BY ResolvedUrl
<1>2. path \in Seq(STRING)  BY RepositoryAssumption DEF Path
<1>3. <<>> \o path = path  BY <1>2
<1>4. AddEnabled(root, g, path) = AddEntry(g, <<>> \o path, url, root, path)
  BY <1>3 DEF AddEnabled
<1> HIDE DEF url, metas
<1>5. AddEntry(g, <<>> \o path, url, root, path) = Unresolved
      \/ AddEntry(g, <<>> \o path, url, root, path) \in GraphsWith(root, {<<>> \o path} \cup paths)
  BY <1>1, EntryGrows
<1> QED BY <1>3, <1>4, <1>5

\* A graph that has more has less.
LEMMA FewerPaths ==
    ASSUME NEW root, NEW path, NEW paths, NEW g \in GraphsWith(root, {path} \cup paths)
    PROVE  g \in GraphsWith(root, paths)
BY DEF GraphsWith

\* An entry below another keeps what there is.
LEMMA BelowIn ==
    ASSUME NEW root \in DOMAIN Repository, NEW paths, NEW g \in GraphsWith(root, paths),
           g # Unresolved, NEW parent \in DOMAIN g, NEW selector, NEW preferName
    PROVE  AddBelow(g, parent, selector, preferName) \in GraphsWith(root, paths)
<1> DEFINE metas == Resolve(g[parent].rev, selector, preferName)
           meta == CHOOSE m \in metas : TRUE
<1> SUFFICES ASSUME metas # {}
             PROVE  AddBelow(g, parent, selector, preferName) \in GraphsWith(root, paths)
  BY DEF AddBelow, GraphsWith
<1>1. parent \in Path /\ g[parent].rev \in DOMAIN Repository  BY DEF GraphsWith, Partial, Entry
<1>2. meta.url \in Urls  BY <1>1, ResolvedUrl
<1>3. g[parent].rev = IF parent = <<>> THEN root ELSE g[parent].rev  BY <1>1 DEF Path
<1>4. AddBelow(g, parent, selector, preferName) =
          AddEntry(g, parent \o meta.path, meta.url, g[parent].rev, meta.path)
  BY DEF AddBelow
<1> HIDE DEF meta, metas
<1> DEFINE new == AddEntry(g, parent \o meta.path, meta.url, g[parent].rev, meta.path)
<1>5. new = Unresolved \/ new \in GraphsWith(root, {parent \o meta.path} \cup paths)
  BY <1>2, <1>3, EntryGrows
<1> HIDE DEF new
<1>6. new \in GraphsWith(root, paths)  BY <1>5, FewerPaths DEF GraphsWith
<1> QED BY <1>4, <1>6 DEF new

\* So does a turn of the second loop.
LEMMA NestedIn ==
    ASSUME NEW root \in DOMAIN Repository, NEW paths, NEW g \in GraphsWith(root, paths), NEW spec
    PROVE  AddNested(root, g, spec) \in GraphsWith(root, paths)
BY BelowIn DEF AddNested, GraphsWith

\* And one of the third.
LEMMA DeepIn ==
    ASSUME NEW root \in DOMAIN Repository, NEW paths, NEW g \in GraphsWith(root, paths), NEW spec
    PROVE  AddDeep(g, spec) \in GraphsWith(root, paths)
BY BelowIn DEF AddDeep, GraphsWith

\* build_graph gives a graph of the root with all that is enabled, or raises.
LEMMA BuiltGraph ==
    ASSUME NEW root \in DOMAIN Repository, NEW policy, IsPolicy(policy)
    PROVE  BuildGraph(root, policy) \in GraphsWith(root, Range(Repository[root].enabled))
<1> DEFINE enabled == Repository[root].enabled  n == Len(enabled)
           nested == policy.nested  k == Len(nested)
           deep == policy.deep  l == Len(deep)
           V == GraphsWith(root, {})
           W == GraphsWith(root, Range(enabled))
<1>1. DOMAIN enabled = 1 .. n /\ n \in Nat  BY RepositoryAssumption, LenProperties
<1>2. DOMAIN nested = 1 .. k /\ k \in Nat  BY LenProperties DEF IsPolicy
<1>3. DOMAIN deep = 1 .. l /\ l \in Nat  BY LenProperties DEF IsPolicy
<1>4. <<>> \in V
  <2>1. <<>> \in Partial(Path, Entry)  BY NothingYet
  <2>2. DOMAIN <<>> = {}  OBVIOUS
  <2> QED BY <2>1, <2>2, FS_EmptySet DEF GraphsWith, Grown
<1>5. \A i \in 1 .. n : enabled[i] \in Range(enabled)  BY <1>1 DEF Range
<1>6. \A v \in V : \A i \in 1 .. n : AddEnabled(root, v, enabled[i]) \in V
  <2> TAKE v \in V
  <2> TAKE i \in 1 .. n
  <2>1. enabled[i] \in Range(enabled)  BY <1>5
  <2> DEFINE new == AddEnabled(root, v, enabled[i])
  <2>2. new = Unresolved \/ new \in GraphsWith(root, {enabled[i]} \cup {})
    BY <2>1, EnabledIn
  <2> HIDE DEF new
  <2>3. new \in V  BY <2>2, FewerPaths DEF GraphsWith
  <2> QED BY <2>3 DEF new
<1> HIDE DEF n, k, l, nested, deep, V, enabled
<1>7. PICK h \in [0 .. n -> V] :
          EnableAll(root, <<>>, enabled) = h[n] /\ EnabledRun(root, h, n, <<>>, enabled)
  BY <1>1, <1>4, <1>6, EnabledFold
<1> DEFINE T == {i \in Nat : i <= n => h[i] \in GraphsWith(root, {enabled[j] : j \in 1 .. i})}
<1>8. 0 \in T
  <2>1. h[0] = <<>>  BY <1>7 DEF EnabledRun
  <2>2. {enabled[j] : j \in 1 .. 0} = {}  OBVIOUS
  <2> QED BY <1>4, <2>1, <2>2 DEF V
<1>9. ASSUME NEW i \in Nat, i \in T PROVE i + 1 \in T
  <2> SUFFICES ASSUME i + 1 <= n
               PROVE  h[i + 1] \in GraphsWith(root, {enabled[j] : j \in 1 .. i + 1})
    OBVIOUS
  <2>1. i <= n /\ i + 1 \in 1 .. n /\ (i + 1) - 1 = i  BY <1>1
  <2> DEFINE done == {enabled[j] : j \in 1 .. i}  path == enabled[i + 1]
             new == AddEnabled(root, h[i], path)
  <2>2. h[i] \in GraphsWith(root, done)  BY <1>9, <2>1
  <2>3. {enabled[j] : j \in 1 .. i + 1} = {path} \cup done
    <3>1. 1 .. i + 1 = {i + 1} \cup 1 .. i  OBVIOUS
    <3> QED BY <3>1
  <2>4. path \in Range(Repository[root].enabled)  BY <1>5, <2>1 DEF enabled
  <2>5. h[i + 1] = new  BY <1>7, <2>1 DEF EnabledRun
  <2> HIDE DEF T, done, path
  <2>6. new = Unresolved \/ new \in GraphsWith(root, {path} \cup done)
    BY <2>2, <2>4, EnabledIn
  <2> HIDE DEF new
  <2>7. new \in GraphsWith(root, {path} \cup done)  BY <2>6 DEF GraphsWith
  <2> QED BY <2>3, <2>5, <2>7
<1> HIDE DEF T
<1>10. Nat \subseteq T  BY <1>8, <1>9, Induction
<1>11. EnableAll(root, <<>>, enabled) \in W
  <2>1. n \in T /\ n <= n  BY <1>1, <1>10
  <2>2. {enabled[j] : j \in 1 .. n} = Range(enabled)  BY <1>1 DEF Range
  <2> QED BY <1>7, <2>1, <2>2 DEF T
<1>12. \A v \in W : \A i \in 1 .. k : AddNested(root, v, nested[i]) \in W
  BY NestedIn
<1>13. \A v \in W : \A i \in 1 .. l : AddDeep(v, deep[i]) \in W
  BY DeepIn
<1> HIDE DEF W
<1>14. NestAll(root, EnableAll(root, <<>>, enabled), nested) \in W
  BY <1>2, <1>11, <1>12, NestedFold
<1>15. DeepenAll(NestAll(root, EnableAll(root, <<>>, enabled), nested), deep) \in W
  BY <1>3, <1>13, <1>14, DeepFold
<1> QED BY <1>15 DEF BuildGraph, DeepenAll, W, enabled, nested, deep

\* build_graph pins what git records, at every depth, and all that is enabled.
THEOREM BuildsGitsGraph ==
    ASSUME NEW root \in DOMAIN Repository, NEW policy, IsPolicy(policy),
           BuildGraph(root, policy) # Unresolved
    PROVE  /\ IsGitsOwn(root, BuildGraph(root, policy))
           /\ Range(Repository[root].enabled) \subseteq DOMAIN BuildGraph(root, policy)
<1>1. BuildGraph(root, policy) \in GraphsWith(root, Range(Repository[root].enabled))
  BY BuiltGraph
<1> QED BY <1>1, GrownIsGits DEF GraphsWith
-----------------------------------------------------------------------------
(* source-tree.nix. *)

\* The order of depth is such an order.
LEMMA TreeOrder ==
    ASSUME NEW paths, paths \subseteq Path, IsFiniteSet(paths), NEW order \in InTreeOrder(paths),
           NEW submodules, DOMAIN submodules = DOMAIN order,
           \A i \in DOMAIN order : submodules[i].path = order[i]
    PROVE  Ordered(submodules)
<1> DEFINE n == Cardinality(paths)
<1>1. n \in Nat  BY FS_CardinalityType
<1> HIDE DEF n
<1>2. /\ DOMAIN order = 1 .. n /\ \A i \in 1 .. n : order[i] \in paths
      /\ \A i, j \in 1 .. n : order[i] = order[j] => i = j
  BY DEF InTreeOrder, SetToSeqs, IsInjective, n
<1>3. \A i, j \in 1 .. n : i < j => Len(order[i]) <= Len(order[j])
  BY <1>2 DEF InTreeOrder
<1>4. ASSUME NEW i \in 1 .. n, NEW j \in 1 .. n, i < j PROVE ~IsPrefix(order[j], order[i])
  <2> SUFFICES ASSUME IsPrefix(order[j], order[i]) PROVE FALSE  OBVIOUS
  <2>1. order[i] \in Text /\ order[j] \in Text  BY <1>2 DEF Path, Text
  <2>2. Len(order[i]) \in Nat /\ Len(order[j]) \in Nat  BY <2>1, LenProperties DEF Text
  <2>3. Len(order[j]) <= Len(order[i])  BY <2>1, PrefixIs
  <2>4. Len(order[i]) = Len(order[j])  BY <1>3, <1>4, <2>2, <2>3
  <2>5. IsPrefix(order[i], order[i])  BY <2>1, <2>2, PrefixIs
  <2>6. order[j] = order[i]  BY <2>1, <2>2, <2>4, <2>5, PrefixesNest
  <2> QED BY <1>1, <1>2, <1>4, <2>6
<1> QED BY <1>1, <1>2, <1>4 DEF Ordered

\* The order is one of paths.
LEMMA OrderOfPaths ==
    ASSUME NEW submodules, Ordered(submodules), NEW entries,
           DOMAIN entries = DOMAIN submodules,
           \A i \in DOMAIN submodules : entries[i].path = submodules[i].path
    PROVE  Ordered(entries)
<1>1. PICK n \in Nat : /\ DOMAIN submodules = 1 .. n
                       /\ \A i \in 1 .. n : submodules[i].path \in Path
                       /\ \A i, j \in 1 .. n :
                            i < j => ~IsPrefix(submodules[j].path, submodules[i].path)
  BY DEF Ordered
<1>2. \A i, j \in 1 .. n : i < j => ~IsPrefix(entries[j].path, entries[i].path)
  BY <1>1
<1>3. DOMAIN entries = 1 .. n  BY <1>1
<1>4. \A i \in 1 .. n : entries[i].path \in Path  BY <1>1
<1> QED BY <1>2, <1>3, <1>4 DEF Ordered
=============================================================================
