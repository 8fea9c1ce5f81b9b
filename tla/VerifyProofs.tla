---------------------------- MODULE VerifyProofs -----------------------------
(***************************************************************************)
(* What TLAPS proves of the verdicts on any files: verify_log, and that    *)
(* check_single_chain accepts a set of manifests exactly when they are one *)
(* history.  The modules that prove things of states of the system build   *)
(* on it.                                                                  *)
(*                                                                         *)
(* The walk of check_single_chain is a recursive function.  Induction over *)
(* the natural numbers is stated of sets first: the provers apply it to    *)
(* {n \in Nat : ...}, where the library's theorems would need a predicate  *)
(* for a parameter.                                                        *)
(***************************************************************************)
EXTENDS Verify, FiniteSetTheorems, TLAPS

(* A set of natural numbers that is not empty has a least one.             *)
LEMMA Least ==
    ASSUME NEW S, S \subseteq Nat, S # {}
    PROVE  \E n \in S : \A m \in S : n <= m
<1> DEFINE R == StrictSubsetOrdering(Nat)
           F == FiniteSubsetsOf(Nat)
           T == {0 .. n : n \in S}
<1>1. IsWellFoundedOn(R, F)
  BY FS_StrictSubsetOrderingWellFounded
<1>2. T \subseteq F /\ T # {}
  <2>1. ASSUME NEW n \in S PROVE IsFiniteSet(0 .. n) /\ 0 .. n \subseteq Nat
    BY FS_Interval
  <2> QED
    BY <2>1 DEF FiniteSubsetsOf
<1>3. PICK x \in T : \A y \in T : ~(<<y, x>> \in R)
  <2> HIDE DEF R, F, T
  <2> QED
    BY <1>1, <1>2, WFMin
<1>4. PICK n \in S : x = 0 .. n
  BY <1>3
<1>5. ASSUME NEW m \in S PROVE n <= m
  <2>1. SUFFICES ASSUME m < n PROVE FALSE
    OBVIOUS
  <2>2. 0 .. m \in T
    OBVIOUS
  <2>3. 0 .. m \subseteq 0 .. n /\ n \in 0 .. n /\ n \notin 0 .. m
    BY <2>1
  <2>4. <<0 .. m, 0 .. n>> \in R
    BY <2>3 DEF StrictSubsetOrdering
  <2> QED
    BY <1>3, <1>4, <2>2, <2>4
<1> QED
  BY <1>5

LEMMA NatSetInduction ==
    ASSUME NEW S, S \subseteq Nat, 0 \in S, \A n \in S : n + 1 \in S
    PROVE  S = Nat
<1>1. SUFFICES ASSUME Nat \ S # {} PROVE FALSE
  OBVIOUS
<1>2. PICK n \in Nat \ S : \A m \in Nat \ S : n <= m
  BY <1>1, Least
<1>3. n # 0 /\ n - 1 \in Nat
  BY <1>2
<1>4. n - 1 \in S
  BY <1>2, <1>3
<1>5. n - 1 + 1 = n
  BY <1>2
<1> QED
  BY <1>2, <1>4, <1>5

(* A bounded set of natural numbers that is not empty has a greatest one.  *)
LEMMA Greatest ==
    ASSUME NEW S, S \subseteq Nat, S # {}, NEW b \in Nat, \A n \in S : n <= b
    PROVE  \E n \in S : \A m \in S : m <= n
<1> DEFINE T == {b - n : n \in S}
<1>1. T \subseteq Nat /\ T # {}
  <2>1. \A n \in S : n \in Nat /\ b - n \in Nat
    OBVIOUS
  <2> QED
    BY <2>1
<1>2. PICK k \in T : \A j \in T : k <= j
  <2> HIDE DEF T
  <2> QED
    BY <1>1, Least
<1>3. PICK n \in S : k = b - n
  BY <1>2
<1>4. ASSUME NEW m \in S PROVE m <= n
  <2>1. b - n <= b - m /\ m \in Nat /\ n \in Nat
    BY <1>2, <1>3
  <2> QED
    BY <2>1
<1> QED
  BY <1>4

(* There is a function that iterates p from v on.                          *)
Iterates(f, V, p, v) ==
    /\ f \in [Nat -> V]
    /\ f[0] = v
    /\ \A n \in Nat : f[n + 1] = p[f[n]]

LEMMA Iteration ==
    ASSUME NEW V, NEW p \in [V -> V], NEW v \in V
    PROVE  \E f : Iterates(f, V, p, v)
<1> DEFINE Upto(n) == {f \in [0 .. n -> V] :
                          f[0] = v /\ \A i \in 0 .. n - 1 : f[i + 1] = p[f[i]]}
           S == {n \in Nat : Upto(n) # {}}
<1>1. S = Nat
  <2>1. 0 \in S
    <3>1. [i \in 0 .. 0 |-> v] \in Upto(0)
      OBVIOUS
    <3> QED
      BY <3>1
  <2>2. ASSUME NEW n \in S PROVE n + 1 \in S
    <3>1. PICK f \in Upto(n) : TRUE
      OBVIOUS
    <3> DEFINE g == [i \in 0 .. n + 1 |-> IF i = n + 1 THEN p[f[n]] ELSE f[i]]
    <3>2. g \in [0 .. n + 1 -> V]
      OBVIOUS
    <3>3. g[0] = v
      OBVIOUS
    <3>4. ASSUME NEW i \in 0 .. n + 1 - 1 PROVE g[i + 1] = p[g[i]]
      BY <3>1
    <3>5. g \in Upto(n + 1)
      BY <3>2, <3>3, <3>4
    <3> QED
      BY <3>5
  <2> HIDE DEF S
  <2>3. S \subseteq Nat
    BY DEF S
  <2> QED
    BY <2>1, <2>2, <2>3, NatSetInduction
<1>2. ASSUME NEW m \in Nat, NEW n \in Nat, m <= n,
             NEW f \in Upto(m), NEW g \in Upto(n)
      PROVE  \A i \in 0 .. m : f[i] = g[i]
  <2> DEFINE A == {i \in Nat : i <= m => f[i] = g[i]}
  <2>1. 0 \in A
    OBVIOUS
  <2>2. ASSUME NEW i \in A PROVE i + 1 \in A
    <3>1. SUFFICES ASSUME i + 1 <= m PROVE f[i + 1] = g[i + 1]
      OBVIOUS
    <3>2. i \in 0 .. m - 1 /\ i \in 0 .. n - 1 /\ f[i] = g[i]
      BY <1>2, <3>1
    <3> QED
      BY <3>2
  <2>3. A = Nat
    <3> HIDE DEF A
    <3>1. A \subseteq Nat
      BY DEF A
    <3> QED
      BY <2>1, <2>2, <3>1, NatSetInduction
  <2> QED
    BY <2>3
<1> DEFINE c == [n \in Nat |-> CHOOSE f \in Upto(n) : TRUE]
           h == [n \in Nat |-> c[n][n]]
<1>3. \A n \in Nat : c[n] \in Upto(n)
  BY <1>1
<1>4. h \in [Nat -> V]
  <2>1. ASSUME NEW n \in Nat PROVE c[n][n] \in V
    <3>1. c[n] \in Upto(n)
      BY <1>3
    <3> HIDE DEF c
    <3>2. c[n] \in [0 .. n -> V] /\ n \in 0 .. n
      BY <3>1
    <3> QED
      BY <3>2
  <2> HIDE DEF c
  <2> QED
    BY <2>1
<1>5. h[0] = v
  BY <1>3
<1>6. ASSUME NEW n \in Nat PROVE h[n + 1] = p[h[n]]
  <2>1. c[n] \in Upto(n) /\ c[n + 1] \in Upto(n + 1)
    <3> HIDE DEF c, Upto
    <3> QED
      BY <1>3
  <2> HIDE DEF c
  <2>2. c[n][n] = c[n + 1][n]
    <3> HIDE DEF Upto
    <3> QED
      BY <1>2, <2>1
  <2>3. c[n + 1][n + 1] = p[c[n + 1][n]]
    BY <2>1
  <2> QED
    BY <2>2, <2>3
<1> QED
  BY <1>4, <1>5, <1>6 DEF Iterates
-----------------------------------------------------------------------------
(* The walk of check_single_chain ******************************************)

(* WalkFrom is a recursive function; there is one, and it obeys its        *)
(* definition.                                                             *)
LEMMA WalkFromStep ==
    ASSUME NEW E, NEW tip
    PROVE  /\ WalkFrom(E, tip)[0] = tip
           /\ \A n \in Nat :
                WalkFrom(E, tip)[n + 1] = Predecessor(E, WalkFrom(E, tip)[n])
<1> DEFINE V == HashesOf(E) \cup {m.prev : m \in E} \cup {Genesis, tip}
           p == [h \in V |-> Predecessor(E, h)]
           at == WalkFrom(E, tip)
<1>1. p \in [V -> V]
  <2>1. ASSUME NEW h \in V PROVE Predecessor(E, h) \in V
    BY DEF Predecessor
  <2> HIDE DEF V
  <2> QED
    BY <2>1
<1>2. PICK f \in [Nat -> V] : f[0] = tip /\ \A n \in Nat : f[n + 1] = p[f[n]]
  <2>1. tip \in V
    OBVIOUS
  <2> HIDE DEF V, p
  <2>2. \E f : Iterates(f, V, p, tip)
    BY <1>1, <2>1, Iteration
  <2> QED
    BY <2>2 DEF Iterates
<1>3. f = [n \in Nat |-> IF n = 0 THEN tip ELSE Predecessor(E, f[n - 1])]
  <2>1. ASSUME NEW n \in Nat
        PROVE  f[n] = IF n = 0 THEN tip ELSE Predecessor(E, f[n - 1])
    <3>1. CASE n = 0
      BY <1>2, <3>1
    <3>2. CASE n # 0
      <4>1. n - 1 \in Nat /\ n - 1 + 1 = n
        BY <3>2
      <4>2. f[n - 1 + 1] = p[f[n - 1]] /\ f[n - 1] \in V
        <5> HIDE DEF V, p
        <5> QED
          BY <1>2, <4>1
      <4> HIDE DEF V
      <4> QED
        BY <3>2, <4>1, <4>2
    <3> QED
      BY <3>1, <3>2
  <2> HIDE DEF V
  <2> QED
    BY <1>2, <2>1
<1>4. at = CHOOSE g : g = [n \in Nat |->
                              IF n = 0 THEN tip ELSE Predecessor(E, g[n - 1])]
  BY DEF WalkFrom
<1> HIDE DEF V, p, at
<1>5. at = [n \in Nat |-> IF n = 0 THEN tip ELSE Predecessor(E, at[n - 1])]
  BY <1>3, <1>4
<1>6. at[0] = tip
  BY <1>5
<1>7. ASSUME NEW n \in Nat PROVE at[n + 1] = Predecessor(E, at[n])
  <2>1. n + 1 \in Nat /\ n + 1 # 0 /\ n + 1 - 1 = n
    OBVIOUS
  <2> HIDE DEF Predecessor
  <2> QED
    BY <1>5, <2>1
<1> QED
  BY <1>6, <1>7 DEF at

(* s is a history: each manifest follows the one before it, and no two     *)
(* have the same hash.                                                     *)
IsHistory(s) ==
    /\ Len(s) \in Nat /\ DOMAIN s = 1 .. Len(s)
    /\ \A i \in DOMAIN s : s[i].prev = IF i = 1 THEN Genesis ELSE s[i - 1].this
    /\ \A i \in DOMAIN s : s[i].this # Genesis
    /\ \A i, j \in DOMAIN s : s[i].this = s[j].this => i = j

UpTo(s, k) == {s[i] : i \in 1 .. k}

LEMMA PredecessorOf ==
    ASSUME NEW E, NoDuplicate(E), NEW m \in E
    PROVE  Predecessor(E, m.this) = m.prev
BY DEF Predecessor, NoDuplicate

(* The walk from the end of a history that is all there goes back along it *)
(* to Genesis, and stays there.                                            *)
LEMMA WalkAlong ==
    ASSUME NEW E, NoDuplicate(E), Genesis \notin HashesOf(E),
           NEW s, IsHistory(s), NEW k \in DOMAIN s, UpTo(s, k) \subseteq E
    PROVE  \A n \in Nat : WalkFrom(E, s[k].this)[n] =
               IF n < k THEN s[k - n].this ELSE Genesis
<1> DEFINE at == WalkFrom(E, s[k].this)
           A == {n \in Nat : at[n] = IF n < k THEN s[k - n].this ELSE Genesis}
<1>1. DOMAIN s = 1 .. Len(s) /\ Len(s) \in Nat /\ k \in Nat \ {0}
  BY DEF IsHistory
<1>2. at[0] = s[k].this /\ \A n \in Nat : at[n + 1] = Predecessor(E, at[n])
  BY WalkFromStep
<1> HIDE DEF at
<1>3. 0 \in A
  <2>1. 0 < k /\ k - 0 = k
    BY <1>1
  <2> QED
    BY <1>2, <2>1
<1>4. ASSUME NEW n \in A PROVE n + 1 \in A
  <2>1. at[n + 1] = Predecessor(E, at[n])
    BY <1>2
  <2>2. CASE n < k
    <3> DEFINE i == k - n
    <3>1. i \in 1 .. k /\ i \in DOMAIN s
      BY <1>1, <2>2
    <3> HIDE DEF i
    <3>2. s[i] \in E /\ at[n] = s[i].this
      BY <2>2, <3>1 DEF UpTo, i
    <3>3. at[n + 1] = s[i].prev
      BY <2>1, <3>2, PredecessorOf
    <3>4. at[n + 1] = IF i = 1 THEN Genesis ELSE s[i - 1].this
      BY <3>1, <3>3 DEF IsHistory
    <3>5. (i = 1 <=> ~(n + 1 < k)) /\ i - 1 = k - (n + 1)
      BY <1>1, <2>2 DEF i
    <3> QED
      BY <3>4, <3>5
  <2>3. CASE ~(n < k)
    <3>1. Predecessor(E, Genesis) = Genesis
      BY DEF Predecessor, HashesOf
    <3>2. at[n] = Genesis /\ ~(n + 1 < k)
      BY <1>1, <2>3
    <3> QED
      BY <2>1, <3>1, <3>2
  <2> QED
    BY <2>2, <2>3
<1>5. A = Nat
  <2> HIDE DEF A
  <2>1. A \subseteq Nat
    BY DEF A
  <2> QED
    BY <1>3, <1>4, <2>1, NatSetInduction
<1> QED
  BY <1>5 DEF at

LEMMA HistorySize ==
    ASSUME NEW s, IsHistory(s), NEW k \in DOMAIN s
    PROVE  IsFiniteSet(UpTo(s, k)) /\ Cardinality(UpTo(s, k)) = k
<1> DEFINE f == [i \in 1 .. k |-> s[i]]
<1>1. k \in Nat /\ 1 .. k \subseteq DOMAIN s
  BY DEF IsHistory
<1>2. f \in [1 .. k -> UpTo(s, k)] /\ \A m \in UpTo(s, k) : \E i \in 1 .. k : f[i] = m
  BY DEF UpTo
<1>3. \A i, j \in 1 .. k : f[i] = f[j] => i = j
  BY <1>1 DEF IsHistory
<1> HIDE DEF f
<1>4. f \in Bijection(1 .. k, UpTo(s, k))
  BY <1>2, <1>3 DEF Bijection, Injection, IsInjective, Surjection
<1>5. ExistsBijection(1 .. k, UpTo(s, k))
  BY <1>4 DEF ExistsBijection
<1>6. IsFiniteSet(UpTo(s, k))
  BY <1>1, <1>5, FS_NatBijection
<1> QED
  BY <1>1, <1>5, <1>6, FS_CountingElements

(* The walk over a set that holds a history up to k, from there, meets the *)
(* genesis manifest at its last step exactly when the set holds no more.   *)
LEMMA WalksAllOfHistory ==
    ASSUME NEW E, IsFiniteSet(E), NoDuplicate(E), Genesis \notin HashesOf(E),
           NEW s, IsHistory(s), NEW k \in DOMAIN s, UpTo(s, k) \subseteq E
    PROVE  WalksAll(E, s[k].this) <=> E = UpTo(s, k)
<1>0. k \in Nat \ {0} /\ DOMAIN s = 1 .. Len(s)
  BY DEF IsHistory
<1>1. /\ Cardinality(E) \in Nat /\ Cardinality(UpTo(s, k)) = k
      /\ IsFiniteSet(UpTo(s, k)) /\ k \in Nat \ {0}
  BY <1>0, HistorySize, FS_CardinalityType
<1>2. k <= Cardinality(E) /\ (Cardinality(E) = k => E = UpTo(s, k))
  BY <1>1, FS_Subset
<1>3. \A n \in Nat : WalkFrom(E, s[k].this)[n] =
          IF n < k THEN s[k - n].this ELSE Genesis
  BY WalkAlong
<1> DEFINE last == Cardinality(E) - 1
<1>4. last \in Nat /\ (last < k <=> Cardinality(E) = k)
  BY <1>1, <1>2
<1>5. CASE E = UpTo(s, k)
  <2>1. last = k - 1 /\ k - last = 1
    BY <1>1, <1>5
  <2>2. WalkFrom(E, s[k].this)[last] = s[1].this
    <3> HIDE DEF last
    <3>1. last < k /\ last \in Nat
      BY <1>1, <1>4, <2>1
    <3>2. WalkFrom(E, s[k].this)[last] = s[k - last].this
      BY <1>3, <3>1
    <3> QED
      BY <2>1, <3>2
  <2>3. s[1] \in E /\ s[1].prev = Genesis
    BY <1>1, <1>5 DEF UpTo, IsHistory
  <2> QED
    BY <1>5, <2>2, <2>3 DEF WalksAll, GenesisManifests, HashesOf
<1>6. CASE E # UpTo(s, k)
  <2>1. WalkFrom(E, s[k].this)[last] = Genesis
    BY <1>2, <1>3, <1>4, <1>6
  <2> QED
    BY <1>6, <2>1 DEF WalksAll, GenesisManifests, HashesOf
<1> QED
  BY <1>5, <1>6

(* A history is a chain with one genesis manifest.                         *)
LEMMA HistoryIsLinked ==
    ASSUME NEW s, IsHistory(s), NEW k \in DOMAIN s
    PROVE  /\ NoDuplicate(UpTo(s, k))
           /\ Linked(UpTo(s, k))
           /\ Cardinality(GenesisManifests(UpTo(s, k))) = 1
           /\ Genesis \notin HashesOf(UpTo(s, k))
<1> DEFINE E == UpTo(s, k)
<1>1. k \in Nat \ {0} /\ 1 .. k \subseteq DOMAIN s
  BY DEF IsHistory
<1>2. \A i \in 1 .. k : s[i] \in E /\ s[i].this # Genesis
  BY <1>1 DEF UpTo, IsHistory
<1>3. \A m \in E : \E i \in 1 .. k : m = s[i]
  BY DEF UpTo
<1> HIDE DEF E
<1>4. NoDuplicate(E)
  BY <1>1, <1>3 DEF NoDuplicate, IsHistory
<1>5. Genesis \notin HashesOf(E)
  BY <1>2, <1>3 DEF HashesOf
<1>6. \A i \in 1 .. k : s[i].prev # Genesis =>
          i # 1 /\ i - 1 \in 1 .. k /\ s[i].prev = s[i - 1].this
  BY <1>1 DEF IsHistory
<1>7. Linked(E)
  <2> SUFFICES ASSUME NEW m \in E, m.prev # Genesis
               PROVE  /\ m.prev \in HashesOf(E)
                      /\ \A n \in E : n.prev = m.prev => n = m
    BY DEF Linked
  <2>1. PICK i \in 1 .. k : m = s[i]
    BY <1>3
  <2>2. i # 1 /\ i - 1 \in 1 .. k /\ m.prev = s[i - 1].this
    BY <1>6, <2>1
  <2>3. ASSUME NEW n \in E, n.prev = m.prev PROVE n = m
    <3>1. PICK j \in 1 .. k : n = s[j]
      BY <1>3
    <3>2. j # 1 /\ j - 1 \in 1 .. k /\ n.prev = s[j - 1].this
      BY <1>6, <2>3, <3>1
    <3>3. i - 1 = j - 1
      BY <1>1, <2>2, <2>3, <3>2 DEF IsHistory
    <3> QED
      BY <2>1, <3>1, <3>3
  <2> QED
    BY <1>2, <2>2, <2>3 DEF HashesOf
<1>8. Cardinality(GenesisManifests(E)) = 1
  <2>1. s[1].prev = Genesis /\ s[1] \in E
    BY <1>1, <1>2 DEF IsHistory
  <2>2. \A i \in 1 .. k : s[i].prev = Genesis => i = 1
    <3>1. ASSUME NEW i \in 1 .. k, i # 1 PROVE s[i].prev # Genesis
      <4>1. i - 1 \in 1 .. k /\ i \in DOMAIN s
        BY <1>1, <3>1
      <4>2. s[i].prev = s[i - 1].this
        BY <3>1, <4>1 DEF IsHistory
      <4> QED
        BY <1>2, <4>1, <4>2
    <3> QED
      BY <3>1
  <2>3. GenesisManifests(E) = {s[1]}
    BY <1>3, <2>1, <2>2 DEF GenesisManifests
  <2> QED
    BY <2>3, FS_Singleton
<1> QED
  BY <1>4, <1>5, <1>7, <1>8 DEF E
-----------------------------------------------------------------------------
(* check_single_chain and histories ****************************************)

(* Links that lead back to Genesis never meet a hash twice, when the hash  *)
(* decides what is followed: two ways back would differ in length.         *)
LEMMA LinksDistinct ==
    ASSUME NEW s, Len(s) \in Nat, DOMAIN s = 1 .. Len(s),
           \A i \in DOMAIN s : s[i].prev = IF i = 1 THEN Genesis ELSE s[i - 1].this,
           \A i \in DOMAIN s : s[i].this # Genesis,
           \A i, j \in DOMAIN s : s[i].this = s[j].this => s[i].prev = s[j].prev
    PROVE  IsHistory(s)
<1> DEFINE N == Len(s)
           Meet(i) == i \in 1 .. N /\ \E j \in 1 .. N : i < j /\ s[i].this = s[j].this
           A == {i \in Nat : ~Meet(i)}
<1>0. N \in Nat /\ DOMAIN s = 1 .. N
  OBVIOUS
<1> HIDE DEF N
<1>1. ASSUME NEW i \in 1 .. N, NEW j \in 1 .. N, i < j, s[i].this = s[j].this
      PROVE  i # 1 /\ i - 1 \in 1 .. N /\ Meet(i - 1)
  <2>1. j # 1 /\ j - 1 \in 1 .. N /\ i \in Nat /\ j \in Nat
    BY <1>0, <1>1
  <2>2. s[i].prev = s[j].prev /\ s[j].prev = s[j - 1].this /\ s[j - 1].this # Genesis
    BY <1>0, <1>1, <2>1
  <2>3. i # 1
    <3> SUFFICES ASSUME i = 1 PROVE FALSE
      OBVIOUS
    <3>1. s[i].prev = Genesis
      BY <1>0
    <3> QED
      BY <2>2, <3>1
  <2>4. i - 1 \in 1 .. N /\ i - 1 < j - 1
    BY <1>0, <1>1, <2>1, <2>3
  <2>5. s[i].prev = s[i - 1].this
    BY <1>0, <2>3
  <2> QED
    BY <2>1, <2>2, <2>3, <2>4, <2>5
<1>2. 0 \in A
  BY <1>0
<1>3. ASSUME NEW i \in A PROVE i + 1 \in A
  <2> SUFFICES ASSUME Meet(i + 1) PROVE FALSE
    OBVIOUS
  <2>1. PICK j \in 1 .. N : i + 1 < j /\ s[i + 1].this = s[j].this
    OBVIOUS
  <2>2. i + 1 \in 1 .. N /\ i + 1 - 1 = i
    OBVIOUS
  <2> HIDE DEF Meet
  <2>3. Meet(i + 1 - 1)
    BY <1>1, <2>1, <2>2
  <2> QED
    BY <2>2, <2>3
<1>4. A = Nat
  <2> HIDE DEF A
  <2>1. A \subseteq Nat
    BY DEF A
  <2> QED
    BY <1>2, <1>3, <2>1, NatSetInduction
<1>5. ASSUME NEW i \in 1 .. N, NEW j \in 1 .. N, i < j
      PROVE  s[i].this # s[j].this
  <2>1. i \in Nat
    BY <1>0
  <2>2. ~Meet(i)
    <3> HIDE DEF Meet
    <3> QED
      BY <1>4, <2>1
  <2> QED
    BY <1>5, <2>2
<1>6. ASSUME NEW i \in DOMAIN s, NEW j \in DOMAIN s, s[i].this = s[j].this
      PROVE  i = j
  <2>1. i \in 1 .. N /\ j \in 1 .. N
    BY <1>0
  <2>2. ~(i < j) /\ ~(j < i)
    BY <1>5, <1>6, <2>1
  <2> QED
    BY <1>0, <2>1, <2>2
<1> QED
  BY <1>6 DEF IsHistory

(* A walk that meets the genesis manifest at step n has met a manifest at  *)
(* every step before: a hash nothing holds would have ended it.            *)
LEMMA WalkStaysInside ==
    ASSUME NEW E, Genesis \notin HashesOf(E), NEW tip, NEW n \in Nat,
           WalkFrom(E, tip)[n] \in HashesOf(E)
    PROVE  \A k \in 0 .. n : WalkFrom(E, tip)[k] \in HashesOf(E)
<1> DEFINE at == WalkFrom(E, tip)
           A == {j \in Nat : j <= n => at[n - j] \in HashesOf(E)}
<1>1. \A k \in Nat : at[k + 1] = Predecessor(E, at[k])
  BY WalkFromStep
<1>2. at[n] \in HashesOf(E)
  OBVIOUS
<1> HIDE DEF at
<1>3. 0 \in A
  <2>1. n - 0 = n
    OBVIOUS
  <2> QED
    BY <1>2, <2>1
<1>4. ASSUME NEW j \in A PROVE j + 1 \in A
  <2> SUFFICES ASSUME j + 1 <= n PROVE at[n - (j + 1)] \in HashesOf(E)
    OBVIOUS
  <2> DEFINE k == n - (j + 1)
  <2>1. k \in Nat /\ k + 1 = n - j /\ j <= n
    OBVIOUS
  <2>2. at[n - j] \in HashesOf(E)
    BY <2>1
  <2> HIDE DEF k, A
  <2>3. at[k + 1] = Predecessor(E, at[k]) /\ at[k + 1] \in HashesOf(E)
    BY <1>1, <2>1, <2>2
  <2>4. at[k] \notin HashesOf(E) => Predecessor(E, at[k]) = Genesis
    BY DEF Predecessor, HashesOf
  <2>5. at[k] \in HashesOf(E)
    BY <2>3, <2>4
  <2> QED
    BY <2>5 DEF k
<1>5. A = Nat
  <2> HIDE DEF A
  <2>1. A \subseteq Nat
    BY DEF A
  <2> QED
    BY <1>3, <1>4, <2>1, NatSetInduction
<1>6. ASSUME NEW k \in 0 .. n PROVE at[k] \in HashesOf(E)
  <2>1. n - k \in Nat /\ n - k <= n /\ n - (n - k) = k
    OBVIOUS
  <2> HIDE DEF A
  <2>2. n - k \in A
    BY <1>5, <2>1
  <2>3. at[n - (n - k)] \in HashesOf(E)
    BY <2>1, <2>2 DEF A
  <2> QED
    BY <2>1, <2>3
<1> QED
  BY <1>6 DEF at

(* The manifests a walk over all of them goes through, the other way       *)
(* round, are a history of all of them.                                    *)
LEMMA WalkIsHistory ==
    ASSUME NEW E, IsFiniteSet(E), E # {}, NoDuplicate(E),
           Genesis \notin HashesOf(E), NEW tip, WalksAll(E, tip)
    PROVE  \E s \in Seq(E) : /\ IsHistory(s)
                             /\ s # <<>>
                             /\ UpTo(s, Len(s)) = E
                             /\ s[Len(s)].this = tip
<1> DEFINE N == Cardinality(E)
           at == WalkFrom(E, tip)
           Holds(k) == CHOOSE m \in E : m.this = at[N - k]
           s == [k \in 1 .. N |-> Holds(k)]
<1>1. N \in Nat \ {0}
  BY FS_CardinalityType, FS_EmptySet
<1>2. at[0] = tip /\ \A k \in Nat : at[k + 1] = Predecessor(E, at[k])
  BY WalkFromStep
<1>3. PICK g \in E : g.prev = Genesis /\ at[N - 1] = g.this
  BY DEF WalksAll, GenesisManifests, HashesOf
<1>4. \A k \in 0 .. N - 1 : at[k] \in HashesOf(E)
  <2>1. at[N - 1] \in HashesOf(E) /\ N - 1 \in Nat
    BY <1>1, <1>3 DEF HashesOf
  <2> HIDE DEF N
  <2> QED
    BY <2>1, WalkStaysInside
<1> HIDE DEF N, at
<1>5. \A k \in 1 .. N : s[k] \in E /\ s[k].this = at[N - k]
  <2>1. ASSUME NEW k \in 1 .. N PROVE Holds(k) \in E /\ Holds(k).this = at[N - k]
    <3>1. N - k \in 0 .. N - 1
      BY <1>1
    <3>2. \E m \in E : m.this = at[N - k]
      BY <1>4, <3>1 DEF HashesOf
    <3> QED
      BY <3>2
  <2> HIDE DEF Holds
  <2> QED
    BY <2>1
<1> HIDE DEF Holds
<1>6. s \in Seq(E) /\ Len(s) = N /\ DOMAIN s = 1 .. N
  BY <1>1, <1>5
<1> HIDE DEF s
<1>7. \A k \in 1 .. N : s[k].prev = IF k = 1 THEN Genesis ELSE s[k - 1].this
  <2>1. s[1].prev = Genesis
    <3>1. 1 \in 1 .. N
      BY <1>1
    <3>2. s[1] \in E /\ s[1].this = g.this
      BY <1>3, <1>5, <3>1
    <3>3. s[1] = g
      BY <3>2 DEF NoDuplicate
    <3> QED
      BY <1>3, <3>3
  <2>2. ASSUME NEW k \in 1 .. N, k # 1 PROVE s[k].prev = s[k - 1].this
    <3>1. k - 1 \in 1 .. N /\ N - k \in Nat /\ N - k + 1 = N - (k - 1)
      BY <1>1, <2>2
    <3>2. s[k - 1].this = Predecessor(E, at[N - k])
      <4>1. s[k - 1].this = at[N - (k - 1)]
        BY <1>5, <3>1
      <4>2. at[N - k + 1] = Predecessor(E, at[N - k])
        BY <1>2, <3>1
      <4> QED
        BY <3>1, <4>1, <4>2
    <3>3. s[k] \in E /\ s[k].this = at[N - k]
      BY <1>5
    <3>4. Predecessor(E, s[k].this) = s[k].prev
      BY <3>3, PredecessorOf
    <3> QED
      BY <3>2, <3>3, <3>4
  <2> QED
    BY <2>1, <2>2
<1>8. \A k \in 1 .. N : s[k].this # Genesis
  BY <1>5 DEF HashesOf
<1>9. \A i, j \in 1 .. N : s[i].this = s[j].this => s[i].prev = s[j].prev
  BY <1>5 DEF NoDuplicate
<1>10. IsHistory(s)
  BY <1>1, <1>6, <1>7, <1>8, <1>9, LinksDistinct
<1>11. N \in DOMAIN s /\ s # <<>>
  BY <1>1, <1>6
<1>12. UpTo(s, N) = E
  <2>1. Cardinality(UpTo(s, N)) = N
    BY <1>10, <1>11, HistorySize
  <2>2. UpTo(s, N) \subseteq E
    BY <1>5 DEF UpTo
  <2> QED
    BY <2>1, <2>2, FS_Subset DEF N
<1>13. s[N].this = tip
  <2>1. N - N = 0 /\ N \in 1 .. N
    BY <1>1
  <2> QED
    BY <1>2, <1>5, <2>1
<1> QED
  BY <1>6, <1>10, <1>11, <1>12, <1>13

(* Nothing follows the end of a history, and something every other one.    *)
LEMMA HistoryTip ==
    ASSUME NEW s, IsHistory(s), s # <<>>
    PROVE  /\ Len(s) \in DOMAIN s
           /\ Tips(UpTo(s, Len(s))) = {s[Len(s)]}
<1> DEFINE N == Len(s)
           E == UpTo(s, N)
<1>1. DOMAIN s = 1 .. N /\ N \in Nat
  BY DEF IsHistory
<1>2. N # 0
  <2> SUFFICES ASSUME N = 0 PROVE FALSE
    OBVIOUS
  <2>1. DOMAIN s = {}
    BY <1>1
  <2> QED
    BY <2>1
<1>3. N \in 1 .. N /\ 1 \in 1 .. N
  BY <1>1, <1>2
<1>4. \A i \in 1 .. N : s[i] \in E /\ \A m \in E : \E j \in 1 .. N : m = s[j]
  BY DEF UpTo
<1> HIDE DEF N, E
<1>5. \A i \in 1 .. N : s[i].prev = IF i = 1 THEN Genesis ELSE s[i - 1].this
  BY <1>1 DEF IsHistory
<1>6. s[N] \in Tips(E)
  <2> SUFFICES ASSUME NEW m \in E, m.prev = s[N].this PROVE FALSE
    BY <1>3, <1>4 DEF Tips
  <2>1. PICK j \in 1 .. N : m = s[j]
    BY <1>3, <1>4
  <2>2. j # 1
    BY <1>1, <1>3, <1>5, <2>1 DEF IsHistory
  <2>3. j - 1 \in 1 .. N /\ j - 1 # N
    BY <1>1, <2>2
  <2>4. s[j - 1].this = s[N].this
    BY <1>5, <2>1, <2>2
  <2> QED
    BY <1>1, <1>3, <2>3, <2>4 DEF IsHistory
<1>7. ASSUME NEW m \in Tips(E) PROVE m = s[N]
  <2>1. PICK i \in 1 .. N : m = s[i]
    BY <1>3, <1>4 DEF Tips
  <2>2. CASE i # N
    <3>1. i + 1 \in 1 .. N /\ i + 1 # 1 /\ i + 1 - 1 = i
      BY <1>1, <2>2
    <3>2. s[i + 1].prev = m.this
      <4>1. s[i + 1].prev = s[i + 1 - 1].this
        BY <1>5, <3>1
      <4> QED
        BY <2>1, <3>1, <4>1
    <3> QED
      BY <1>4, <3>1, <3>2 DEF Tips
  <2> QED
    BY <2>1, <2>2
<1> QED
  BY <1>1, <1>3, <1>6, <1>7 DEF N, E

(* check_single_chain accepts a finite set of manifests exactly when they  *)
(* are one history, each hash once, that ends at the head if it is known:  *)
(* no fork, second start, duplicate, gap, cycle or lost tail passes, and   *)
(* no whole history fails.                                                 *)
LEMMA ChainIsHistory ==
    ASSUME NEW E, IsFiniteSet(E), E # {}, Genesis \notin HashesOf(E), NEW h
    PROVE  CheckSingleChain(E, h) <=>
               \E s \in Seq(E) : /\ IsHistory(s)
                                 /\ s # <<>>
                                 /\ UpTo(s, Len(s)) = E
                                 /\ h \in {Genesis, Nothing, s[Len(s)].this}
<1>1. ASSUME CheckSingleChain(E, h)
      PROVE  \E s \in Seq(E) : /\ IsHistory(s)
                               /\ s # <<>>
                               /\ UpTo(s, Len(s)) = E
                               /\ h \in {Genesis, Nothing, s[Len(s)].this}
  <2>1. NoDuplicate(E)
    BY <1>1 DEF CheckSingleChain
  <2>2. PICK tip \in WalkStart(E, h) : WalksAll(E, tip)
    BY <1>1 DEF CheckSingleChain
  <2>3. h \in {Genesis, Nothing, tip}
    BY DEF WalkStart
  <2>4. PICK s \in Seq(E) : IsHistory(s) /\ s # <<>> /\ UpTo(s, Len(s)) = E
                              /\ s[Len(s)].this = tip
    BY <2>1, <2>2, WalkIsHistory
  <2> QED
    BY <2>3, <2>4
<1>2. ASSUME NEW s \in Seq(E), IsHistory(s), s # <<>>, UpTo(s, Len(s)) = E,
             h \in {Genesis, Nothing, s[Len(s)].this}
      PROVE  CheckSingleChain(E, h)
  <2> DEFINE n == Len(s)
             tip == s[n].this
  <2>1. n \in DOMAIN s /\ Tips(E) = {s[n]}
    BY <1>2, HistoryTip
  <2>2. NoDuplicate(E) /\ Linked(E) /\ Cardinality(GenesisManifests(E)) = 1
    BY <1>2, <2>1, HistoryIsLinked
  <2>3. s[n] \in E
    BY <2>1 DEF Tips
  <2> HIDE DEF n
  <2>4. WalksAll(E, tip)
    BY <1>2, <2>1, <2>2, WalksAllOfHistory DEF n
  <2>5. tip \in WalkStart(E, h)
    <3>1. Cardinality(Tips(E)) = 1
      BY <2>1, FS_Singleton
    <3>2. tip \in HashesOf(E) /\ tip \in HashesOf(Tips(E))
      BY <2>1, <2>3 DEF HashesOf
    <3>3. h \in {Genesis, Nothing, tip}
      BY <1>2 DEF n
    <3> QED
      BY <3>1, <3>2, <3>3 DEF WalkStart
  <2> QED
    BY <2>2, <2>4, <2>5 DEF CheckSingleChain
<1> QED
  BY <1>1, <1>2
=============================================================================
