---------------------------- MODULE DurableProofs ----------------------------
(***************************************************************************)
(* What TLAPS proves of the files on disk, in Durable, for every number of *)
(* parts, of power losses, and of entries written back in between.         *)
(***************************************************************************)
EXTENDS Durable, FiniteSetTheorems, TLAPS

(* Induction, stated of sets of natural numbers ****************************)

(* A set of natural numbers that is not empty has a least one.             *)
LEMMA Least ==
    ASSUME NEW S, S \subseteq Nat, S # {}
    PROVE  \E a \in S : \A m \in S : a <= m
<1> DEFINE R == StrictSubsetOrdering(Nat)
           F == FiniteSubsetsOf(Nat)
           T == {0 .. a : a \in S}
<1>1. IsWellFoundedOn(R, F)
  BY FS_StrictSubsetOrderingWellFounded
<1>2. T \subseteq F /\ T # {}
  <2>1. ASSUME NEW a \in S PROVE IsFiniteSet(0 .. a) /\ 0 .. a \subseteq Nat
    <3>1. a \in Nat
      OBVIOUS
    <3> HIDE DEF R, F, T
    <3> QED
      BY <3>1, FS_Interval
  <2> QED
    BY <2>1 DEF FiniteSubsetsOf
<1>3. PICK x \in T : \A y \in T : ~(<<y, x>> \in R)
  <2> HIDE DEF R, F, T
  <2> QED
    BY <1>1, <1>2, WFMin
<1>4. PICK a \in S : x = 0 .. a
  BY <1>3
<1>5. ASSUME NEW m \in S PROVE a <= m
  <2>0. a \in Nat /\ m \in Nat
    OBVIOUS
  <2>1. SUFFICES ASSUME m < a PROVE FALSE
    <3> HIDE DEF R, F, T
    <3> QED
      BY <2>0
  <2>2. 0 .. m \in T
    OBVIOUS
  <2>3. 0 .. m \subseteq 0 .. a /\ a \in 0 .. a /\ a \notin 0 .. m
    <3> HIDE DEF R, F, T
    <3> QED
      BY <2>0, <2>1
  <2>4. <<0 .. m, 0 .. a>> \in R
    BY <2>3 DEF StrictSubsetOrdering
  <2> QED
    BY <1>3, <1>4, <2>2, <2>4
<1> QED
  BY <1>5

LEMMA NatSetInduction ==
    ASSUME NEW S, S \subseteq Nat, 0 \in S, \A a \in S : a + 1 \in S
    PROVE  S = Nat
<1>1. SUFFICES ASSUME Nat \ S # {} PROVE FALSE
  OBVIOUS
<1>2. PICK a \in Nat \ S : \A m \in Nat \ S : a <= m
  BY <1>1, Least
<1>3. a # 0 /\ a - 1 \in Nat
  BY <1>2
<1>4. a - 1 \in S
  BY <1>2, <1>3
<1>5. a - 1 + 1 = a
  BY <1>2
<1> QED
  BY <1>2, <1>4, <1>5

(* A bounded set of natural numbers that is not empty has a greatest one.  *)
LEMMA Greatest ==
    ASSUME NEW S, S \subseteq Nat, S # {}, NEW b \in Nat, \A a \in S : a <= b
    PROVE  \E a \in S : \A m \in S : m <= a
<1> DEFINE T == {b - a : a \in S}
<1>1. T \subseteq Nat /\ T # {}
  <2>1. \A a \in S : a \in Nat /\ b - a \in Nat
    OBVIOUS
  <2> QED
    BY <2>1
<1>2. PICK k \in T : \A j \in T : k <= j
  <2> HIDE DEF T
  <2> QED
    BY <1>1, Least
<1>3. PICK a \in S : k = b - a
  BY <1>2
<1>4. ASSUME NEW m \in S PROVE m <= a
  <2>1. b - a <= b - m /\ m \in Nat /\ a \in Nat
    BY <1>2, <1>3
  <2> QED
    BY <2>1
<1> QED
  BY <1>4
-----------------------------------------------------------------------------
Names == {"recording", "sidecar", "head", "log"}
Entries == Names \X Parts
HomeOf(entry) ==
    VolumeOf(IF entry[1] \in {"recording", "sidecar"} THEN "storage" ELSE "chain")

(* What must not be durable before something else is.                      *)
Needs(e, f) ==
    \/ e[1] = "sidecar" /\ f = <<"recording", e[2]>>
    \/ layout = "one_volume" /\ e[1] = "head" /\ f = <<"sidecar", e[2]>>

(* The parts whose head is durable, or on its way; and the last head that  *)
(* was there before the part being recorded.                               *)
HeadsDurable == {p \in Parts : <<"head", p>> \in durable}
Before == HeadsDurable \ {n}
IsBase(b) == b \in Before \cup {Genesis} /\ \A p \in Before : p <= b

(* The history that a head ends, by the heads the manifests follow.        *)
HistoryBy(heads, h) ==
    LET HistoryTo[p \in 0 .. MaxParts] ==
            IF p = Genesis THEN {} ELSE {p} \cup HistoryTo[heads[p]]
    IN  HistoryTo[h]
-----------------------------------------------------------------------------
Typed ==
    /\ layout \in {"one_volume", "two_volumes"}
    /\ at \in 1 .. 12 /\ n \in 1 .. MaxParts + 1
    /\ n > MaxParts => at = 1
    /\ prev \in [Parts -> 0 .. MaxParts] /\ \A p \in Parts : prev[p] < p
    /\ durable \subseteq Entries /\ written \subseteq Entries /\ damaged \subseteq Entries
    /\ pending \in [Volumes -> Seq(Entries)]
    /\ log \in Seq(Parts) /\ logSynced \in 0 .. Len(log)
    /\ acked \subseteq Parts

(* A volume writes out in order.                                           *)
OrderInv ==
    /\ \A v \in Volumes : \A i \in DOMAIN pending[v] :
        /\ v = HomeOf(pending[v][i])
        /\ \A f \in Entries : Needs(pending[v][i], f) =>
            f \in durable \/ \E j \in 1 .. i - 1 : pending[v][j] = f
    /\ \A e \in durable, f \in Entries : Needs(e, f) => f \in durable

(* How far the part being recorded has come.                               *)
FreshInv ==
    /\ \A e \in Visible \cup written : e[2] < n \/ (e[2] = n /\ at > 1)
    /\ \A e \in damaged : e[2] < n
    /\ at > 1 => <<"recording", n>> \in Visible
    /\ at > 2 => <<"recording", n>> \in written
    /\ at > 4 => <<"sidecar", n>> \in written
    /\ at > 5 => <<"sidecar", n>> \in Visible
    /\ at > 6 => <<"head", n>> \in written
    /\ at > 7 <=> <<"head", n>> \in Visible
    /\ at > 8 => <<"head", n>> \in durable
    /\ at > 9 => \E p \in Parts : <<"log", p>> \in Visible
    /\ at > 11 => \E p \in Parts : <<"log", p>> \in durable

(* A name is given to what has been synced, and that is not lost.          *)
WholeInv ==
    /\ \A p \in Parts :
        /\ <<"sidecar", p>> \in Visible =>
            <<"sidecar", p>> \in written /\ <<"recording", p>> \in written
        /\ <<"head", p>> \in Visible => <<"head", p>> \in written
        /\ {<<"head", p>>, <<"sidecar", p>>} \cap damaged = {}
    /\ written \cap damaged = {}

(* Earlier heads are durable, and make one history.                        *)
HeadInv ==
    /\ \A p \in Parts : <<"head", p>> \in Visible => p \in HeadsDurable \cup {n}
    /\ \A b \in 0 .. MaxParts : IsBase(b) =>
        /\ at > 3 => prev[n] = b
        /\ acked \subseteq HistoryOf(b)
        /\ ToSet(log) \subseteq HistoryOf(b) \cup {p \in {n} : at > 9}
        /\ HistoryOf(b) \subseteq Before

(* The lines of acknowledged parts are synced.                             *)
LogInv ==
    /\ \A p \in acked : \E i \in 1 .. logSynced : log[i] = p
    /\ acked # {} => \E p \in Parts : <<"log", p>> \in durable
    /\ at > 9 => log # <<>> /\ log[Len(log)] = n
    /\ at > 10 => logSynced = Len(log)

DInv == Typed /\ OrderInv /\ FreshInv /\ WholeInv /\ HeadInv /\ LogInv
-----------------------------------------------------------------------------
(* History *****************************************************************)

(* HistoryTo is a recursive function; there is one, and it obeys its       *)
(* definition: the smallest sets closed under the heads are such.          *)
LEMMA HistorySteps ==
    ASSUME NEW heads \in [Parts -> 0 .. MaxParts]
    PROVE  /\ HistoryBy(heads, Genesis) = {}
           /\ \A p \in Parts : HistoryBy(heads, p) = {p} \cup HistoryBy(heads, heads[p])
<1> DEFINE Closed(S) == \A r \in S : heads[r] \in Parts => heads[r] \in S
           Reach(p) == {q \in Parts :
               \A S \in SUBSET Parts : (p \in Parts => p \in S) /\ Closed(S) => q \in S}
           f == [p \in 0 .. MaxParts |-> Reach(p)]
           HT == CHOOSE g : g = [p \in 0 .. MaxParts |->
                    IF p = Genesis THEN {} ELSE {p} \cup g[heads[p]]]
<1>1. /\ MaxParts \in Nat /\ Genesis \in 0 .. MaxParts /\ Genesis \notin Parts
      /\ 0 .. MaxParts = {Genesis} \cup Parts
  BY DurableAssumption DEF Parts, Genesis
<1>2. Reach(Genesis) = {}
  <2>1. {} \in SUBSET Parts /\ Closed({})
    OBVIOUS
  <2> HIDE DEF Closed
  <2> QED
    BY <1>1, <2>1
<1>3. ASSUME NEW p \in Parts PROVE Reach(p) = {p} \cup Reach(heads[p])
  <2>1. ASSUME NEW q \in {p} \cup Reach(heads[p]) PROVE q \in Reach(p)
    <3> SUFFICES ASSUME NEW S \in SUBSET Parts, p \in S, Closed(S) PROVE q \in S
      BY <2>1
    <3>1. heads[p] \in Parts => heads[p] \in S
      OBVIOUS
    <3> QED
      BY <2>1, <3>1
  <2>2. ASSUME NEW q \in Reach(p) PROVE q \in {p} \cup Reach(heads[p])
    <3> DEFINE S == {p} \cup Reach(heads[p])
    <3>1. S \in SUBSET Parts /\ p \in S
      OBVIOUS
    <3>2. ASSUME NEW r \in S, heads[r] \in Parts PROVE heads[r] \in S
      <4>1. CASE r = p
        <5>1. heads[p] \in Reach(heads[p])
          BY <3>2, <4>1
        <5> QED
          BY <4>1, <5>1
      <4>2. CASE r \in Reach(heads[p])
        <5>1. heads[r] \in Reach(heads[p])
          <6> SUFFICES ASSUME NEW T \in SUBSET Parts,
                              heads[p] \in Parts => heads[p] \in T, Closed(T)
                       PROVE  heads[r] \in T
            BY <3>2
          <6>1. r \in T
            BY <4>2
          <6> QED
            BY <3>2, <6>1
        <5> QED
          BY <5>1
      <4> QED
        BY <3>2, <4>1, <4>2
    <3>3. Closed(S)
      BY <3>2
    <3> QED
      BY <2>2, <3>1, <3>3
  <2> QED
    BY <2>1, <2>2
<1> HIDE DEF Reach
<1>4. f = [p \in 0 .. MaxParts |-> IF p = Genesis THEN {} ELSE {p} \cup f[heads[p]]]
  <2>1. ASSUME NEW p \in 0 .. MaxParts
        PROVE  Reach(p) = IF p = Genesis THEN {} ELSE {p} \cup f[heads[p]]
    BY <1>1, <1>2, <1>3
  <2> QED
    BY <2>1
<1> HIDE DEF f
<1>5. HT = [p \in 0 .. MaxParts |-> IF p = Genesis THEN {} ELSE {p} \cup HT[heads[p]]]
  BY <1>4
<1>6. \A h : HistoryBy(heads, h) = HT[h]
  BY DEF HistoryBy
<1> HIDE DEF HT
<1>7. HT[Genesis] = {}
  BY <1>1, <1>5
<1>8. \A p \in Parts : HT[p] = {p} \cup HT[heads[p]]
  BY <1>1, <1>5
<1> QED
  BY <1>6, <1>7, <1>8

Older(heads) == heads \in [Parts -> 0 .. MaxParts] /\ \A p \in Parts : heads[p] < p

(* A history holds no part later than its head, and depends on no head     *)
(* that later parts follow.                                                *)
LEMMA HistoryEarlier ==
    ASSUME NEW heads, Older(heads), NEW other, Older(other), NEW last \in Nat,
           \A p \in Parts : p <= last => other[p] = heads[p]
    PROVE  \A h \in 0 .. MaxParts :
               /\ \A q \in HistoryBy(heads, h) : q \in Parts /\ q <= h
               /\ h <= last => HistoryBy(other, h) = HistoryBy(heads, h)
<1> DEFINE Good(h) == /\ \A q \in HistoryBy(heads, h) : q \in Parts /\ q <= h
                      /\ h <= last => HistoryBy(other, h) = HistoryBy(heads, h)
           S == {m \in Nat : \A h \in 0 .. MaxParts : h <= m => Good(h)}
<1>1. MaxParts \in Nat /\ Parts = 1 .. MaxParts /\ Genesis = 0
  BY DurableAssumption DEF Parts, Genesis
<1>2. /\ HistoryBy(heads, 0) = {} /\ HistoryBy(other, 0) = {}
      /\ \A p \in Parts : /\ HistoryBy(heads, p) = {p} \cup HistoryBy(heads, heads[p])
                          /\ HistoryBy(other, p) = {p} \cup HistoryBy(other, other[p])
  BY <1>1, HistorySteps DEF Older
<1>3. 0 \in S
  <2> SUFFICES ASSUME NEW h \in 0 .. MaxParts, h <= 0 PROVE Good(h)
    OBVIOUS
  <2>1. h = 0
    BY <1>1
  <2> QED
    BY <1>2, <2>1
<1>4. ASSUME NEW m \in S PROVE m + 1 \in S
  <2> SUFFICES ASSUME NEW h \in 0 .. MaxParts, h <= m + 1 PROVE Good(h)
    OBVIOUS
  <2>1. CASE h <= m
    BY <1>4, <2>1
  <2>2. CASE ~(h <= m)
    <3>1. h \in Parts /\ heads[h] < h /\ heads[h] \in 0 .. MaxParts /\ heads[h] <= m
      BY <1>1, <1>4, <2>2 DEF Older
    <3>2. Good(heads[h])
      BY <1>4, <3>1
    <3> HIDE DEF S
    <3>3. /\ \A q \in HistoryBy(heads, heads[h]) : q \in Parts /\ q <= heads[h]
          /\ heads[h] <= last => HistoryBy(other, heads[h]) = HistoryBy(heads, heads[h])
      BY <3>2
    <3>4. HistoryBy(heads, h) = {h} \cup HistoryBy(heads, heads[h])
          /\ HistoryBy(other, h) = {h} \cup HistoryBy(other, other[h])
      BY <1>2, <3>1
    <3>5. ASSUME NEW q \in HistoryBy(heads, h) PROVE q \in Parts /\ q <= h
      BY <1>1, <3>1, <3>3, <3>4, <3>5
    <3>6. ASSUME h <= last PROVE HistoryBy(other, h) = HistoryBy(heads, h)
      <4>1. other[h] = heads[h] /\ heads[h] <= last
        BY <1>1, <3>1, <3>6
      <4> QED
        BY <3>3, <3>4, <4>1
    <3> QED
      BY <3>5, <3>6
  <2> QED
    BY <2>1, <2>2
<1>5. S = Nat
  <2> HIDE DEF Good
  <2>1. S \subseteq Nat
    OBVIOUS
  <2> HIDE DEF S
  <2> QED
    BY <1>3, <1>4, <2>1, NatSetInduction
<1>6. ASSUME NEW h \in 0 .. MaxParts PROVE Good(h)
  <2>1. h \in Nat /\ h <= h
    BY <1>1
  <2>2. h \in S
    <3> HIDE DEF S
    <3> QED
      BY <1>5, <2>1
  <2> HIDE DEF Good
  <2> QED
    BY <2>1, <2>2
<1> QED
  BY <1>6

LEMMA HistoryIs ==
    /\ \A h : HistoryOf(h) = HistoryBy(prev, h)
    /\ \A h : (HistoryOf(h))' = HistoryBy(prev', h)
BY DEF HistoryOf, HistoryBy
-----------------------------------------------------------------------------
(* Directories *************************************************************)

LEMMA VisibleIs ==
    /\ \A e : e \in Visible <=>
        e \in durable \/ \E v \in Volumes : \E i \in DOMAIN pending[v] : pending[v][i] = e
    /\ \A e : e \in Visible' <=>
        e \in durable' \/ \E v \in Volumes : \E i \in DOMAIN pending'[v] : pending'[v][i] = e
BY DEF Visible, ToSet

(* A new entry is behind what it needs.                                    *)
LEMMA EnterIs ==
    ASSUME Typed, OrderInv, UNCHANGED layout, NEW dir \in Volumes,
           NEW entry \in Entries, Enter(dir, entry), VolumeOf(dir) = HomeOf(entry),
           \A f \in Entries : Needs(entry, f) => f \in Visible /\ HomeOf(f) = HomeOf(entry)
    PROVE  /\ OrderInv' /\ Visible' = Visible \cup {entry} /\ durable' = durable
           /\ pending' \in [Volumes -> Seq(Entries)]
<1> DEFINE u == VolumeOf(dir)
           k == Len(pending[u])
<1>1. /\ u \in Volumes /\ durable' = durable
      /\ pending' = [pending EXCEPT ![u] = Append(@, entry)]
      /\ pending \in [Volumes -> Seq(Entries)] /\ pending[u] \in Seq(Entries)
  BY DEF Enter, VolumeOf, Volumes, Typed
<1>2. /\ k \in Nat /\ DOMAIN pending[u] = 1 .. k
      /\ Append(pending[u], entry) \in Seq(Entries)
      /\ DOMAIN Append(pending[u], entry) = 1 .. k + 1
      /\ Append(pending[u], entry)[k + 1] = entry
      /\ \A i \in 1 .. k : Append(pending[u], entry)[i] = pending[u][i]
  BY <1>1
<1> HIDE DEF k
<1>3. /\ pending' \in [Volumes -> Seq(Entries)]
      /\ \A v \in Volumes : v # u => pending'[v] = pending[v]
      /\ DOMAIN pending'[u] = 1 .. k + 1 /\ pending'[u][k + 1] = entry
      /\ \A i \in 1 .. k : pending'[u][i] = pending[u][i] /\ i \in DOMAIN pending[u]
  BY <1>1, <1>2
<1>4. \A e, f : (Needs(e, f)' <=> Needs(e, f)) /\ HomeOf(e)' = HomeOf(e)
  BY DEF Needs, HomeOf, VolumeOf
<1> HIDE DEF u
<1>5. Visible' = Visible \cup {entry}
  <2>1. ASSUME NEW e \in Visible PROVE e \in Visible'
    <3>1. CASE e \in durable
      BY <1>1, <3>1, VisibleIs
    <3>2. ASSUME NEW v \in Volumes, NEW i \in DOMAIN pending[v], pending[v][i] = e
          PROVE  e \in Visible'
      <4>1. i \in DOMAIN pending'[v] /\ pending'[v][i] = e
        BY <1>2, <1>3, <3>2
      <4> QED
        BY <4>1, VisibleIs
    <3> QED
      BY <2>1, <3>1, <3>2, VisibleIs
  <2>2. entry \in Visible'
    <3>1. k + 1 \in DOMAIN pending'[u]
      BY <1>2, <1>3
    <3> QED
      BY <1>1, <1>3, <3>1, VisibleIs
  <2>3. ASSUME NEW e \in Visible' PROVE e \in Visible \cup {entry}
    <3>1. CASE e \in durable'
      BY <1>1, <3>1, VisibleIs
    <3>2. ASSUME NEW v \in Volumes, NEW i \in DOMAIN pending'[v], pending'[v][i] = e,
                 e # entry
          PROVE  e \in Visible
      <4>1. i \in DOMAIN pending[v] /\ pending[v][i] = e
        BY <1>2, <1>3, <3>2
      <4> QED
        BY <4>1, VisibleIs
    <3> QED
      BY <2>3, <3>1, <3>2, VisibleIs
  <2> QED
    BY <2>1, <2>2, <2>3
<1>6. OrderInv'
  <2>1. ASSUME NEW v \in Volumes, NEW i \in DOMAIN pending'[v]
        PROVE  /\ v = HomeOf(pending'[v][i])
               /\ \A f \in Entries : Needs(pending'[v][i], f) =>
                    f \in durable \/ \E j \in 1 .. i - 1 : pending'[v][j] = f
    <3>1. CASE v # u
      <4>1. pending'[v] = pending[v] /\ i \in DOMAIN pending[v]
        BY <1>3, <2>1, <3>1
      <4>2. /\ v = HomeOf(pending[v][i])
            /\ \A f \in Entries : Needs(pending[v][i], f) =>
                 f \in durable \/ \E j \in 1 .. i - 1 : pending[v][j] = f
        BY <4>1 DEF OrderInv
      <4> QED
        BY <4>1, <4>2
    <3>2. CASE v = u /\ i \in 1 .. k
      <4>1. pending'[v][i] = pending[v][i] /\ i \in DOMAIN pending[v]
        BY <1>3, <3>2
      <4>2. v = HomeOf(pending[v][i])
        BY <2>1, <4>1 DEF OrderInv
      <4>3. ASSUME NEW f \in Entries, Needs(pending[v][i], f), f \notin durable
            PROVE  \E j \in 1 .. i - 1 : pending'[v][j] = f
        <5>1. PICK j \in 1 .. i - 1 : pending[v][j] = f
          BY <2>1, <4>1, <4>3 DEF OrderInv
        <5>2. j \in 1 .. k /\ pending'[v][j] = pending[v][j]
          BY <1>2, <1>3, <3>2
        <5> QED
          BY <5>1, <5>2
      <4> QED
        BY <4>1, <4>2, <4>3
    <3>3. CASE v = u /\ i = k + 1
      <4>1. pending'[v][i] = entry /\ v = HomeOf(entry)
        BY <1>3, <3>3 DEF u
      <4>2. ASSUME NEW f \in Entries, Needs(entry, f), f \notin durable
            PROVE  \E j \in 1 .. i - 1 : pending'[v][j] = f
        <5>1. PICK w \in Volumes : \E j \in DOMAIN pending[w] : pending[w][j] = f
          BY <4>2, VisibleIs
        <5>2. PICK j \in DOMAIN pending[w] : pending[w][j] = f
          BY <5>1
        <5>3. w = HomeOf(f) /\ HomeOf(f) = HomeOf(entry)
          BY <4>2, <5>2 DEF OrderInv
        <5>4. w = u /\ j \in 1 .. k
          BY <1>2, <3>3, <4>1, <5>2, <5>3
        <5>5. pending'[v][j] = f /\ j \in 1 .. i - 1
          BY <1>2, <1>3, <3>3, <5>2, <5>4
        <5> QED
          BY <5>5
      <4> QED
        BY <4>1, <4>2
    <3> QED
      BY <1>2, <1>3, <2>1, <3>1, <3>2, <3>3
  <2> QED
    BY <1>1, <1>4, <2>1 DEF OrderInv
<1> QED
  BY <1>1, <1>3, <1>5, <1>6

(* The first entries of a volume become durable.                           *)
LEMMA FlushIs ==
    ASSUME Typed, OrderInv, UNCHANGED layout, NEW u \in Volumes,
           NEW k \in 0 .. Len(pending[u]),
           durable' = durable \cup {pending[u][i] : i \in 1 .. k},
           NEW rest \in Seq(Entries), pending' = [pending EXCEPT ![u] = rest],
           Len(rest) = Len(pending[u]) - k,
           \A i \in 1 .. Len(rest) : rest[i] = pending[u][i + k]
    PROVE  /\ OrderInv' /\ Visible' = Visible
           /\ durable \subseteq durable' /\ durable' \subseteq Visible
           /\ durable' \subseteq Entries
           /\ pending' \in [Volumes -> Seq(Entries)]
<1> DEFINE m == Len(pending[u])
<1>1. /\ pending \in [Volumes -> Seq(Entries)] /\ pending[u] \in Seq(Entries)
      /\ m \in Nat /\ DOMAIN pending[u] = 1 .. m /\ k \in 0 .. m
      /\ durable \subseteq Entries
  <2>1. pending \in [Volumes -> Seq(Entries)] /\ durable \subseteq Entries
    BY DEF Typed
  <2>2. pending[u] \in Seq(Entries)
    BY <2>1
  <2> QED
    BY <2>1, <2>2
<1>2. /\ DOMAIN rest = 1 .. m - k /\ k \in Nat
      /\ \A i \in 1 .. m - k : rest[i] = pending[u][i + k] /\ i + k \in 1 .. m
  BY <1>1
<1> HIDE DEF m
<1>3. /\ pending' \in [Volumes -> Seq(Entries)] /\ pending'[u] = rest
      /\ \A v \in Volumes : v # u => pending'[v] = pending[v]
  BY <1>1
<1>4. \A i \in 1 .. k : i \in DOMAIN pending[u] /\ pending[u][i] \in durable'
                        /\ pending[u][i] \in Entries
  <2> SUFFICES ASSUME NEW i \in 1 .. k
               PROVE  i \in DOMAIN pending[u] /\ pending[u][i] \in durable'
                      /\ pending[u][i] \in Entries
    OBVIOUS
  <2>1. i \in DOMAIN pending[u] /\ pending[u][i] \in durable'
    BY <1>1, <1>2
  <2> QED
    BY <1>1, <2>1
<1>5. \A e : e \in durable' <=> e \in durable \/ \E i \in 1 .. k : pending[u][i] = e
  OBVIOUS
<1>6. durable' \subseteq Entries /\ durable \subseteq durable' /\ durable' \subseteq Visible
  <2>1. ASSUME NEW e \in durable' PROVE e \in Entries /\ e \in Visible
    <3>1. CASE e \in durable
      BY <1>1, <3>1, VisibleIs
    <3>2. ASSUME NEW i \in 1 .. k, pending[u][i] = e PROVE e \in Entries /\ e \in Visible
      <4>1. i \in DOMAIN pending[u] /\ pending[u][i] \in Entries
        BY <1>4
      <4> QED
        BY <3>2, <4>1, VisibleIs
    <3> QED
      BY <1>5, <2>1, <3>1, <3>2
  <2> QED
    BY <1>5, <2>1
<1>7. Visible' = Visible
  <2>1. ASSUME NEW e \in Visible PROVE e \in Visible'
    <3>1. CASE e \in durable
      BY <1>5, <3>1, VisibleIs
    <3>2. ASSUME NEW v \in Volumes, NEW i \in DOMAIN pending[v], pending[v][i] = e
          PROVE  e \in Visible'
      <4>1. CASE v # u
        <5>1. i \in DOMAIN pending'[v] /\ pending'[v][i] = e
          BY <1>3, <3>2, <4>1
        <5> QED
          BY <5>1, VisibleIs
      <4>2. CASE v = u /\ i \in 1 .. k
        BY <1>4, <3>2, <4>2, VisibleIs
      <4>3. CASE v = u /\ i \notin 1 .. k
        <5>1. i - k \in 1 .. m - k /\ i - k + k = i
          BY <1>1, <1>2, <4>3
        <5>2. i - k \in DOMAIN pending'[u] /\ pending'[u][i - k] = e
          BY <1>2, <1>3, <3>2, <4>3, <5>1
        <5> QED
          BY <5>2, VisibleIs
      <4> QED
        BY <4>1, <4>2, <4>3
    <3> QED
      BY <2>1, <3>1, <3>2, VisibleIs
  <2>2. ASSUME NEW e \in Visible' PROVE e \in Visible
    <3>1. CASE e \in durable'
      BY <1>6, <3>1
    <3>2. ASSUME NEW v \in Volumes, NEW i \in DOMAIN pending'[v], pending'[v][i] = e
          PROVE  e \in Visible
      <4>1. CASE v # u
        <5>1. i \in DOMAIN pending[v] /\ pending[v][i] = e
          BY <1>3, <3>2, <4>1
        <5> QED
          BY <5>1, VisibleIs
      <4>2. CASE v = u
        <5>1. i + k \in DOMAIN pending[u] /\ pending[u][i + k] = e
          BY <1>1, <1>2, <1>3, <3>2, <4>2
        <5> QED
          BY <5>1, VisibleIs
      <4> QED
        BY <4>1, <4>2
    <3> QED
      BY <2>2, <3>1, <3>2, VisibleIs
  <2> QED
    BY <2>1, <2>2
<1>8. \A e, f : (Needs(e, f)' <=> Needs(e, f)) /\ HomeOf(e)' = HomeOf(e)
  BY DEF Needs, HomeOf, VolumeOf
<1>9. ASSUME NEW v \in Volumes, NEW i \in DOMAIN pending'[v]
      PROVE  /\ v = HomeOf(pending'[v][i])
             /\ \A f \in Entries : Needs(pending'[v][i], f) =>
                  f \in durable' \/ \E j \in 1 .. i - 1 : pending'[v][j] = f
  <2>1. CASE v # u
    <3>1. pending'[v] = pending[v] /\ i \in DOMAIN pending[v]
      BY <1>3, <1>9, <2>1
    <3>2. /\ v = HomeOf(pending[v][i])
          /\ \A f \in Entries : Needs(pending[v][i], f) =>
               f \in durable \/ \E j \in 1 .. i - 1 : pending[v][j] = f
      BY <3>1 DEF OrderInv
    <3> QED
      BY <1>5, <3>1, <3>2
  <2>2. CASE v = u
    <3>1. i \in 1 .. m - k /\ i + k \in DOMAIN pending[u] /\ pending'[v][i] = pending[u][i + k]
      BY <1>1, <1>2, <1>3, <1>9, <2>2
    <3>2. /\ u = HomeOf(pending[u][i + k])
          /\ \A f \in Entries : Needs(pending[u][i + k], f) =>
               f \in durable \/ \E j \in 1 .. i + k - 1 : pending[u][j] = f
      BY <3>1 DEF OrderInv
    <3>3. ASSUME NEW j \in 1 .. i + k - 1, pending[u][j] \notin durable'
          PROVE  \E l \in 1 .. i - 1 : pending'[v][l] = pending[u][j]
      <4>1. j - k \in 1 .. i - 1 /\ j - k \in 1 .. m - k /\ j - k + k = j
        BY <1>1, <1>2, <1>4, <3>1, <3>3
      <4>2. pending'[v][j - k] = pending[u][j]
        BY <1>2, <1>3, <2>2, <4>1
      <4> QED
        BY <4>1, <4>2
    <3>4. ASSUME NEW f \in Entries, Needs(pending'[v][i], f)
          PROVE  f \in durable' \/ \E j \in 1 .. i - 1 : pending'[v][j] = f
      <4>1. f \in durable \/ \E j \in 1 .. i + k - 1 : pending[u][j] = f
        BY <3>1, <3>2, <3>4
      <4> QED
        BY <1>5, <3>3, <4>1
    <3> QED
      BY <2>2, <3>1, <3>2, <3>4
  <2> QED
    BY <2>1, <2>2
<1>10. ASSUME NEW e \in durable', NEW f \in Entries, Needs(e, f) PROVE f \in durable'
  <2>1. CASE e \in durable
    BY <1>5, <1>10, <2>1 DEF OrderInv
  <2>2. ASSUME NEW i \in 1 .. k, pending[u][i] = e PROVE f \in durable'
    <3>1. f \in durable \/ \E j \in 1 .. i - 1 : pending[u][j] = f
      BY <1>4, <1>10, <2>2 DEF OrderInv
    <3>2. \A j \in 1 .. i - 1 : j \in 1 .. k
      BY <1>2
    <3> QED
      BY <1>5, <3>1, <3>2
  <2> QED
    BY <1>5, <1>10, <2>1, <2>2
<1>11. OrderInv'
  BY <1>8, <1>9, <1>10 DEF OrderInv
<1> QED
  BY <1>3, <1>6, <1>7, <1>11

LEMMA SameEntries ==
    ASSUME OrderInv, UNCHANGED <<layout, durable, pending>>
    PROVE  OrderInv' /\ Visible' = Visible
<1>1. \A e, f : (Needs(e, f)' <=> Needs(e, f)) /\ HomeOf(e)' = HomeOf(e)
  BY DEF Needs, HomeOf, VolumeOf
<1>2. OrderInv'
  BY <1>1 DEF OrderInv
<1>3. Visible' = Visible
  BY DEF Visible
<1> QED
  BY <1>2, <1>3

LEMMA LossIs ==
    ASSUME OrderInv, UNCHANGED <<layout, durable>>, pending' = [v \in Volumes |-> <<>>]
    PROVE  OrderInv' /\ Visible' = durable
<1>1. \A e, f : Needs(e, f)' <=> Needs(e, f)
  BY DEF Needs
<1>2. \A v \in Volumes : DOMAIN pending'[v] = {}
  OBVIOUS
<1>3. OrderInv'
  BY <1>1, <1>2 DEF OrderInv
<1>4. Visible' = durable
  BY <1>2, VisibleIs
<1> QED
  BY <1>3, <1>4
-----------------------------------------------------------------------------
(* Heads *******************************************************************)

LEMMA PartsAre ==
    /\ MaxParts \in Nat /\ Parts = 1 .. MaxParts /\ Genesis = 0 /\ Parts \subseteq Nat
BY DurableAssumption DEF Parts, Genesis

LEMMA VisibleTyped ==
    ASSUME Typed
    PROVE  Visible \subseteq Entries
<1> SUFFICES ASSUME NEW e \in Visible PROVE e \in Entries
  OBVIOUS
<1>1. CASE e \in durable
  BY <1>1 DEF Typed
<1>2. ASSUME NEW v \in Volumes, NEW i \in DOMAIN pending[v], pending[v][i] = e
      PROVE  e \in Entries
  <2>1. pending[v] \in Seq(Entries)
    BY DEF Typed
  <2> QED
    BY <1>2, <2>1
<1> QED
  BY <1>1, <1>2, VisibleIs

LEMMA BaseExists ==
    ASSUME Typed
    PROVE  /\ \E b \in 0 .. MaxParts : IsBase(b)
           /\ \A b, c : IsBase(b) /\ IsBase(c) => b = c
<1>1. /\ Before \cup {Genesis} \subseteq Nat /\ Before \subseteq Parts
      /\ \A p \in Before \cup {Genesis} : p <= MaxParts
  BY PartsAre DEF Before, HeadsDurable
<1>2. PICK b \in Before \cup {Genesis} : \A p \in Before \cup {Genesis} : p <= b
  <2>1. Before \cup {Genesis} # {} /\ MaxParts \in Nat
    BY PartsAre
  <2> HIDE DEF Before
  <2> QED
    BY <1>1, <2>1, Greatest
<1>3. IsBase(b) /\ b \in 0 .. MaxParts
  BY <1>1, <1>2, PartsAre DEF IsBase
<1>4. ASSUME NEW c, NEW d, IsBase(c), IsBase(d) PROVE c = d
  <2>1. c \in Before \cup {Genesis} /\ d \in Before \cup {Genesis}
        /\ c \in Nat /\ d \in Nat
    BY <1>1, <1>4 DEF IsBase
  <2>2. d \in Before => d <= c
    BY <1>4 DEF IsBase
  <2>3. c \in Before => c <= d
    BY <1>4 DEF IsBase
  <2> QED
    BY <2>1, <2>2, <2>3, PartsAre
<1> QED
  BY <1>3, <1>4

(* What head.hash names.                                                   *)
LEMMA HeadHashIs ==
    ASSUME Typed, FreshInv, HeadInv, NEW b \in 0 .. MaxParts, IsBase(b)
    PROVE  HeadHash = IF at > 7 THEN n ELSE b
<1> DEFINE X == {e[2] : e \in {f \in Visible : f[1] = "head"}} \cup {Genesis}
           x == IF at > 7 THEN n ELSE b
<1>1. \A p : p \in X <=> p = Genesis \/ (p \in Parts /\ <<"head", p>> \in Visible)
  <2>1. ASSUME NEW e \in Visible, e[1] = "head"
        PROVE  e = <<"head", e[2]>> /\ e[2] \in Parts
    BY <2>1, VisibleTyped DEF Entries
  <2>2. ASSUME NEW p \in Parts, <<"head", p>> \in Visible
        PROVE  p \in X
    <3>1. <<"head", p>>[1] = "head" /\ <<"head", p>>[2] = p
      OBVIOUS
    <3> QED
      BY <2>2, <3>1
  <2>3. ASSUME NEW p \in X, p # Genesis
        PROVE  p \in Parts /\ <<"head", p>> \in Visible
    <3>1. PICK e \in Visible : e[1] = "head" /\ e[2] = p
      BY <2>3
    <3> QED
      BY <2>1, <3>1
  <2> QED
    BY <2>2, <2>3
<1>2. HeadHash = Max(X)
  BY DEF HeadHash
<1> HIDE DEF X
<1>3. X \subseteq Nat
  <2>1. Genesis \in Nat /\ Parts \subseteq Nat
    BY PartsAre
  <2> QED
    BY <1>1, <2>1
<1>4. x \in X /\ \A y \in X : y <= x
  <2>1. n \in Nat /\ b \in Nat /\ (at > 7 => n \in Parts)
    <3>1. MaxParts \in Nat /\ Parts = 1 .. MaxParts
      BY PartsAre
    <3>2. n \in 1 .. MaxParts + 1 /\ at \in 1 .. 12 /\ (n > MaxParts => at = 1)
      BY DEF Typed
    <3> QED
      BY <3>1, <3>2
  <2>2. \A y \in X : y = Genesis \/ y \in Before \/ y = n
    BY <1>1 DEF HeadInv, Before
  <2>3. \A y \in Before : y <= b /\ y < n
    <3> SUFFICES ASSUME NEW y \in Before PROVE y <= b /\ y < n
      OBVIOUS
    <3>1. y <= b
      BY DEF IsBase
    <3>2. <<"head", y>> \in durable /\ y # n /\ y \in Parts
      BY DEF Before, HeadsDurable
    <3>3. <<"head", y>> \in Visible /\ <<"head", y>>[2] = y
      BY <3>2, VisibleIs
    <3> QED
      BY <3>1, <3>2, <3>3 DEF FreshInv
  <2>4. b = Genesis \/ b \in Before
    BY DEF IsBase
  <2>5. \A y \in Before : y \in X
    BY <1>1, VisibleIs DEF Before, HeadsDurable
  <2>6. CASE at > 7
    <3>1. <<"head", n>> \in Visible
      BY <2>6 DEF FreshInv
    <3>2. x = n /\ n \in X
      BY <1>1, <2>1, <2>6, <3>1
    <3>3. ASSUME NEW y \in X PROVE y <= n
      <4>1. y = Genesis \/ y \in Before \/ y = n
        BY <2>2
      <4>2. Genesis = 0 /\ y \in Nat
        BY <1>3, PartsAre
      <4> QED
        BY <2>1, <2>3, <4>1, <4>2
    <3> QED
      BY <3>2, <3>3
  <2>7. CASE ~(at > 7)
    <3>1. <<"head", n>> \notin Visible
      BY <2>7 DEF FreshInv
    <3>2. \A y \in X : y = n => y = Genesis
      BY <1>1, <3>1
    <3>3. x = b /\ b \in X
      BY <1>1, <2>4, <2>5, <2>7
    <3>4. ASSUME NEW y \in X PROVE y <= b
      <4>1. y = Genesis \/ y \in Before
        BY <2>2, <3>2
      <4>2. Genesis = 0 /\ y \in Nat
        BY <1>3, PartsAre
      <4> QED
        BY <2>1, <2>3, <4>1, <4>2
    <3> QED
      BY <3>3, <3>4
  <2> QED
    BY <2>6, <2>7
<1>5. \A y \in X : (\A z \in X : y >= z) => y = x
  <2> HIDE DEF x
  <2> SUFFICES ASSUME NEW y \in X, \A z \in X : y >= z PROVE y = x
    OBVIOUS
  <2>1. y >= x /\ y <= x /\ y \in Nat /\ x \in Nat
    BY <1>3, <1>4
  <2> QED
    BY <2>1
<1>6. Max(X) = x
  <2> HIDE DEF x
  <2>1. \A z \in X : x >= z
    BY <1>3, <1>4
  <2> QED
    BY <1>4, <1>5, <2>1 DEF Max
<1> QED
  BY <1>2, <1>6

(* A step within a part, or none at all, leaves the history as it is.      *)
LEMMA HeadSame ==
    ASSUME HeadInv, UNCHANGED <<n, prev, acked>>, at' > 3 => at > 3,
           Before' = Before,
           \A p \in Parts : <<"head", p>> \in Visible' => p \in HeadsDurable' \cup {n},
           ToSet(log)' \subseteq ToSet(log) \cup {p \in {n} : at' > 9},
           at > 9 => at' > 9
    PROVE  HeadInv'
<1> SUFFICES ASSUME NEW b \in 0 .. MaxParts, IsBase(b)'
             PROVE  /\ at' > 3 => prev'[n'] = b
                    /\ acked' \subseteq HistoryOf(b)'
                    /\ ToSet(log)' \subseteq HistoryOf(b)' \cup {p \in {n'} : at' > 9}
                    /\ HistoryOf(b)' \subseteq Before'
  BY DEF HeadInv
<1>1. IsBase(b)
  BY DEF IsBase
<1>2. HistoryOf(b)' = HistoryOf(b)
  BY HistoryIs
<1> QED
  BY <1>1, <1>2 DEF HeadInv

(* The next part follows the head there is.                                *)
LEMMA HeadNextPart ==
    ASSUME Typed, FreshInv, HeadInv, n \in Parts, n' = n + 1, at' = 1, prev' = prev,
           HeadsDurable' = HeadsDurable,
           \A p \in Parts : <<"head", p>> \in Visible' => p \in HeadsDurable',
           acked' \subseteq acked \cup {p \in {n} : n \in HeadsDurable},
           ToSet(log)' \subseteq ToSet(log)
    PROVE  HeadInv'
<1>1. PICK b \in 0 .. MaxParts : IsBase(b)
  BY BaseExists
<1>2. /\ acked \subseteq HistoryOf(b) /\ HistoryOf(b) \subseteq Before
      /\ ToSet(log) \subseteq HistoryOf(b) \cup {p \in {n} : at > 9}
      /\ at > 3 => prev[n] = b
  BY <1>1 DEF HeadInv
<1>3. \A p \in HeadsDurable : p <= n /\ p \in Parts
  <2> SUFFICES ASSUME NEW p \in HeadsDurable PROVE p <= n /\ p \in Parts
    OBVIOUS
  <2>1. <<"head", p>> \in Visible /\ p \in Parts /\ <<"head", p>>[2] = p
    BY VisibleIs DEF HeadsDurable
  <2> QED
    BY <2>1, PartsAre DEF FreshInv
<1>4. n \in Nat /\ n + 1 \notin HeadsDurable /\ Before' = HeadsDurable
  <2>1. n \in Nat
    BY PartsAre
  <2>2. n + 1 \notin HeadsDurable
    BY <1>3, <2>1
  <2> QED
    BY <2>1, <2>2 DEF Before
<1>5. PICK c \in 0 .. MaxParts :
          /\ acked' \subseteq HistoryBy(prev, c) /\ HistoryBy(prev, c) \subseteq Before'
          /\ ToSet(log)' \subseteq HistoryBy(prev, c)
          /\ c \in Before' \cup {Genesis} /\ \A p \in Before' : p <= c
  <2>1. CASE n \in HeadsDurable
    <3>1. at > 7
      BY <2>1, VisibleIs DEF FreshInv, HeadsDurable
    <3>2. HistoryBy(prev, n) = {n} \cup HistoryBy(prev, b)
      <4>1. at \in 1 .. 12 /\ prev \in [Parts -> 0 .. MaxParts]
        BY DEF Typed
      <4>2. prev[n] = b
        BY <1>2, <3>1, <4>1
      <4> QED
        BY <4>1, <4>2, HistorySteps
    <3>3. n \in 0 .. MaxParts
      BY PartsAre
    <3> QED
      BY <1>2, <1>3, <1>4, <2>1, <3>2, <3>3, HistoryIs DEF Before
  <2>2. CASE n \notin HeadsDurable
    <3>1. ~(at > 9)
      <4>1. at \in 1 .. 12
        BY DEF Typed
      <4>2. ~(at > 8)
        BY <2>2 DEF FreshInv, HeadsDurable
      <4> QED
        BY <4>1, <4>2
    <3>2. Before = HeadsDurable
      BY <2>2 DEF Before
    <3> QED
      BY <1>1, <1>2, <1>4, <2>2, <3>1, <3>2, HistoryIs DEF IsBase
  <2> QED
    BY <2>1, <2>2
<1>6. ASSUME NEW d \in 0 .. MaxParts, IsBase(d)' PROVE d = c
  <2>1. d \in Before' \cup {Genesis} /\ \A p \in Before' : p <= d
    BY <1>6 DEF IsBase
  <2>2. Before' \subseteq Parts
    BY <1>3, <1>4
  <2> QED
    BY <1>5, <2>1, <2>2, PartsAre
<1> QED
  BY <1>5, <1>6, HistoryIs DEF HeadInv
-----------------------------------------------------------------------------
(* Calls *******************************************************************)

LEMMA CallAt ==
    ASSUME Typed
    PROVE  /\ Calls[at] = "openat" => at = 1
           /\ Calls[at] = "sync_recording" => at = 2
           /\ Calls[at] = "read_head" => at = 3
           /\ Calls[at] = "sync_sidecar" => at = 4
           /\ Calls[at] = "rename_sidecar" => at = 5
           /\ Calls[at] = "sync_head" => at = 6
           /\ Calls[at] = "rename_head" => at = 7
           /\ Calls[at] = "fsync_dir" => at \in {8, 11}
           /\ Calls[at] = "append" => at = 9
           /\ Calls[at] = "sync_log" => at = 10
           /\ Calls[at] = "Ok" => at = 12
<1>1. at \in {1, 2, 3, 4, 5, 6, 7, 8, 9, 10, 11, 12}
  <2>1. at \in 1 .. 12
    BY DEF Typed
  <2> QED
    BY <2>1
<1>2. /\ Calls[1] = "openat" /\ Calls[2] = "sync_recording" /\ Calls[3] = "read_head"
      /\ Calls[4] = "sync_sidecar" /\ Calls[5] = "rename_sidecar"
      /\ Calls[6] = "sync_head" /\ Calls[7] = "rename_head"
      /\ Calls[8] = "fsync_dir" /\ Calls[9] = "append" /\ Calls[10] = "sync_log"
      /\ Calls[11] = "fsync_dir" /\ Calls[12] = "Ok"
  BY DEF Calls
<1> QED
  BY <1>1, <1>2

LEMMA CallIs ==
    ASSUME Typed, n <= MaxParts
    PROVE  n \in Parts /\ n \in Nat /\ MaxParts \in Nat
<1>1. MaxParts \in Nat /\ Parts = 1 .. MaxParts
  BY PartsAre
<1>2. n \in 1 .. MaxParts + 1
  BY DEF Typed
<1> QED
  BY <1>1, <1>2

LEMMA NameIs ==
    ASSUME NEW p \in Parts
    PROVE  /\ <<"recording", p>> \in Entries /\ <<"sidecar", p>> \in Entries
           /\ <<"head", p>> \in Entries /\ <<"log", p>> \in Entries
           /\ HomeOf(<<"recording", p>>) = VolumeOf("storage")
           /\ HomeOf(<<"sidecar", p>>) = VolumeOf("storage")
           /\ HomeOf(<<"head", p>>) = VolumeOf("chain")
           /\ HomeOf(<<"log", p>>) = VolumeOf("chain")
BY DEF Entries, Names, HomeOf

LEMMA CreateKeeps ==
    ASSUME DInv, CreateRecording
    PROVE  DInv'
<1>1. Typed /\ OrderInv /\ FreshInv /\ WholeInv /\ HeadInv /\ LogInv
  BY DEF DInv
<1>2. /\ n <= MaxParts /\ Calls[at] = "openat" /\ at' = at + 1
      /\ layout' = layout /\ n' = n /\ acked' = acked
      /\ Enter("storage", <<"recording", n>>)
  BY DEF CreateRecording, Call
<1>3. n \in Parts /\ n \in Nat /\ MaxParts \in Nat /\ at = 1 /\ at' = 2
  BY <1>1, <1>2, CallIs, CallAt
<1>4. /\ prev' = prev /\ written' = written /\ damaged' = damaged
      /\ log' = log /\ logSynced' = logSynced
  BY DEF CreateRecording, content, logFile
<1>5. /\ OrderInv' /\ Visible' = Visible \cup {<<"recording", n>>} /\ durable' = durable
      /\ pending' \in [Volumes -> Seq(Entries)]
  <2>1. \A f : ~Needs(<<"recording", n>>, f)
    BY DEF Needs
  <2> QED
    BY <1>1, <1>2, <1>3, <2>1, NameIs, EnterIs DEF Volumes
<1>6. Typed'
  BY <1>1, <1>2, <1>3, <1>4, <1>5 DEF Typed
<1>7. FreshInv'
  BY <1>1, <1>2, <1>3, <1>4, <1>5 DEF FreshInv
<1>8. WholeInv'
  BY <1>1, <1>2, <1>3, <1>4, <1>5 DEF WholeInv
<1>9. HeadInv'
  <2>1. Before' = Before /\ HeadsDurable' = HeadsDurable
    BY <1>2, <1>3, <1>5 DEF Before, HeadsDurable
  <2>2. \A p \in Parts : <<"head", p>> \in Visible' => p \in HeadsDurable' \cup {n}
    BY <1>1, <1>5, <2>1 DEF HeadInv
  <2> QED
    BY <1>1, <1>2, <1>3, <1>4, <2>1, <2>2, HeadSame
<1>10. LogInv'
  BY <1>1, <1>2, <1>3, <1>4, <1>5 DEF LogInv
<1> QED
  BY <1>5, <1>6, <1>7, <1>8, <1>9, <1>10 DEF DInv

(* The three calls of sync_all.                                            *)
LEMMA SyncKeeps ==
    ASSUME DInv, NEW kind,
           \/ Calls[at] = "sync_recording" /\ kind = "recording"
           \/ Calls[at] = "sync_sidecar" /\ kind = "sidecar"
           \/ Calls[at] = "sync_head" /\ kind = "head",
           n <= MaxParts, at' = at + 1, layout' = layout, n' = n, acked' = acked,
           written' = written \cup {<<kind, n>>},
           prev' = prev, durable' = durable, pending' = pending,
           damaged' = damaged, log' = log, logSynced' = logSynced
    PROVE  DInv'
<1>1. Typed /\ OrderInv /\ FreshInv /\ WholeInv /\ HeadInv /\ LogInv
  BY DEF DInv
<1>2. /\ n \in Parts /\ n \in Nat /\ MaxParts \in Nat /\ at \in {2, 4, 6}
      /\ at = 2 => kind = "recording"
      /\ at = 4 => kind = "sidecar"
      /\ at = 6 => kind = "head"
  <2>1. n \in Parts /\ n \in Nat /\ MaxParts \in Nat
    BY <1>1, CallIs
  <2> QED
    BY <1>1, <2>1, CallAt
<1>3. OrderInv' /\ Visible' = Visible
  BY <1>1, <1>2, SameEntries
<1>4. Typed'
  <2>1. <<kind, n>> \in Entries
    BY <1>2, NameIs
  <2>2. at' \in 1 .. 12 /\ ~(n' > MaxParts)
    BY <1>2
  <2>3. written' \subseteq Entries
    BY <1>1, <2>1 DEF Typed
  <2> QED
    BY <1>1, <2>2, <2>3 DEF Typed
<1>5. FreshInv'
  <2>1. CASE at = 2
    BY <1>1, <1>2, <1>3, <2>1 DEF FreshInv
  <2>2. CASE at = 4
    BY <1>1, <1>2, <1>3, <2>2 DEF FreshInv
  <2>3. CASE at = 6
    BY <1>1, <1>2, <1>3, <2>3 DEF FreshInv
  <2> QED
    BY <1>2, <2>1, <2>2, <2>3
<1>6. WholeInv'
  <2>1. <<kind, n>> \notin damaged
    BY <1>1, <1>2 DEF FreshInv
  <2> QED
    BY <1>1, <1>2, <1>3, <2>1 DEF WholeInv
<1>7. HeadInv'
  <2>1. Before' = Before /\ HeadsDurable' = HeadsDurable
    BY <1>2 DEF Before, HeadsDurable
  <2>2. \A p \in Parts : <<"head", p>> \in Visible' => p \in HeadsDurable' \cup {n}
    BY <1>1, <1>3, <2>1 DEF HeadInv
  <2> QED
    BY <1>1, <1>2, <2>1, <2>2, HeadSame
<1>8. LogInv'
  BY <1>1, <1>2 DEF LogInv
<1> QED
  BY <1>3, <1>4, <1>5, <1>6, <1>7, <1>8 DEF DInv

LEMMA ReadHeadKeeps ==
    ASSUME DInv, ReadHead
    PROVE  DInv'
<1>1. Typed /\ OrderInv /\ FreshInv /\ WholeInv /\ HeadInv /\ LogInv
  BY DEF DInv
<1>2. /\ n <= MaxParts /\ Calls[at] = "read_head" /\ at' = at + 1
      /\ layout' = layout /\ n' = n /\ acked' = acked
      /\ prev' = [prev EXCEPT ![n] = HeadHash]
      /\ durable' = durable /\ pending' = pending
      /\ written' = written /\ damaged' = damaged /\ log' = log /\ logSynced' = logSynced
  BY DEF ReadHead, Call, entries, content, logFile
<1>3. n \in Parts /\ n \in Nat /\ MaxParts \in Nat /\ at = 3 /\ at' = 4
  BY <1>1, <1>2, CallIs, CallAt
<1>4. OrderInv' /\ Visible' = Visible
  BY <1>1, <1>2, SameEntries
<1>5. PICK b \in 0 .. MaxParts : IsBase(b)
  BY <1>1, BaseExists
<1>6. HeadHash = b
  BY <1>1, <1>3, <1>5, HeadHashIs
<1>7. b < n
  <2>1. CASE b = Genesis
    <3>1. Parts = 1 .. MaxParts /\ Genesis = 0
      BY PartsAre
    <3> QED
      BY <1>3, <2>1, <3>1
  <2>2. CASE b \in Before
    <3>1. <<"head", b>> \in Visible /\ <<"head", b>>[2] = b /\ b # n
      BY <2>2, VisibleIs DEF Before, HeadsDurable
    <3> QED
      BY <1>1, <3>1 DEF FreshInv
  <2> QED
    BY <1>5, <2>1, <2>2 DEF IsBase
<1>8. Typed'
  <2>1. prev' \in [Parts -> 0 .. MaxParts] /\ \A p \in Parts : prev'[p] < p
    <3>1. prev \in [Parts -> 0 .. MaxParts] /\ \A p \in Parts : prev[p] < p
      BY <1>1 DEF Typed
    <3> QED
      BY <1>2, <1>3, <1>5, <1>6, <1>7, <3>1
  <2> QED
    BY <1>1, <1>2, <1>3, <2>1 DEF Typed
<1>9. FreshInv'
  BY <1>1, <1>2, <1>3, <1>4 DEF FreshInv
<1>10. WholeInv'
  BY <1>1, <1>2, <1>4 DEF WholeInv
<1>11. HeadInv'
  <2>1. Before' = Before /\ HeadsDurable' = HeadsDurable
    BY <1>2 DEF Before, HeadsDurable
  <2>2. HistoryOf(b)' = HistoryOf(b)
    <3>1. Older(prev) /\ Older(prev')
      BY <1>1, <1>8 DEF Typed, Older
    <3>2. n - 1 \in Nat /\ b <= n - 1
      BY <1>3, <1>5, <1>7, PartsAre
    <3>3. \A p \in Parts : p <= n - 1 => prev'[p] = prev[p]
      <4>1. prev \in [Parts -> 0 .. MaxParts]
        BY <1>1 DEF Typed
      <4>2. \A p \in Parts : p \in Nat
        BY PartsAre
      <4> QED
        BY <1>2, <1>3, <4>1, <4>2
    <3>4. HistoryBy(prev', b) = HistoryBy(prev, b)
      BY <1>5, <3>1, <3>2, <3>3, HistoryEarlier
    <3> QED
      BY <3>4, HistoryIs
  <2>3. prev'[n] = b
    BY <1>1, <1>2, <1>3, <1>6 DEF Typed
  <2>4. ASSUME NEW c \in 0 .. MaxParts, IsBase(c)' PROVE c = b
    <3>1. IsBase(c)
      BY <2>1, <2>4 DEF IsBase
    <3> QED
      BY <1>1, <1>5, <3>1, BaseExists
  <2>5. /\ acked \subseteq HistoryOf(b) /\ HistoryOf(b) \subseteq Before
        /\ ToSet(log) \subseteq HistoryOf(b) \cup {p \in {n} : at > 9}
        /\ \A p \in Parts : <<"head", p>> \in Visible => p \in HeadsDurable \cup {n}
    BY <1>1, <1>5 DEF HeadInv
  <2>6. ToSet(log)' = ToSet(log) /\ ~(at > 9)
    BY <1>2, <1>3
  <2> QED
    BY <1>2, <1>4, <2>1, <2>2, <2>3, <2>4, <2>5, <2>6 DEF HeadInv
<1>12. LogInv'
  BY <1>1, <1>2, <1>3 DEF LogInv
<1> QED
  BY <1>4, <1>8, <1>9, <1>10, <1>11, <1>12 DEF DInv

LEMMA RenameSidecarKeeps ==
    ASSUME DInv, RenameSidecar
    PROVE  DInv'
<1>1. Typed /\ OrderInv /\ FreshInv /\ WholeInv /\ HeadInv /\ LogInv
  BY DEF DInv
<1>2. /\ n <= MaxParts /\ Calls[at] = "rename_sidecar" /\ at' = at + 1
      /\ layout' = layout /\ n' = n /\ acked' = acked
      /\ Enter("storage", <<"sidecar", n>>)
      /\ prev' = prev /\ written' = written /\ damaged' = damaged
      /\ log' = log /\ logSynced' = logSynced
  BY DEF RenameSidecar, Call, content, logFile
<1>3. n \in Parts /\ n \in Nat /\ MaxParts \in Nat /\ at = 5 /\ at' = 6
  BY <1>1, <1>2, CallIs, CallAt
<1>4. /\ OrderInv' /\ Visible' = Visible \cup {<<"sidecar", n>>} /\ durable' = durable
      /\ pending' \in [Volumes -> Seq(Entries)]
  <2>1. ASSUME NEW f, Needs(<<"sidecar", n>>, f)
        PROVE  f \in Visible /\ HomeOf(f) = HomeOf(<<"sidecar", n>>)
    <3>1. f = <<"recording", n>>
      BY <2>1 DEF Needs
    <3>2. <<"recording", n>> \in Visible
      BY <1>1, <1>3 DEF FreshInv
    <3> QED
      BY <1>3, <3>1, <3>2, NameIs
  <2>2. <<"sidecar", n>> \in Entries /\ VolumeOf("storage") = HomeOf(<<"sidecar", n>>)
    BY <1>3, NameIs
  <2> QED
    BY <1>1, <1>2, <2>1, <2>2, EnterIs DEF Volumes
<1>5. Typed'
  BY <1>1, <1>2, <1>3, <1>4 DEF Typed
<1>6. FreshInv'
  BY <1>1, <1>2, <1>3, <1>4 DEF FreshInv
<1>7. WholeInv'
  <2>1. <<"sidecar", n>> \in written /\ <<"recording", n>> \in written
    BY <1>1, <1>3 DEF FreshInv
  <2> QED
    BY <1>1, <1>2, <1>3, <1>4, <2>1 DEF WholeInv
<1>8. HeadInv'
  <2>1. Before' = Before /\ HeadsDurable' = HeadsDurable
    BY <1>2, <1>4 DEF Before, HeadsDurable
  <2>2. \A p \in Parts : <<"head", p>> \in Visible' => p \in HeadsDurable' \cup {n}
    BY <1>1, <1>4, <2>1 DEF HeadInv
  <2> QED
    BY <1>1, <1>2, <1>3, <2>1, <2>2, HeadSame
<1>9. LogInv'
  BY <1>1, <1>2, <1>3, <1>4 DEF LogInv
<1> QED
  BY <1>4, <1>5, <1>6, <1>7, <1>8, <1>9 DEF DInv

LEMMA RenameHeadKeeps ==
    ASSUME DInv, RenameHead
    PROVE  DInv'
<1>1. Typed /\ OrderInv /\ FreshInv /\ WholeInv /\ HeadInv /\ LogInv
  BY DEF DInv
<1>2. /\ n <= MaxParts /\ Calls[at] = "rename_head" /\ at' = at + 1
      /\ layout' = layout /\ n' = n /\ acked' = acked
      /\ Enter("chain", <<"head", n>>)
      /\ prev' = prev /\ written' = written /\ damaged' = damaged
      /\ log' = log /\ logSynced' = logSynced
  BY DEF RenameHead, Call, content, logFile
<1>3. n \in Parts /\ n \in Nat /\ MaxParts \in Nat /\ at = 7 /\ at' = 8
  BY <1>1, <1>2, CallIs, CallAt
<1>4. /\ OrderInv' /\ Visible' = Visible \cup {<<"head", n>>} /\ durable' = durable
      /\ pending' \in [Volumes -> Seq(Entries)]
  <2>1. ASSUME NEW f, Needs(<<"head", n>>, f)
        PROVE  f \in Visible /\ HomeOf(f) = HomeOf(<<"head", n>>)
    <3>1. f = <<"sidecar", n>> /\ layout = "one_volume"
      BY <2>1 DEF Needs
    <3>2. <<"sidecar", n>> \in Visible
      BY <1>1, <1>3 DEF FreshInv
    <3>3. VolumeOf("storage") = VolumeOf("chain")
      BY <3>1 DEF VolumeOf
    <3> QED
      BY <1>3, <3>1, <3>2, <3>3, NameIs
  <2>2. <<"head", n>> \in Entries /\ VolumeOf("chain") = HomeOf(<<"head", n>>)
    BY <1>3, NameIs
  <2> QED
    BY <1>1, <1>2, <2>1, <2>2, EnterIs DEF Volumes
<1>5. Typed'
  BY <1>1, <1>2, <1>3, <1>4 DEF Typed
<1>6. FreshInv'
  BY <1>1, <1>2, <1>3, <1>4 DEF FreshInv
<1>7. WholeInv'
  <2>1. <<"head", n>> \in written
    BY <1>1, <1>3 DEF FreshInv
  <2> QED
    BY <1>1, <1>2, <1>3, <1>4, <2>1 DEF WholeInv
<1>8. HeadInv'
  <2>1. Before' = Before /\ HeadsDurable' = HeadsDurable
    BY <1>2, <1>4 DEF Before, HeadsDurable
  <2>2. \A p \in Parts : <<"head", p>> \in Visible' => p \in HeadsDurable' \cup {n}
    BY <1>1, <1>4, <2>1 DEF HeadInv
  <2> QED
    BY <1>1, <1>2, <1>3, <2>1, <2>2, HeadSame
<1>9. LogInv'
  BY <1>1, <1>2, <1>3, <1>4 DEF LogInv
<1> QED
  BY <1>4, <1>5, <1>6, <1>7, <1>8, <1>9 DEF DInv

(* What becomes durable was there.                                         *)
LEMMA FlushHeads ==
    ASSUME HeadInv, UNCHANGED <<n, prev, acked, log>>,
           at' > 3 => at > 3, at > 9 => at' > 9, Visible' = Visible, durable \subseteq durable', durable' \subseteq Visible
    PROVE  HeadInv'
<1>1. \A p \in Parts : <<"head", p>> \in Visible => p \in HeadsDurable \cup {n}
  BY DEF HeadInv
<1>2. HeadsDurable \subseteq HeadsDurable' /\ HeadsDurable' \subseteq HeadsDurable \cup {n}
  BY <1>1 DEF HeadsDurable
<1>3. Before' = Before
  BY <1>2 DEF Before
<1>4. \A p \in Parts : <<"head", p>> \in Visible' => p \in HeadsDurable' \cup {n}
  BY <1>1, <1>2
<1> QED
  BY <1>3, <1>4, HeadSame

LEMMA FsyncKeeps ==
    ASSUME DInv, FsyncDir
    PROVE  DInv'
<1> DEFINE u == VolumeOf("chain")
<1>1. Typed /\ OrderInv /\ FreshInv /\ WholeInv /\ HeadInv /\ LogInv
  BY DEF DInv
<1>2. /\ n <= MaxParts /\ Calls[at] = "fsync_dir" /\ at' = at + 1
      /\ layout' = layout /\ n' = n /\ acked' = acked
      /\ durable' = durable \cup ToSet(pending[u])
      /\ pending' = [pending EXCEPT ![u] = <<>>]
      /\ prev' = prev /\ written' = written /\ damaged' = damaged
      /\ log' = log /\ logSynced' = logSynced
  BY DEF FsyncDir, Call, content, logFile
<1>3. n \in Parts /\ n \in Nat /\ MaxParts \in Nat /\ at \in {8, 11}
  <2>1. n \in Parts /\ n \in Nat /\ MaxParts \in Nat
    BY <1>1, <1>2, CallIs
  <2> QED
    BY <1>1, <1>2, <2>1, CallAt
<1>4. u \in Volumes /\ pending[u] \in Seq(Entries)
  <2>1. u \in Volumes
    BY DEF VolumeOf, Volumes
  <2>2. pending \in [Volumes -> Seq(Entries)]
    BY <1>1 DEF Typed
  <2> QED
    BY <2>1, <2>2
<1> HIDE DEF u
<1>5. /\ OrderInv' /\ Visible' = Visible
      /\ durable \subseteq durable' /\ durable' \subseteq Visible
      /\ durable' \subseteq Entries /\ pending' \in [Volumes -> Seq(Entries)]
  <2> DEFINE k == Len(pending[u])
             rest == <<>>
  <2>1. k \in 0 .. Len(pending[u]) /\ k \in Nat
    BY <1>4
  <2>2. ToSet(pending[u]) = {pending[u][i] : i \in 1 .. k}
    BY <1>4 DEF ToSet
  <2>3. /\ rest \in Seq(Entries) /\ Len(rest) = Len(pending[u]) - k
        /\ \A i \in 1 .. Len(rest) : rest[i] = pending[u][i + k]
    BY <2>1
  <2>4. durable' = durable \cup {pending[u][i] : i \in 1 .. k}
        /\ pending' = [pending EXCEPT ![u] = rest]
    BY <1>2, <2>2
  <2> HIDE DEF k, rest
  <2> QED
    BY <1>1, <1>2, <1>4, <2>1, <2>3, <2>4, FlushIs
<1>6. ASSUME NEW kind \in {"head", "log"}, NEW p \in Parts, <<kind, p>> \in Visible
      PROVE  <<kind, p>> \in durable'
  <2>1. HomeOf(<<kind, p>>) = u
    BY <1>6, NameIs DEF u
  <2>2. ASSUME NEW v \in Volumes, NEW i \in DOMAIN pending[v], pending[v][i] = <<kind, p>>
        PROVE  <<kind, p>> \in ToSet(pending[u])
    <3>1. v = u
      BY <1>1, <2>1, <2>2 DEF OrderInv
    <3> QED
      BY <2>2, <3>1 DEF ToSet
  <2> QED
    BY <1>2, <1>6, <2>2, VisibleIs
<1>7. Typed'
  <2>1. at' \in 1 .. 12 /\ ~(n' > MaxParts)
    BY <1>2, <1>3
  <2> QED
    BY <1>1, <1>2, <1>5, <2>1 DEF Typed
<1>8. FreshInv'
  <2>1. \A p \in Parts : <<"head", p>> \in Visible => <<"head", p>> \in durable'
    BY <1>6
  <2>2. \A p \in Parts : <<"log", p>> \in Visible => <<"log", p>> \in durable'
    BY <1>6
  <2>3. CASE at = 8
    BY <1>1, <1>2, <1>3, <1>5, <2>1, <2>3 DEF FreshInv
  <2>4. CASE at = 11
    BY <1>1, <1>2, <1>3, <1>5, <2>1, <2>2, <2>4 DEF FreshInv
  <2> QED
    BY <1>3, <2>3, <2>4
<1>9. WholeInv'
  BY <1>1, <1>2, <1>5 DEF WholeInv
<1>10. HeadInv'
  <2>1. (at' > 3 => at > 3) /\ (at > 9 => at' > 9)
    BY <1>2, <1>3
  <2> QED
    BY <1>1, <1>2, <1>5, <2>1, FlushHeads
<1>11. LogInv'
  <2>1. CASE at = 8
    <3>1. ~(at' > 9) /\ ~(at' > 10)
      BY <1>2, <2>1
    <3>2. acked # {} => \E p \in Parts : <<"log", p>> \in durable'
      BY <1>1, <1>5 DEF LogInv
    <3> QED
      BY <1>1, <1>2, <3>1, <3>2 DEF LogInv
  <2>2. CASE at = 11
    BY <1>1, <1>2, <1>5, <2>2 DEF LogInv
  <2> QED
    BY <1>3, <2>1, <2>2
<1> QED
  BY <1>5, <1>7, <1>8, <1>9, <1>10, <1>11 DEF DInv

LEMMA WritebackKeeps ==
    ASSUME DInv, NEW v \in Volumes, Writeback(v)
    PROVE  DInv'
<1>1. Typed /\ OrderInv /\ FreshInv /\ WholeInv /\ HeadInv /\ LogInv
  BY DEF DInv
<1>2. /\ pending[v] # <<>> /\ durable' = durable \cup {pending[v][1]}
      /\ pending' = [pending EXCEPT ![v] = Tail(@)]
      /\ layout' = layout /\ at' = at /\ n' = n /\ acked' = acked
      /\ prev' = prev /\ written' = written /\ damaged' = damaged
      /\ log' = log /\ logSynced' = logSynced
  BY DEF Writeback, content, logFile
<1>3. pending[v] \in Seq(Entries)
  BY <1>1 DEF Typed
<1>4. /\ OrderInv' /\ Visible' = Visible
      /\ durable \subseteq durable' /\ durable' \subseteq Visible
      /\ durable' \subseteq Entries /\ pending' \in [Volumes -> Seq(Entries)]
  <2> DEFINE k == 1
             rest == Tail(pending[v])
  <2>1. k \in 0 .. Len(pending[v])
    BY <1>2, <1>3
  <2>2. {pending[v][1]} = {pending[v][i] : i \in 1 .. k}
    OBVIOUS
  <2>3. /\ rest \in Seq(Entries) /\ Len(rest) = Len(pending[v]) - k
        /\ \A i \in 1 .. Len(rest) : rest[i] = pending[v][i + k]
    BY <1>2, <1>3
  <2>4. durable' = durable \cup {pending[v][i] : i \in 1 .. k}
        /\ pending' = [pending EXCEPT ![v] = rest]
    BY <1>2, <2>2
  <2> HIDE DEF k, rest
  <2> QED
    BY <1>1, <1>2, <2>1, <2>3, <2>4, FlushIs
<1>5. Typed'
  BY <1>1, <1>2, <1>4 DEF Typed
<1>6. FreshInv'
  BY <1>1, <1>2, <1>4 DEF FreshInv
<1>7. WholeInv'
  BY <1>1, <1>2, <1>4 DEF WholeInv
<1>8. HeadInv'
  BY <1>1, <1>2, <1>4, FlushHeads
<1>9. LogInv'
  BY <1>1, <1>2, <1>4 DEF LogInv
<1> QED
  BY <1>4, <1>5, <1>6, <1>7, <1>8, <1>9 DEF DInv

LEMMA AppendKeeps ==
    ASSUME DInv, AppendLog
    PROVE  DInv'
<1>1. Typed /\ OrderInv /\ FreshInv /\ WholeInv /\ HeadInv /\ LogInv
  BY DEF DInv
<1>2. /\ n <= MaxParts /\ Calls[at] = "append" /\ at' = at + 1
      /\ layout' = layout /\ n' = n /\ acked' = acked
      /\ log' = Append(log, n)
      /\ prev' = prev /\ written' = written /\ damaged' = damaged
      /\ logSynced' = logSynced
  BY DEF AppendLog, Call, content, logFile
<1>3. n \in Parts /\ n \in Nat /\ MaxParts \in Nat /\ at = 9 /\ at' = 10
  BY <1>1, <1>2, CallIs, CallAt
<1>4. /\ OrderInv' /\ durable' = durable
      /\ Visible' = Visible \/ Visible' = Visible \cup {<<"log", n>>}
      /\ \E p \in Parts : <<"log", p>> \in Visible'
      /\ pending' \in [Volumes -> Seq(Entries)]
  <2>1. CASE \E e \in Visible : e[1] = "log"
    <3>1. durable' = durable /\ pending' = pending
      BY <2>1 DEF AppendLog, entries
    <3>2. OrderInv' /\ Visible' = Visible
      BY <1>1, <1>2, <3>1, SameEntries
    <3>3. PICK e \in Visible : e[1] = "log"
      BY <2>1
    <3>4. e = <<"log", e[2]>> /\ e[2] \in Parts
      BY <1>1, <3>3, VisibleTyped DEF Entries
    <3>5. pending' \in [Volumes -> Seq(Entries)]
      BY <1>1, <3>1 DEF Typed
    <3> QED
      BY <3>1, <3>2, <3>3, <3>4, <3>5
  <2>2. CASE ~(\E e \in Visible : e[1] = "log")
    <3>1. Enter("chain", <<"log", n>>)
      BY <2>2 DEF AppendLog
    <3>2. \A f : ~Needs(<<"log", n>>, f)
      BY DEF Needs
    <3>3. <<"log", n>> \in Entries /\ VolumeOf("chain") = HomeOf(<<"log", n>>)
      BY <1>3, NameIs
    <3>4. /\ OrderInv' /\ Visible' = Visible \cup {<<"log", n>>} /\ durable' = durable
          /\ pending' \in [Volumes -> Seq(Entries)]
      BY <1>1, <1>2, <3>1, <3>2, <3>3, EnterIs DEF Volumes
    <3> QED
      BY <1>3, <3>4
  <2> QED
    BY <2>1, <2>2
<1>5. /\ log \in Seq(Parts) /\ log' \in Seq(Parts) /\ Len(log') = Len(log) + 1
      /\ Len(log) \in Nat /\ logSynced \in 0 .. Len(log)
      /\ \A i \in 1 .. Len(log) : log'[i] = log[i]
      /\ log'[Len(log')] = n /\ log' # <<>>
  <2>1. log \in Seq(Parts) /\ logSynced \in 0 .. Len(log)
    BY <1>1 DEF Typed
  <2> QED
    BY <1>2, <1>3, <2>1
<1>6. Typed'
  <2>1. logSynced' \in 0 .. Len(log')
    BY <1>2, <1>5
  <2> QED
    BY <1>1, <1>2, <1>3, <1>4, <1>5, <2>1 DEF Typed
<1>7. FreshInv'
  <2>1. \A e \in Visible' \cup written' : e[2] < n \/ (e[2] = n /\ at' > 1)
    BY <1>1, <1>2, <1>3, <1>4 DEF FreshInv
  <2>2. \A p \in Parts : /\ <<"head", p>> \in Visible' <=> <<"head", p>> \in Visible
                         /\ <<"recording", p>> \in Visible' <=> <<"recording", p>> \in Visible
                         /\ <<"sidecar", p>> \in Visible' <=> <<"sidecar", p>> \in Visible
    BY <1>4
  <2>3. /\ \A e \in damaged : e[2] < n
        /\ <<"recording", n>> \in Visible /\ <<"recording", n>> \in written
        /\ <<"sidecar", n>> \in Visible /\ <<"sidecar", n>> \in written
        /\ <<"head", n>> \in Visible /\ <<"head", n>> \in written
        /\ <<"head", n>> \in durable
    BY <1>1, <1>3 DEF FreshInv
  <2>4. at' > 7 /\ ~(at' > 11)
    BY <1>3
  <2>5. <<"recording", n>> \in Visible' /\ <<"sidecar", n>> \in Visible'
        /\ <<"head", n>> \in Visible'
    BY <1>3, <2>2, <2>3
  <2> QED
    BY <1>2, <1>4, <2>1, <2>3, <2>4, <2>5 DEF FreshInv
<1>8. WholeInv'
  BY <1>1, <1>2, <1>4 DEF WholeInv
<1>9. HeadInv'
  <2>1. Before' = Before /\ HeadsDurable' = HeadsDurable
    BY <1>2, <1>4 DEF Before, HeadsDurable
  <2>2. \A p \in Parts : <<"head", p>> \in Visible' => p \in HeadsDurable' \cup {n}
    BY <1>1, <1>4, <2>1 DEF HeadInv
  <2>3. ToSet(log)' \subseteq ToSet(log) \cup {p \in {n} : at' > 9}
    <3>1. ASSUME NEW i \in DOMAIN log' PROVE log'[i] \in ToSet(log) \cup {n}
      <4>1. i \in 1 .. Len(log) \/ i = Len(log')
        BY <1>5, <3>1
      <4> QED
        BY <1>5, <4>1 DEF ToSet
    <3> QED
      BY <1>3, <3>1 DEF ToSet
  <2> QED
    BY <1>1, <1>2, <1>3, <2>1, <2>2, <2>3, HeadSame
<1>10. LogInv'
  <2>1. ASSUME NEW p \in acked PROVE \E i \in 1 .. logSynced : log'[i] = p
    <3>1. PICK i \in 1 .. logSynced : log[i] = p
      BY <1>1 DEF LogInv
    <3> QED
      BY <1>5, <3>1
  <2>2. ~(at' > 10) /\ log'[Len(log')] = n' /\ log' # <<>>
    BY <1>2, <1>3, <1>5
  <2>3. acked # {} => \E p \in Parts : <<"log", p>> \in durable'
    BY <1>1, <1>4 DEF LogInv
  <2> QED
    BY <1>2, <2>1, <2>2, <2>3 DEF LogInv
<1> QED
  BY <1>4, <1>6, <1>7, <1>8, <1>9, <1>10 DEF DInv

LEMMA SyncLogKeeps ==
    ASSUME DInv, SyncLog
    PROVE  DInv'
<1>1. Typed /\ OrderInv /\ FreshInv /\ WholeInv /\ HeadInv /\ LogInv
  BY DEF DInv
<1>2. /\ n <= MaxParts /\ Calls[at] = "sync_log" /\ at' = at + 1
      /\ layout' = layout /\ n' = n /\ acked' = acked /\ logSynced' = Len(log)
      /\ prev' = prev /\ durable' = durable /\ pending' = pending
      /\ written' = written /\ damaged' = damaged /\ log' = log
  BY DEF SyncLog, Call, entries, content
<1>3. n \in Parts /\ n \in Nat /\ MaxParts \in Nat /\ at = 10 /\ at' = 11
  BY <1>1, <1>2, CallIs, CallAt
<1>4. OrderInv' /\ Visible' = Visible
  BY <1>1, <1>2, SameEntries
<1>5. log \in Seq(Parts) /\ Len(log) \in Nat /\ logSynced \in 0 .. Len(log)
  <2>1. log \in Seq(Parts) /\ logSynced \in 0 .. Len(log)
    BY <1>1 DEF Typed
  <2> QED
    BY <2>1
<1>6. Typed'
  <2>1. logSynced' \in 0 .. Len(log')
    BY <1>2, <1>5
  <2> QED
    BY <1>1, <1>2, <1>3, <2>1 DEF Typed
<1>7. FreshInv'
  BY <1>1, <1>2, <1>3, <1>4 DEF FreshInv
<1>8. WholeInv'
  BY <1>1, <1>2, <1>4 DEF WholeInv
<1>9. HeadInv'
  <2>1. Before' = Before /\ HeadsDurable' = HeadsDurable
    BY <1>2 DEF Before, HeadsDurable
  <2>2. \A p \in Parts : <<"head", p>> \in Visible' => p \in HeadsDurable' \cup {n}
    BY <1>1, <1>4, <2>1 DEF HeadInv
  <2> QED
    BY <1>1, <1>2, <1>3, <2>1, <2>2, HeadSame
<1>10. LogInv'
  <2>1. \A i \in 1 .. logSynced : i \in 1 .. logSynced'
    BY <1>2, <1>5
  <2>2. at > 9 /\ logSynced' = Len(log')
    BY <1>2, <1>3
  <2> QED
    BY <1>1, <1>2, <2>1, <2>2 DEF LogInv
<1> QED
  BY <1>4, <1>6, <1>7, <1>8, <1>9, <1>10 DEF DInv

(* The part after this one has left nothing yet.                           *)
LEMMA AllEarlier ==
    ASSUME Typed, FreshInv, n \in Parts
    PROVE  \A e \in Visible \cup written \cup damaged : e[2] < n + 1
<1> SUFFICES ASSUME NEW e \in Visible \cup written \cup damaged PROVE e[2] < n + 1
  OBVIOUS
<1>1. e[2] < n \/ e[2] = n
  BY DEF FreshInv
<1>2. e \in Entries
  BY VisibleTyped DEF Typed
<1>3. e[2] \in Nat /\ n \in Nat
  BY <1>2, PartsAre DEF Entries
<1> QED
  BY <1>1, <1>3

LEMMA ReturnKeeps ==
    ASSUME DInv, ReturnOk
    PROVE  DInv'
<1>1. Typed /\ OrderInv /\ FreshInv /\ WholeInv /\ HeadInv /\ LogInv
  BY DEF DInv
<1>2. /\ n <= MaxParts /\ Calls[at] = "Ok" /\ at' = 1 /\ n' = n + 1
      /\ layout' = layout /\ acked' = acked \cup {n} /\ logSynced' = logSynced
      /\ prev' = prev /\ durable' = durable /\ pending' = pending
      /\ written' = written /\ damaged' = damaged /\ log' = log
  BY DEF ReturnOk, entries, content, logFile
<1>3. n \in Parts /\ n \in Nat /\ MaxParts \in Nat /\ at = 12
  BY <1>1, <1>2, CallIs, CallAt
<1>4. OrderInv' /\ Visible' = Visible
  BY <1>1, <1>2, SameEntries
<1>5. Typed'
  <2>1. n' \in 1 .. MaxParts + 1 /\ at' \in 1 .. 12
    BY <1>2, <1>3
  <2>2. acked' \subseteq Parts
    BY <1>1, <1>2, <1>3 DEF Typed
  <2> QED
    BY <1>1, <1>2, <2>1, <2>2 DEF Typed
<1>6. FreshInv'
  <2>1. /\ \A e \in Visible' \cup written' : e[2] < n'
        /\ \A e \in damaged' : e[2] < n'
    BY <1>1, <1>2, <1>3, <1>4, AllEarlier
  <2>2. <<"head", n'>> \notin Visible'
    BY <1>2, <1>3, <2>1
  <2> QED
    BY <1>2, <2>1, <2>2 DEF FreshInv
<1>7. WholeInv'
  BY <1>1, <1>2, <1>4 DEF WholeInv
<1>8. HeadInv'
  <2>1. HeadsDurable' = HeadsDurable /\ n \in HeadsDurable
    BY <1>1, <1>2, <1>3 DEF HeadsDurable, FreshInv
  <2>2. \A p \in Parts : <<"head", p>> \in Visible' => p \in HeadsDurable'
    BY <1>1, <1>4, <2>1 DEF HeadInv
  <2> QED
    BY <1>1, <1>2, <1>3, <2>1, <2>2, HeadNextPart
<1>9. LogInv'
  <2>1. /\ log # <<>> /\ log[Len(log)] = n /\ logSynced = Len(log)
        /\ \A p \in acked : \E i \in 1 .. logSynced : log[i] = p
    BY <1>1, <1>3 DEF LogInv
  <2>2. Len(log) \in 1 .. logSynced
    <3>1. log \in Seq(Parts)
      BY <1>1 DEF Typed
    <3> QED
      BY <2>1, <3>1
  <2>3. \E p \in Parts : <<"log", p>> \in durable
    BY <1>1, <1>3 DEF FreshInv
  <2> QED
    BY <1>2, <2>1, <2>2, <2>3 DEF LogInv
<1> QED
  BY <1>4, <1>5, <1>6, <1>7, <1>8, <1>9 DEF DInv

LEMMA LossKeeps ==
    ASSUME DInv, PowerLoss
    PROVE  DInv'
<1>1. Typed /\ OrderInv /\ FreshInv /\ WholeInv /\ HeadInv /\ LogInv
  BY DEF DInv
<1>2. /\ pending' = [v \in Volumes |-> <<>>] /\ logSynced' = Len(log') /\ at' = 1
      /\ n' = (IF at = 1 \/ n > MaxParts THEN n ELSE n + 1)
      /\ layout' = layout /\ prev' = prev /\ durable' = durable
      /\ written' = written /\ acked' = acked
  BY DEF PowerLoss
<1>3. PICK lost \in SUBSET (durable \ (written \cup {<<"log", p>> : p \in Parts})) :
          damaged' = damaged \cup lost
  BY DEF PowerLoss
<1>4. PICK len \in logSynced .. Len(log) :
          log' = IF \E e \in durable : e[1] = "log" THEN SubSeq(log, 1, len) ELSE <<>>
  BY DEF PowerLoss
<1>5. OrderInv' /\ Visible' = durable /\ durable \subseteq Visible
  BY <1>1, <1>2, LossIs, VisibleIs
<1>6. /\ log \in Seq(Parts) /\ logSynced \in 0 .. Len(log) /\ Len(log) \in Nat
      /\ len \in 0 .. Len(log) /\ logSynced <= len
      /\ SubSeq(log, 1, len) \in Seq(Parts) /\ Len(SubSeq(log, 1, len)) = len
      /\ \A i \in 1 .. len : SubSeq(log, 1, len)[i] = log[i]
  <2>1. log \in Seq(Parts) /\ logSynced \in 0 .. Len(log)
    BY <1>1 DEF Typed
  <2> QED
    BY <1>4, <2>1
<1>7. log' \in Seq(Parts) /\ Len(log') \in Nat /\ ToSet(log') \subseteq ToSet(log)
  <2>1. CASE \E e \in durable : e[1] = "log"
    BY <1>4, <1>6, <2>1 DEF ToSet
  <2>2. CASE ~(\E e \in durable : e[1] = "log")
    BY <1>4, <2>2 DEF ToSet
  <2> QED
    BY <2>1, <2>2
<1>8. Typed'
  <2>1. n' \in 1 .. MaxParts + 1 /\ (n' > MaxParts => at' = 1) /\ at' \in 1 .. 12
    <3>1. n \in 1 .. MaxParts + 1 /\ MaxParts \in Nat
      BY <1>1, PartsAre DEF Typed
    <3> QED
      BY <1>2, <3>1
  <2>2. damaged' \subseteq Entries /\ durable' \subseteq Entries /\ written' \subseteq Entries
    BY <1>1, <1>2, <1>3 DEF Typed
  <2>3. pending' \in [Volumes -> Seq(Entries)]
    BY <1>2
  <2>4. logSynced' \in 0 .. Len(log')
    BY <1>2, <1>7
  <2> QED
    BY <1>1, <1>2, <1>7, <2>1, <2>2, <2>3, <2>4 DEF Typed
<1>9. damaged' \subseteq Visible \cup damaged
  BY <1>3, <1>5
<1>10. WholeInv'
  <2>1. \A p \in Parts : {<<"head", p>>, <<"sidecar", p>>} \cap damaged' = {}
    BY <1>1, <1>3, <1>5 DEF WholeInv
  <2>2. written' \cap damaged' = {}
    BY <1>1, <1>2, <1>3 DEF WholeInv
  <2> QED
    BY <1>1, <1>2, <1>5, <2>1, <2>2 DEF WholeInv
<1>11. LogInv'
  <2>1. ASSUME NEW p \in acked PROVE \E i \in 1 .. logSynced' : log'[i] = p
    <3>1. PICK i \in 1 .. logSynced : log[i] = p
      BY <1>1 DEF LogInv
    <3>2. \E e \in durable : e[1] = "log"
      <4>1. PICK q \in Parts : <<"log", q>> \in durable
        BY <1>1, <2>1 DEF LogInv
      <4>2. <<"log", q>>[1] = "log"
        OBVIOUS
      <4> QED
        BY <4>1, <4>2
    <3>3. log' = SubSeq(log, 1, len) /\ i \in 1 .. len
      BY <1>4, <1>6, <3>1, <3>2
    <3> QED
      BY <1>2, <1>6, <3>1, <3>3
  <2>2. acked # {} => \E p \in Parts : <<"log", p>> \in durable
    BY <1>1 DEF LogInv
  <2>3. ~(at' > 9) /\ ~(at' > 10)
    BY <1>2
  <2> QED
    BY <1>2, <2>1, <2>2, <2>3 DEF LogInv
<1>12. FreshInv' /\ HeadInv'
  <2>1. CASE at = 1
    <3>1. n' = n
      BY <1>2, <2>1
    <3>2. /\ \A e \in Visible \cup written : e[2] < n
          /\ \A e \in damaged : e[2] < n
      BY <1>1, <2>1 DEF FreshInv
    <3>3. <<"head", n>> \notin Visible'
      BY <1>1, <1>5, <2>1 DEF FreshInv
    <3>4. FreshInv'
      BY <1>2, <1>5, <1>9, <3>1, <3>2, <3>3 DEF FreshInv
    <3>5. Before' = Before /\ HeadsDurable' = HeadsDurable
      BY <1>2, <3>1 DEF Before, HeadsDurable
    <3>6. \A p \in Parts : <<"head", p>> \in Visible' => p \in HeadsDurable' \cup {n}
      BY <1>2, <1>5, <3>5 DEF HeadsDurable
    <3>7. ToSet(log)' \subseteq ToSet(log) \cup {p \in {n} : at' > 9}
      BY <1>7
    <3> QED
      BY <1>1, <1>2, <2>1, <3>1, <3>4, <3>5, <3>6, <3>7, HeadSame
  <2>2. CASE at # 1
    <3>1. n \in Parts /\ n \in Nat /\ n' = n + 1
      <4>1. ~(n > MaxParts) /\ n \in 1 .. MaxParts + 1
        BY <1>1, <2>2 DEF Typed
      <4>2. Parts = 1 .. MaxParts /\ MaxParts \in Nat
        BY PartsAre
      <4> QED
        BY <1>2, <2>2, <4>1, <4>2
    <3>2. \A e \in Visible \cup written \cup damaged : e[2] < n'
      BY <1>1, <3>1, AllEarlier
    <3>3. <<"head", n'>> \notin Visible'
      BY <1>5, <3>1, <3>2
    <3>4. FreshInv'
      BY <1>2, <1>5, <1>9, <3>2, <3>3 DEF FreshInv
    <3>5. HeadsDurable' = HeadsDurable
      BY <1>2 DEF HeadsDurable
    <3>6. \A p \in Parts : <<"head", p>> \in Visible' => p \in HeadsDurable'
      BY <1>2, <1>5, <3>5 DEF HeadsDurable
    <3>7. ToSet(log)' \subseteq ToSet(log)
      BY <1>7
    <3> QED
      BY <1>1, <1>2, <3>1, <3>4, <3>5, <3>6, <3>7, HeadNextPart
  <2> QED
    BY <2>1, <2>2
<1> QED
  BY <1>5, <1>8, <1>10, <1>11, <1>12 DEF DInv
-----------------------------------------------------------------------------
(* Theorems ****************************************************************)

LEMMA DurableInit ==
    ASSUME Init
    PROVE  DInv
<1>1. MaxParts \in Nat /\ Parts = 1 .. MaxParts /\ Genesis = 0
  BY PartsAre
<1>2. /\ layout \in {"one_volume", "two_volumes"} /\ at = 1 /\ n = 1
      /\ prev = [p \in Parts |-> Genesis] /\ durable = {}
      /\ pending = [v \in Volumes |-> <<>>] /\ written = {} /\ damaged = {}
      /\ log = <<>> /\ logSynced = 0 /\ acked = {}
  BY DEF Init
<1>3. Visible = {}
  <2>1. \A v \in Volumes : DOMAIN pending[v] = {}
    BY <1>2
  <2> QED
    BY <1>2, <2>1, VisibleIs
<1>4. Typed
  <2>1. prev \in [Parts -> 0 .. MaxParts] /\ \A p \in Parts : prev[p] < p
    BY <1>1, <1>2
  <2>2. log \in Seq(Parts) /\ logSynced \in 0 .. Len(log)
    BY <1>2
  <2>3. pending \in [Volumes -> Seq(Entries)]
    BY <1>2
  <2>4. at \in 1 .. 12 /\ n \in 1 .. MaxParts + 1
    BY <1>1, <1>2
  <2> QED
    BY <1>2, <2>1, <2>2, <2>3, <2>4 DEF Typed
<1>5. OrderInv
  <2>1. \A v \in Volumes : DOMAIN pending[v] = {}
    BY <1>2
  <2> QED
    BY <1>2, <2>1 DEF OrderInv
<1>6. FreshInv
  BY <1>2, <1>3 DEF FreshInv
<1>7. WholeInv
  BY <1>2, <1>3 DEF WholeInv
<1>8. HeadInv
  <2>1. Before = {} /\ HeadsDurable = {}
    BY <1>2 DEF Before, HeadsDurable
  <2>2. ASSUME NEW b, IsBase(b) PROVE HistoryOf(b) = {}
    <3>1. b = Genesis
      BY <2>1, <2>2 DEF IsBase
    <3>2. prev \in [Parts -> 0 .. MaxParts]
      BY <1>4 DEF Typed
    <3> QED
      BY <3>1, <3>2, HistorySteps, HistoryIs
  <2>3. ToSet(log) = {}
    BY <1>2 DEF ToSet
  <2> QED
    BY <1>2, <1>3, <2>2, <2>3 DEF HeadInv
<1>9. LogInv
  BY <1>2 DEF LogInv
<1> QED
  BY <1>4, <1>5, <1>6, <1>7, <1>8, <1>9 DEF DInv

LEMMA DurableStutter ==
    ASSUME DInv, UNCHANGED vars
    PROVE  DInv'
<1>1. /\ layout' = layout /\ at' = at /\ n' = n /\ prev' = prev
      /\ durable' = durable /\ pending' = pending
      /\ written' = written /\ damaged' = damaged
      /\ log' = log /\ logSynced' = logSynced /\ acked' = acked
  BY DEF vars, entries, content, logFile
<1>2. Typed /\ OrderInv /\ FreshInv /\ WholeInv /\ HeadInv /\ LogInv
  BY DEF DInv
<1>3. OrderInv' /\ Visible' = Visible
  BY <1>1, <1>2, SameEntries
<1>4. HeadsDurable' = HeadsDurable /\ Before' = Before
  BY <1>1 DEF HeadsDurable, Before
<1>5. HeadInv'
  <2>1. \A p \in Parts : <<"head", p>> \in Visible' => p \in HeadsDurable' \cup {n}
    BY <1>2, <1>3, <1>4 DEF HeadInv
  <2> QED
    BY <1>1, <1>2, <1>4, <2>1, HeadSame
<1>6. Typed' /\ LogInv'
  BY <1>1, <1>2 DEF Typed, LogInv
<1>7. FreshInv' /\ WholeInv'
  BY <1>1, <1>2, <1>3 DEF FreshInv, WholeInv
<1> QED
  BY <1>3, <1>5, <1>6, <1>7 DEF DInv

LEMMA SyncsKeep ==
    ASSUME DInv,
           \/ SyncContent("sync_recording", <<"recording", n>>)
           \/ SyncContent("sync_sidecar", <<"sidecar", n>>)
           \/ SyncContent("sync_head", <<"head", n>>)
    PROVE  DInv'
<1>1. CASE SyncContent("sync_recording", <<"recording", n>>)
  BY <1>1, SyncKeeps DEF SyncContent, Call, entries, logFile
<1>2. CASE SyncContent("sync_sidecar", <<"sidecar", n>>)
  BY <1>2, SyncKeeps DEF SyncContent, Call, entries, logFile
<1>3. CASE SyncContent("sync_head", <<"head", n>>)
  BY <1>3, SyncKeeps DEF SyncContent, Call, entries, logFile
<1> QED
  BY <1>1, <1>2, <1>3

(* The inductive invariant of the files on disk.                           *)
THEOREM DurableInvariance == Spec => []DInv
<1>1. Init => DInv
  BY DurableInit
<1>2. DInv /\ [Next]_vars => DInv'
  <2> SUFFICES ASSUME DInv, [Next]_vars PROVE DInv'
    OBVIOUS
  <2>1. CASE CreateRecording
    BY <2>1, CreateKeeps
  <2>2. CASE \/ SyncContent("sync_recording", <<"recording", n>>)
             \/ SyncContent("sync_sidecar", <<"sidecar", n>>)
             \/ SyncContent("sync_head", <<"head", n>>)
    BY <2>2, SyncsKeep
  <2>3. CASE ReadHead
    BY <2>3, ReadHeadKeeps
  <2>4. CASE RenameSidecar
    BY <2>4, RenameSidecarKeeps
  <2>5. CASE RenameHead
    BY <2>5, RenameHeadKeeps
  <2>6. CASE FsyncDir
    BY <2>6, FsyncKeeps
  <2>7. CASE AppendLog
    BY <2>7, AppendKeeps
  <2>8. CASE SyncLog
    BY <2>8, SyncLogKeeps
  <2>9. CASE ReturnOk
    BY <2>9, ReturnKeeps
  <2>10. ASSUME NEW v \in Volumes, Writeback(v) PROVE DInv'
    BY <2>10, WritebackKeeps
  <2>11. CASE PowerLoss
    BY <2>11, LossKeeps
  <2>12. CASE Finished
    BY <2>12, DurableStutter DEF Finished
  <2>13. CASE UNCHANGED vars
    BY <2>13, DurableStutter
  <2> QED
    BY <2>1, <2>2, <2>3, <2>4, <2>5, <2>6, <2>7, <2>8, <2>9, <2>10, <2>11, <2>12, <2>13
    DEF Next
<1> QED
  BY <1>1, <1>2, PTL DEF Spec

(* What a file needs is there when the file is.                            *)
LEMMA NeedsVisible ==
    ASSUME Typed, OrderInv, NEW e \in Visible, NEW f \in Entries, Needs(e, f)
    PROVE  f \in Visible
<1>1. CASE e \in durable
  BY <1>1, VisibleIs DEF OrderInv
<1>2. ASSUME NEW v \in Volumes, NEW i \in DOMAIN pending[v], pending[v][i] = e
      PROVE  f \in Visible
  <2>1. \A j \in 1 .. i - 1 : j \in DOMAIN pending[v]
    <3>1. pending[v] \in Seq(Entries)
      BY DEF Typed
    <3> QED
      BY <3>1
  <2>2. f \in durable \/ \E j \in 1 .. i - 1 : pending[v][j] = f
    BY <1>2 DEF OrderInv
  <2> QED
    BY <2>1, <2>2, VisibleIs
<1> QED
  BY <1>1, <1>2, VisibleIs

(* head.hash ends the history of the last part before this one, and this   *)
(* part once it is renamed.                                                *)
LEMMA HeadHistory ==
    ASSUME DInv
    PROVE  \E b \in 0 .. MaxParts :
               IsBase(b) /\ HistoryOf(HeadHash) = HistoryOf(b) \cup {p \in {n} : at > 7}
<1>1. Typed /\ FreshInv /\ HeadInv
  BY DEF DInv
<1>2. PICK b \in 0 .. MaxParts : IsBase(b)
  BY <1>1, BaseExists
<1>3. HeadHash = IF at > 7 THEN n ELSE b
  BY <1>1, <1>2, HeadHashIs
<1>4. CASE at > 7
  <2>1. at \in 1 .. 12 /\ prev \in [Parts -> 0 .. MaxParts]
        /\ (n > MaxParts => at = 1) /\ n \in 1 .. MaxParts + 1
    BY <1>1 DEF Typed
  <2>2. n \in Parts
    <3>1. Parts = 1 .. MaxParts /\ MaxParts \in Nat
      BY PartsAre
    <3> QED
      BY <1>4, <2>1, <3>1
  <2>3. prev[n] = b
    BY <1>1, <1>2, <1>4, <2>1 DEF HeadInv
  <2>4. HistoryOf(n) = {n} \cup HistoryOf(b)
    BY <2>1, <2>2, <2>3, HistorySteps, HistoryIs
  <2> QED
    BY <1>2, <1>3, <1>4, <2>4
<1>5. CASE ~(at > 7)
  BY <1>2, <1>3, <1>5
<1> QED
  BY <1>4, <1>5

(* After any power loss, head.hash names a whole hash, a sidecar is a      *)
(* whole manifest, and its recording is there as it was hashed.            *)
THEOREM FilesAlwaysWhole == Spec => []FilesWhole
<1>1. DInv => FilesWhole
  <2> SUFFICES ASSUME DInv, NEW p \in Parts
               PROVE  /\ {<<"head", p>>, <<"sidecar", p>>} \cap damaged = {}
                      /\ Held(p) =>
                          /\ <<"recording", p>> \in Visible \ damaged
                          /\ <<"recording", p>> \in written
    BY DEF FilesWhole
  <2>1. Typed /\ OrderInv /\ WholeInv
    BY DEF DInv
  <2>2. ASSUME Held(p)
        PROVE  <<"recording", p>> \in Visible \ damaged /\ <<"recording", p>> \in written
    <3>1. <<"sidecar", p>> \in Visible
      BY <2>2 DEF Held
    <3>2. Needs(<<"sidecar", p>>, <<"recording", p>>)
      BY DEF Needs
    <3>3. <<"recording", p>> \in Visible
      BY <2>1, <3>1, <3>2, NameIs, NeedsVisible
    <3> QED
      BY <2>1, <3>1, <3>3 DEF WholeInv
  <2> QED
    BY <2>1, <2>2 DEF WholeInv
<1> QED
  BY <1>1, DurableInvariance, PTL

(* No line of the log is ahead of head.hash, after a power loss either.    *)
THEOREM LogAlwaysBehindHead == Spec => []LogNeverAhead
<1>1. DInv => LogNeverAhead
  <2> SUFFICES ASSUME DInv PROVE ToSet(log) \subseteq HistoryOf(HeadHash)
    BY DEF LogNeverAhead
  <2>1. PICK b \in 0 .. MaxParts :
            IsBase(b) /\ HistoryOf(HeadHash) = HistoryOf(b) \cup {p \in {n} : at > 7}
    BY HeadHistory
  <2>2. ToSet(log) \subseteq HistoryOf(b) \cup {p \in {n} : at > 9}
    BY <2>1 DEF DInv, HeadInv
  <2>3. at > 9 => at > 7
    <3>1. at \in 1 .. 12
      BY DEF DInv, Typed
    <3> QED
      BY <3>1
  <2> QED
    BY <2>1, <2>2, <2>3
<1> QED
  BY <1>1, DurableInvariance, PTL

(* A part whose commit returned Ok stays in the history of head.hash and   *)
(* in the log through every power loss.                                    *)
THEOREM AckedAlwaysSurvives == Spec => []AckedSurvives
<1>1. DInv => AckedSurvives
  <2> SUFFICES ASSUME DInv, NEW p \in acked
               PROVE  p \in HistoryOf(HeadHash) /\ p \in ToSet(log)
    BY DEF AckedSurvives
  <2>1. PICK b \in 0 .. MaxParts :
            IsBase(b) /\ HistoryOf(HeadHash) = HistoryOf(b) \cup {q \in {n} : at > 7}
    BY HeadHistory
  <2>2. p \in HistoryOf(b)
    BY <2>1 DEF DInv, HeadInv
  <2>3. PICK i \in 1 .. logSynced : log[i] = p
    BY DEF DInv, LogInv
  <2>4. i \in DOMAIN log
    <3>1. log \in Seq(Parts) /\ logSynced \in 0 .. Len(log)
      BY DEF DInv, Typed
    <3> QED
      BY <3>1
  <2> QED
    BY <2>1, <2>2, <2>3, <2>4 DEF ToSet
<1> QED
  BY <1>1, DurableInvariance, PTL

(* On one volume that makes entries durable in their order, the fsync of   *)
(* the chain's directory carries the sidecar with it: head.hash and its    *)
(* history never name a manifest that is gone.                             *)
THEOREM HistoryAlwaysHeld == Spec => []HeldOnOneVolume
<1>1. DInv => HeldOnOneVolume
  <2> SUFFICES ASSUME DInv, layout = "one_volume", NEW p \in HistoryOf(HeadHash)
               PROVE  Held(p)
    BY DEF HeldOnOneVolume
  <2>1. PICK b \in 0 .. MaxParts :
            IsBase(b) /\ HistoryOf(HeadHash) = HistoryOf(b) \cup {q \in {n} : at > 7}
    BY HeadHistory
  <2>2. <<"head", p>> \in Visible /\ p \in Parts
    <3>1. CASE p \in HistoryOf(b)
      <4>1. p \in Before
        BY <2>1, <3>1 DEF DInv, HeadInv
      <4> QED
        BY <4>1, VisibleIs DEF Before, HeadsDurable
    <3>2. CASE p = n /\ at > 7
      <4>1. <<"head", n>> \in Visible
        BY <3>2 DEF DInv, FreshInv
      <4>2. <<"head", n>> \in Entries
        BY <4>1, VisibleTyped DEF DInv
      <4> QED
        BY <3>2, <4>1, <4>2 DEF Entries
    <3> QED
      BY <2>1, <3>1, <3>2
  <2>3. Needs(<<"head", p>>, <<"sidecar", p>>)
    BY DEF Needs
  <2>4. <<"sidecar", p>> \in Visible
    BY <2>2, <2>3, NameIs, NeedsVisible DEF DInv
  <2> QED
    BY <2>4 DEF Held
<1> QED
  BY <1>1, DurableInvariance, PTL
=============================================================================
