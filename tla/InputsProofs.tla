---------------------------- MODULE InputsProofs -----------------------------
(***************************************************************************)
(* What TLAPS proves of the auditor's two checks: for every finite set of  *)
(* hashes, every set of manifests over them, every log and every head, the *)
(* verdict is the one that the definitions of VerifyInputs ask for, which  *)
(* know nothing of the algorithms.                                         *)
(***************************************************************************)
EXTENDS VerifyInputs, VerifyProofs

(* What there was to read, and what the tool has said of it so far.        *)
InputInv ==
    /\ head \in Hashes \cup {Genesis, Nothing}
    /\ \/ entries \in ManifestInputs /\ lines = <<>>
       \/ entries = {} /\ lines \in LogInputs

Passed == {"log_ok", "ok", "chain_broken"}

VerdictInv ==
    /\ verdict \in {"pending", "log_broken", "rewritten"} \cup Passed
    /\ verdict = "log_broken" => ~VerifyLog(lines)
    /\ verdict = "rewritten" => VerifyLog(lines) /\ ~HeadMatchesLog(head, lines)
    /\ verdict \in Passed => VerifyLog(lines) /\ HeadMatchesLog(head, lines)
    /\ verdict = "ok" => CheckSingleChain(entries, head)
    /\ verdict = "chain_broken" => ~CheckSingleChain(entries, head)

InputsInv == InputInv /\ VerdictInv

(* The inductive invariant: the tool's verdict is that of its checks on an *)
(* input that does not change.                                             *)
THEOREM VerdictInvariance == Spec => []InputsInv
<1>1. Init => InputsInv
  BY DEF Init, InputsInv, InputInv, VerdictInv, Passed
<1>2. ASSUME InputsInv, [Next]_vars PROVE InputsInv'
  <2>1. ASSUME UNCHANGED <<entries, head, lines>>
        PROVE  /\ InputInv'
               /\ VerifyLog(lines)' = VerifyLog(lines)
               /\ HeadMatchesLog(head, lines)' = HeadMatchesLog(head, lines)
               /\ CheckSingleChain(entries, head)' = CheckSingleChain(entries, head)
    <3>1. entries' = entries /\ head' = head /\ lines' = lines
      BY <2>1
    <3> QED
      BY <1>2, <3>1 DEF InputsInv, InputInv
  <2>2. CASE CheckLog
    <3>1. VerdictInv'
      BY <2>1, <2>2 DEF CheckLog, VerdictInv, Passed
    <3> QED
      BY <2>1, <2>2, <3>1 DEF CheckLog, InputsInv
  <2>3. CASE CheckManifests
    <3>1. VerdictInv'
      BY <1>2, <2>1, <2>3 DEF CheckManifests, InputsInv, VerdictInv, Passed
    <3> QED
      BY <2>1, <2>3, <3>1 DEF CheckManifests, InputsInv
  <2>4. CASE UNCHANGED vars
    <3>1. VerdictInv'
      BY <1>2, <2>1, <2>4 DEF vars, InputsInv, VerdictInv, Passed
    <3> QED
      BY <2>1, <2>4, <3>1 DEF vars, InputsInv
  <2> QED
    BY <1>2, <2>2, <2>3, <2>4 DEF Next, Done
<1> QED
  BY <1>1, <1>2, PTL DEF Spec
-----------------------------------------------------------------------------
(* The manifests ***********************************************************)

(* Among the inputs the hash of a manifest decides what it follows, and a  *)
(* directory holds finitely many.                                          *)
LEMMA InputManifests ==
    ASSUME NEW E \in ManifestInputs
    PROVE  /\ IsFiniteSet(E)
           /\ Genesis \notin HashesOf(E)
           /\ \A a, b \in E : a.this = b.this => a.prev = b.prev
<1>1. PICK prevOf \in [Hashes -> Hashes \cup {Genesis}],
           present \in SUBSET Hashes,
           twice \in {{}} \cup {{h} : h \in Hashes} :
        E = Directory(prevOf, present, twice)
  BY DEF ManifestInputs
<1>2. twice \subseteq Hashes
  OBVIOUS
<1>3. ASSUME NEW S, S \subseteq Hashes, NEW copy
      PROVE  IsFiniteSet({Entry(h, prevOf[h], copy) : h \in S})
  <2> DEFINE f == [h \in S |-> Entry(h, prevOf[h], copy)]
             T == {Entry(h, prevOf[h], copy) : h \in S}
  <2>1. IsFiniteSet(S)
    BY <1>3, FS_Subset, InputsAssumption
  <2>2. f \in Surjection(S, T)
    BY DEF Surjection
  <2> HIDE DEF f, T
  <2>3. IsFiniteSet(T)
    BY <2>1, <2>2, FS_Surjection
  <2> QED
    BY <2>3 DEF T
<1>4. IsFiniteSet(E)
  <2>1. IsFiniteSet({Entry(h, prevOf[h], 1) : h \in present})
    BY <1>3
  <2>2. IsFiniteSet({Entry(h, prevOf[h], 2) : h \in twice})
    BY <1>2, <1>3
  <2> QED
    BY <1>1, <2>1, <2>2, FS_Union DEF Directory
<1>5. \A m \in E : m.this \in Hashes /\ m.prev = prevOf[m.this]
  BY <1>1, <1>2 DEF Directory, Entry
<1> QED
  BY <1>4, <1>5, InputsAssumption DEF HashesOf

(* An order of all the manifests that OneHistory asks for is a history,    *)
(* and the other way round.                                                *)
LEMMA OrderIsHistory ==
    ASSUME InputInv, entries # {}
    PROVE  OneHistory <=>
               \E s \in Seq(entries) :
                   /\ IsHistory(s)
                   /\ s # <<>>
                   /\ UpTo(s, Len(s)) = entries
                   /\ head \in {Genesis, Nothing, s[Len(s)].this}
<1> DEFINE n == Cardinality(entries)
<1>1. entries \in ManifestInputs
  BY DEF InputInv
<1>2. n \in Nat \ {0} /\ IsFiniteSet(entries)
  BY <1>1, InputManifests, FS_CardinalityType, FS_EmptySet
<1>3. ASSUME NEW order \in [1 .. n -> entries],
             \A i, j \in 1 .. n : order[i] = order[j] => i = j,
             order[1].prev = Genesis,
             \A i \in 2 .. n : order[i].prev = order[i - 1].this,
             head \in {Genesis, Nothing, order[n].this}
      PROVE  \E s \in Seq(entries) :
                 /\ IsHistory(s)
                 /\ s # <<>>
                 /\ UpTo(s, Len(s)) = entries
                 /\ head \in {Genesis, Nothing, s[Len(s)].this}
  <2> HIDE DEF n
  <2>1. /\ order \in Seq(entries) /\ Len(order) = n /\ order # <<>>
        /\ DOMAIN order = 1 .. n /\ \A i \in 1 .. n : order[i] \in entries
    BY <1>2
  <2>2. \A i \in 1 .. n :
            order[i].prev = IF i = 1 THEN Genesis ELSE order[i - 1].this
    <3>1. \A i \in 1 .. n : i # 1 => i \in 2 .. n
      BY <1>2
    <3> QED
      BY <1>3, <3>1
  <2>3. /\ \A i \in 1 .. n : order[i].this # Genesis
        /\ \A i, j \in 1 .. n :
               order[i].this = order[j].this => order[i].prev = order[j].prev
    BY <1>1, <2>1, InputManifests DEF HashesOf
  <2>4. IsHistory(order)
    BY <1>2, <2>1, <2>2, <2>3, LinksDistinct
  <2>5. n \in DOMAIN order /\ UpTo(order, n) \subseteq entries
    BY <1>2, <2>1 DEF UpTo
  <2>6. Cardinality(UpTo(order, n)) = n
    BY <2>4, <2>5, HistorySize
  <2>7. UpTo(order, n) = entries
    BY <1>2, <2>5, <2>6, FS_Subset DEF n
  <2> QED
    BY <1>3, <2>1, <2>4, <2>7
<1>4. ASSUME NEW s \in Seq(entries), IsHistory(s), s # <<>>,
             UpTo(s, Len(s)) = entries,
             head \in {Genesis, Nothing, s[Len(s)].this}
      PROVE  \E order \in [1 .. n -> entries] :
                /\ \A i, j \in 1 .. n : order[i] = order[j] => i = j
                /\ order[1].prev = Genesis
                /\ \A i \in 2 .. n : order[i].prev = order[i - 1].this
                /\ head \in {Genesis, Nothing, order[n].this}
  <2>1. Len(s) \in DOMAIN s
    BY <1>4, HistoryTip
  <2>2. Len(s) = n
    BY <1>4, <2>1, HistorySize
  <2> HIDE DEF n
  <2>3. s \in [1 .. n -> entries] /\ DOMAIN s = 1 .. n
    BY <2>2
  <2>4. \A i, j \in 1 .. n : s[i] = s[j] => i = j
    BY <1>4, <2>3 DEF IsHistory
  <2>5. s[1].prev = Genesis
    BY <1>2, <1>4, <2>3 DEF IsHistory
  <2>6. \A i \in 2 .. n : s[i].prev = s[i - 1].this
    <3>1. \A i \in 2 .. n : i \in 1 .. n /\ i # 1
      BY <1>2
    <3> QED
      BY <1>4, <2>3, <3>1 DEF IsHistory
  <2> QED
    BY <1>4, <2>2, <2>3, <2>4, <2>5, <2>6
<1> QED
  BY <1>3, <1>4 DEF OneHistory

LEMMA ManifestsJudged ==
    ASSUME InputInv
    PROVE  CheckSingleChain(entries, head) <=> OneHistory
<1>1. CASE entries = {}
  BY <1>1 DEF CheckSingleChain, OneHistory
<1>2. CASE entries # {}
  <2>1. IsFiniteSet(entries) /\ Genesis \notin HashesOf(entries)
    BY <1>2, InputManifests DEF InputInv
  <2>2. CheckSingleChain(entries, head) <=>
            \E s \in Seq(entries) : /\ IsHistory(s)
                                    /\ s # <<>>
                                    /\ UpTo(s, Len(s)) = entries
                                    /\ head \in {Genesis, Nothing, s[Len(s)].this}
    BY <1>2, <2>1, ChainIsHistory
  <2> QED
    BY <1>2, <2>2, OrderIsHistory
<1> QED
  BY <1>1, <1>2

(* check_single_chain accepts the manifests of a directory exactly when    *)
(* they are one history that ends at head.hash, whatever files are         *)
(* missing, copied, forked or in a cycle.                                  *)
THEOREM ManifestVerdictAlwaysRight == Spec => []ManifestVerdictRight
<1>1. InputsInv => ManifestVerdictRight
  BY ManifestsJudged DEF InputsInv, VerdictInv, ManifestVerdictRight
<1> QED
  BY <1>1, VerdictInvariance, PTL
-----------------------------------------------------------------------------
(* The log *****************************************************************)

LEMMA InputLines ==
    ASSUME InputInv
    PROVE  /\ Len(lines) \in Nat /\ DOMAIN lines = 1 .. Len(lines)
           /\ \A i \in DOMAIN lines : lines[i] \in Alphabet
<1>1. CASE lines = <<>>
  BY <1>1
<1>2. CASE lines \in LogInputs
  <2>1. PICK n \in 0 .. MaxLines : lines \in [1 .. n -> Alphabet]
    BY <1>2 DEF LogInputs
  <2>2. n \in Nat
    BY <2>1, InputsAssumption
  <2>3. lines \in Seq(Alphabet) /\ Len(lines) = n
    BY <2>1, <2>2
  <2> QED
    BY <2>1, <2>2, <2>3
<1> QED
  BY <1>1, <1>2 DEF InputInv

(* A signed line that checks is one the host wrote, and whatever line is   *)
(* not signed is of the older form.                                        *)
LEMMA InputLine ==
    ASSUME NEW line \in Alphabet
    PROVE  /\ line.fields \in {"legacy", "signed"}
           /\ line.fields = "signed" /\ line.valid =>
                  \E j \in DOMAIN Written : line = HostLine(j)
<1>1. ASSUME NEW i \in DOMAIN Written, line = HostLine(i)
      PROVE  line.fields = "signed"
  BY <1>1 DEF HostLine, SignedLine
<1>2. ASSUME NEW i \in DOMAIN Written, line = ChangedLine(i)
      PROVE  line.fields = "signed" /\ ~line.valid
  BY <1>2 DEF ChangedLine, HostLine, SignedLine
<1>3. ASSUME NEW h, line = LegacyLine(h)
      PROVE  line.fields = "legacy"
  BY <1>3 DEF LegacyLine
<1> QED
  BY <1>1, <1>2, <1>3 DEF Alphabet, StrippedLine

(* What a line of the host says, and which one may come after another.     *)
LEMMA HostLines ==
    ASSUME NEW j \in DOMAIN Written
    PROVE  /\ j \in Nat \ {0} /\ j <= Len(Written)
           /\ HostLine(j).fields = "signed" /\ HostLine(j).valid
           /\ HostLine(j).log_hash = Written[j]
           /\ HostLine(j).manifest_hash = Written[j]
           /\ Written[j] # Genesis /\ Written[j] # Nothing
           /\ HostLine(j).log_prev = Genesis => j = 1
           /\ \A i \in DOMAIN Written : HostLine(j).log_prev = Written[i] => j = i + 1
<1>1. /\ DOMAIN Written = 1 .. Len(Written) /\ Len(Written) \in Nat
      /\ \A i \in DOMAIN Written :
             Written[i] \in Hashes /\ Written[i] # Genesis /\ Written[i] # Nothing
  BY InputsAssumption
<1>2. j \in Nat \ {0} /\ j <= Len(Written)
  BY <1>1
<1>3. HostLine(j).log_prev = IF j = 1 THEN Genesis ELSE Written[j - 1]
  BY DEF HostLine, SignedLine
<1>4. j # 1 => j - 1 \in DOMAIN Written
  BY <1>1, <1>2
<1>5. HostLine(j).log_prev = Genesis => j = 1
  BY <1>1, <1>3, <1>4
<1>6. ASSUME NEW i \in DOMAIN Written, HostLine(j).log_prev = Written[i]
      PROVE  j = i + 1
  <2>1. j # 1
    BY <1>1, <1>3, <1>6
  <2>2. j - 1 = i
    BY <1>3, <1>4, <1>6, <2>1, InputsAssumption
  <2> QED
    BY <1>2, <2>2
<1>7. /\ HostLine(j).fields = "signed" /\ HostLine(j).valid
      /\ HostLine(j).log_hash = Written[j]
      /\ HostLine(j).manifest_hash = Written[j]
  BY DEF HostLine, SignedLine
<1> QED
  BY <1>1, <1>2, <1>5, <1>6, <1>7

(* verify_log lets unsigned lines come first, and then only the host's     *)
(* signed ones, from the first one on.                                     *)
LEMMA VerifiedIsPrefix ==
    ASSUME InputInv, VerifyLog(lines)
    PROVE  HostPrefix
<1> DEFINE S == {i \in DOMAIN lines : lines[i].fields = "signed"}
           N == Len(lines)
<1>1. /\ N \in Nat /\ DOMAIN lines = 1 .. N
      /\ \A i \in 1 .. N : lines[i] \in Alphabet
  BY InputLines
<1>2. \A i \in 1 .. N \ S : lines[i].fields = "legacy"
  BY <1>1, InputLine
<1> HIDE DEF N
<1>3. CASE S = {}
  <2>1. /\ \A i \in 1 .. N : lines[i].fields = "legacy"
        /\ N - N = 0 /\ 1 .. 0 = {} /\ N \in 0 .. N
    BY <1>1, <1>2, <1>3
  <2>2. Len(Written) \in Nat
    BY InputsAssumption
  <2> QED
    BY <2>1, <2>2 DEF HostPrefix, N
<1>4. CASE S # {}
  <2>1. PICK f \in S : \A i \in S : f <= i
    <3>1. S \subseteq Nat
      BY <1>1
    <3> HIDE DEF S
    <3> QED
      BY <1>4, <3>1, Least
  <2> DEFINE k == f - 1
             A == {i \in Nat : k + i + 1 <= N =>
                      /\ i + 1 \in DOMAIN Written
                      /\ lines[k + i + 1] = HostLine(i + 1)}
  <2>2. f \in 1 .. N /\ k \in 0 .. N /\ k \in Nat /\ f = k + 1
    BY <1>1
  <2>3. \A i \in 1 .. k : lines[i].fields = "legacy"
    <3>1. \A i \in 1 .. k : i \in 1 .. N /\ ~(f <= i)
      BY <1>1, <2>2
    <3> QED
      BY <1>2, <2>1, <3>1
  <2> HIDE DEF S, k
  <2>4. ASSUME NEW i \in 1 .. N, f <= i
        PROVE  /\ lines[i].log_prev = ExpectedPrev(lines, i)
               /\ \E j \in DOMAIN Written : lines[i] = HostLine(j)
    <3>1. lines[i].fields = "signed" /\ SignedLineOK(lines, i)
      <4>1. CASE i \in S
        <5>1. lines[i].fields = "signed"
          BY <4>1 DEF S
        <5> QED
          BY <1>1, <5>1 DEF VerifyLog
      <4>2. CASE i \notin S
        <5>1. lines[i].fields = "legacy" /\ i # f
          BY <1>2, <2>1, <4>2
        <5>2. f \in SignedBefore(lines, i)
          BY <1>1, <2>1, <2>2, <2>4, <5>1 DEF SignedBefore, S
        <5> QED
          BY <1>1, <5>1, <5>2 DEF VerifyLog, LegacyLineOK
      <4> QED
        BY <4>1, <4>2
    <3> QED
      BY <1>1, <3>1, InputLine DEF SignedLineOK
  <2>5. 0 \in A
    <3>1. SignedBefore(lines, f) = {}
      <4>1. \A j \in 1 .. f - 1 : j \in 1 .. N /\ ~(f <= j)
        BY <1>1, <2>2
      <4> QED
        BY <1>1, <2>1, <4>1 DEF SignedBefore, S
    <3>2. lines[f].log_prev = Genesis
      <4>1. lines[f].log_prev = ExpectedPrev(lines, f)
        BY <2>2, <2>4
      <4> QED
        BY <3>1, <4>1 DEF ExpectedPrev
    <3>3. PICK j \in DOMAIN Written : lines[f] = HostLine(j)
      BY <2>2, <2>4
    <3>4. j = 1
      BY <3>2, <3>3, HostLines
    <3>5. k + 0 + 1 = f /\ 0 + 1 = 1
      BY <2>2
    <3> QED
      BY <3>3, <3>4, <3>5
  <2>6. ASSUME NEW i \in A PROVE i + 1 \in A
    <3> SUFFICES ASSUME k + (i + 1) + 1 <= N
                 PROVE  /\ i + 1 + 1 \in DOMAIN Written
                        /\ lines[k + (i + 1) + 1] = HostLine(i + 1 + 1)
      OBVIOUS
    <3> DEFINE p == k + i + 1
    <3>1. /\ p \in 1 .. N /\ p + 1 \in 1 .. N /\ f <= p /\ f <= p + 1
          /\ p + 1 = k + (i + 1) + 1 /\ i \in Nat
      BY <1>1, <2>2
    <3>2. i + 1 \in DOMAIN Written /\ lines[p] = HostLine(i + 1)
      BY <1>1, <3>1
    <3> HIDE DEF p, A
    <3>3. lines[p].fields = "signed" /\ lines[p].log_hash = Written[i + 1]
      BY <3>2, HostLines
    <3>4. ExpectedPrev(lines, p + 1) = Written[i + 1]
      <4> DEFINE earlier == SignedBefore(lines, p + 1)
      <4>1. p \in earlier /\ \A j \in earlier : j \in Nat /\ j <= p
        BY <1>1, <3>1, <3>3 DEF SignedBefore
      <4>2. \A j \in earlier : (\A l \in earlier : l <= j) => j = p
        BY <3>1, <4>1
      <4> HIDE DEF earlier
      <4>3. (CHOOSE j \in earlier : \A l \in earlier : l <= j) = p
        BY <4>1, <4>2
      <4>4. earlier # {}
        BY <4>1
      <4> QED
        BY <3>3, <4>3, <4>4 DEF ExpectedPrev, earlier
    <3>5. PICK j \in DOMAIN Written : lines[p + 1] = HostLine(j)
      BY <2>4, <3>1
    <3>6. lines[p + 1].log_prev = Written[i + 1]
      BY <2>4, <3>1, <3>4
    <3>7. j = i + 1 + 1
      BY <3>2, <3>5, <3>6, HostLines
    <3> QED
      BY <3>1, <3>5, <3>7
  <2>7. A = Nat
    <3> HIDE DEF A
    <3>1. A \subseteq Nat
      BY DEF A
    <3> QED
      BY <2>5, <2>6, <3>1, NatSetInduction
  <2>8. ASSUME NEW i \in 1 .. N - k
        PROVE  i \in DOMAIN Written /\ lines[k + i] = HostLine(i)
    <3>1. i - 1 \in Nat /\ k + (i - 1) + 1 = k + i /\ i - 1 + 1 = i /\ k + i <= N
      BY <1>1, <2>2
    <3>2. i - 1 \in A
      BY <2>7, <3>1
    <3> QED
      BY <3>1, <3>2
  <2>9. N - k <= Len(Written)
    <3>1. N - k \in 1 .. N - k
      BY <1>1, <2>2
    <3> HIDE DEF A
    <3>2. N - k \in DOMAIN Written
      BY <2>8, <3>1
    <3> QED
      BY <3>2, HostLines
  <2> HIDE DEF A
  <2> QED
    BY <2>2, <2>3, <2>8, <2>9 DEF HostPrefix, N
<1> QED
  BY <1>3, <1>4

(* And it accepts every such log.                                          *)
LEMMA PrefixIsVerified ==
    ASSUME InputInv, HostPrefix
    PROVE  VerifyLog(lines)
<1> DEFINE N == Len(lines)
<1>1. N \in Nat /\ DOMAIN lines = 1 .. N
  BY InputLines
<1>2. PICK k \in 0 .. N :
          /\ \A i \in 1 .. k : lines[i].fields = "legacy"
          /\ N - k <= Len(Written)
          /\ \A i \in 1 .. N - k : lines[k + i] = HostLine(i)
  BY DEF HostPrefix
<1> HIDE DEF N
<1>3. Len(Written) \in Nat /\ DOMAIN Written = 1 .. Len(Written)
  BY InputsAssumption
<1>4. ASSUME NEW i \in 1 .. N, i <= k
      PROVE  lines[i].fields = "legacy" /\ LegacyLineOK(lines, i)
  <2>1. \A j \in 1 .. i - 1 : lines[j].fields = "legacy"
    BY <1>1, <1>2, <1>4
  <2> QED
    BY <1>1, <1>2, <1>4, <2>1 DEF LegacyLineOK, SignedBefore
<1>5. ASSUME NEW i \in 1 .. N, ~(i <= k)
      PROVE  lines[i].fields = "signed" /\ SignedLineOK(lines, i)
  <2> DEFINE j == i - k
             earlier == SignedBefore(lines, i)
  <2>0. i \in Nat /\ k \in Nat
    BY <1>1, <1>2
  <2>1. j \in 1 .. N - k /\ k + j = i /\ j \in DOMAIN Written
    BY <1>1, <1>2, <1>3, <1>5
  <2>2. lines[i] = HostLine(j)
    BY <1>2, <2>1
  <2> HIDE DEF j
  <2>3. lines[i].fields = "signed" /\ lines[i].valid
    BY <2>1, <2>2, HostLines
  <2>4. lines[i].log_prev = IF j = 1 THEN Genesis ELSE Written[j - 1]
    BY <2>2 DEF HostLine, SignedLine
  <2>5. CASE j = 1
    <3>1. \A l \in 1 .. i - 1 : l \in 1 .. k
      BY <1>1, <2>1, <2>5
    <3>2. earlier = {}
      BY <1>2, <3>1 DEF SignedBefore
    <3> QED
      BY <2>3, <2>4, <2>5, <3>2 DEF ExpectedPrev, SignedLineOK, earlier
  <2>6. CASE j # 1
    <3>0. j \in Nat /\ N - k \in Nat
      BY <1>1, <1>2, <2>1
    <3>1. j - 1 \in 1 .. N - k /\ k + (j - 1) = i - 1 /\ j - 1 \in DOMAIN Written
      <4>1. j - 1 \in Nat \ {0} /\ j <= N - k /\ j <= Len(Written)
        BY <1>3, <2>1, <2>6, <3>0
      <4>2. k + (j - 1) = i - 1
        BY <2>0, <2>1, <3>0
      <4>3. j - 1 \in 1 .. N - k
        BY <3>0, <4>1
      <4>4. j - 1 \in 1 .. Len(Written)
        BY <1>3, <3>0, <4>1
      <4> QED
        BY <1>3, <4>2, <4>3, <4>4
    <3>2. lines[i - 1] = HostLine(j - 1)
      <4>1. lines[k + (j - 1)] = HostLine(j - 1)
        BY <1>2, <3>1
      <4> QED
        BY <3>1, <4>1
    <3>3. lines[i - 1].fields = "signed" /\ lines[i - 1].log_hash = Written[j - 1]
      BY <3>1, <3>2, HostLines
    <3>4. i - 1 \in earlier /\ \A l \in earlier : l \in Nat /\ l <= i - 1
      BY <1>1, <1>2, <3>1, <3>3 DEF SignedBefore
    <3>5. \A l \in earlier : (\A o \in earlier : o <= l) => l = i - 1
      BY <3>4
    <3> HIDE DEF earlier
    <3>6. (CHOOSE l \in earlier : \A o \in earlier : o <= l) = i - 1
      BY <3>4, <3>5
    <3>7. ExpectedPrev(lines, i) = Written[j - 1]
      BY <3>3, <3>4, <3>6 DEF ExpectedPrev, earlier
    <3> QED
      BY <2>3, <2>4, <2>6, <3>7 DEF SignedLineOK
  <2> QED
    BY <2>3, <2>5, <2>6 DEF SignedLineOK
<1> QED
  BY <1>1, <1>4, <1>5 DEF VerifyLog

(* Of the host's lines, signatures come off unseen from all at once or not *)
(* at all: the first one that is left, or an unsigned one after it, shows. *)
LEMMA StrippedShows ==
    ASSUME InputInv, NEW d \in 0 .. Len(lines), HostLogAfter(d)
    PROVE  VerifyLog(lines) <=> NoneStripped(d) \/ AllStripped(d)
<1>1. ASSUME VerifyLog(lines) PROVE NoneStripped(d) \/ AllStripped(d)
  <2> SUFFICES ASSUME NEW s \in 1 .. Len(lines) - d, lines[d + s] # HostLine(s),
                      NEW t \in 1 .. Len(lines) - d, lines[d + t] # StrippedLine(t)
               PROVE  FALSE
    BY Zenon DEF NoneStripped, AllStripped
  <2> DEFINE N == Len(lines)
             W == Len(Written)
  <2>1. InputInv /\ VerifyLog(lines)
    BY <1>1
  <2>2. N \in Nat /\ W \in Nat /\ DOMAIN Written = 1 .. W
    BY <2>1, InputLines, InputsAssumption
  <2>3. PICK k \in 0 .. N :
            /\ \A l \in 1 .. k : lines[l].fields = "legacy"
            /\ N - k <= W
            /\ \A l \in 1 .. N - k : lines[k + l] = HostLine(l)
    BY <2>1, VerifiedIsPrefix DEF HostPrefix
  <2>9. d \in Nat /\ k \in Nat /\ s \in Nat \ {0} /\ t \in Nat \ {0}
        /\ d + s <= N /\ d + t <= N /\ k <= N /\ d <= N
    BY <2>2, <2>3
  <2>4. \A i \in 1 .. N - d : i \in DOMAIN Written
    BY <2>2 DEF HostLogAfter
  <2>5. lines[d + s].fields = "legacy" /\ lines[d + t].fields = "signed"
    <3>1. lines[d + s] = StrippedLine(s) /\ lines[d + t] = HostLine(t)
      BY DEF HostLogAfter
    <3>2. HostLine(t).fields = "signed"
      BY <2>4, HostLines
    <3> QED
      BY <3>1, <3>2 DEF StrippedLine, LegacyLine
  <2> HIDE DEF N, W
  <2>6. d + s <= k
    <3> SUFFICES ASSUME k < d + s PROVE FALSE
      BY <2>9
    <3> DEFINE l == d + s - k
    <3>1. l \in 1 .. N - k /\ k + l = d + s /\ l \in DOMAIN Written
      BY <2>2, <2>3, <2>9
    <3> HIDE DEF l
    <3>2. lines[d + s] = HostLine(l)
      BY <2>3, <3>1
    <3>3. HostLine(l).fields = "signed"
      BY <3>1, HostLines
    <3> QED
      BY <2>5, <3>2, <3>3
  <2>7. k < d + t
    BY <2>2, <2>3, <2>5, <2>9
  <2> DEFINE u == k + 1 - d
  <2>8. /\ u \in 1 .. N - d /\ d + u = k + 1 /\ u # 1
        /\ 1 \in 1 .. N - k /\ 1 \in DOMAIN Written
    BY <2>2, <2>3, <2>6, <2>7, <2>9
  <2> HIDE DEF u
  <2>10. lines[d + u] = HostLine(1)
    BY <2>3, <2>8
  <2>11. lines[d + u] \in {HostLine(u), StrippedLine(u)} /\ u \in DOMAIN Written
    BY <2>4, <2>8 DEF HostLogAfter, N
  <2>12. HostLine(1) = HostLine(u)
    <3>1. HostLine(1).fields = "signed"
      BY <2>8, HostLines
    <3>2. StrippedLine(u).fields = "legacy"
      BY DEF StrippedLine, LegacyLine
    <3> QED
      BY <2>10, <2>11, <3>1, <3>2
  <2>13. Written[1] = Written[u]
    <3>1. HostLine(1).log_hash = Written[1] /\ HostLine(u).log_hash = Written[u]
      BY <2>8, <2>11, HostLines
    <3> QED
      BY <2>12, <3>1
  <2> QED
    BY <2>8, <2>11, <2>13, InputsAssumption
<1>2. Len(lines) \in Nat /\ Len(Written) \in Nat
  BY InputLines, InputsAssumption
<1>3. ASSUME NoneStripped(d) PROVE VerifyLog(lines)
  <2>1. HostPrefix
    BY <1>2, <1>3 DEF HostPrefix, HostLogAfter, NoneStripped
  <2> QED
    BY <2>1, PrefixIsVerified
<1>4. ASSUME AllStripped(d) PROVE VerifyLog(lines)
  <2>1. \A l \in 1 .. Len(lines) : lines[l].fields = "legacy"
    <3> SUFFICES ASSUME NEW l \in 1 .. Len(lines), d < l
                 PROVE  lines[l].fields = "legacy"
      BY <1>2 DEF HostLogAfter
    <3>1. l - d \in 1 .. Len(lines) - d /\ d + (l - d) = l
      BY <1>2
    <3>2. lines[l] = StrippedLine(l - d)
      BY <1>4, <3>1 DEF AllStripped
    <3> QED
      BY <3>2 DEF StrippedLine, LegacyLine
  <2>2. HostPrefix
    BY <1>2, <2>1 DEF HostPrefix
  <2> QED
    BY <2>2, PrefixIsVerified
<1> QED
  BY <1>1, <1>3, <1>4

(* verify_log accepts a log exactly when it is unsigned lines, of any      *)
(* content, and then the host's signed ones, from the first one on without *)
(* a gap: a signed line that was changed, removed from before another,     *)
(* moved or repeated is always found, and so is a log of which some lines  *)
(* lost their signatures, but not one of which all did.                    *)
THEOREM LogVerdictAlwaysRight == Spec => []LogVerdictRight
<1>1. ASSUME InputsInv PROVE LogVerdictRight
  <2>1. /\ verdict = "log_broken" => ~HostPrefix
        /\ verdict \in {"log_ok", "rewritten"} => HostPrefix
    BY <1>1, VerifiedIsPrefix, PrefixIsVerified DEF InputsInv, VerdictInv, Passed
  <2>2. verdict # "pending" => (verdict # "log_broken" <=> VerifyLog(lines))
    BY <1>1 DEF InputsInv, VerdictInv, Passed
  <2>3. StrippedAllOrNone
    BY <1>1, <2>2, StrippedShows DEF StrippedAllOrNone, InputsInv
  <2> QED
    BY <2>1, <2>3 DEF LogVerdictRight
<1> QED
  BY <1>1, VerdictInvariance, PTL

(* What verify_log cannot see, lines cut from the end, head.hash shows: a  *)
(* log with a signed line passes beside the head of the host's last commit *)
(* only when it has all the lines the host wrote.                          *)
THEOREM TailAlwaysAnchored == Spec => []TailAnchored
<1>1. ASSUME InputsInv PROVE TailAnchored
  <2> SUFFICES ASSUME verdict \in Passed, head = Written[Len(Written)],
                      NEW s \in DOMAIN lines, lines[s].fields = "signed",
                      NEW i \in DOMAIN Written
               PROVE  HostLine(i) \in {lines[j] : j \in DOMAIN lines}
    BY DEF TailAnchored, Passed
  <2> DEFINE N == Len(lines)
             W == Len(Written)
  <2>1. InputInv /\ VerifyLog(lines) /\ HeadMatchesLog(head, lines)
    BY <1>1 DEF InputsInv, VerdictInv
  <2>2. N \in Nat /\ DOMAIN lines = 1 .. N
    BY <2>1, InputLines
  <2>3. PICK k \in 0 .. N :
            /\ \A l \in 1 .. k : lines[l].fields = "legacy"
            /\ N - k <= W
            /\ \A l \in 1 .. N - k : lines[k + l] = HostLine(l)
    BY <2>1, VerifiedIsPrefix DEF HostPrefix
  <2>4. W \in Nat /\ DOMAIN Written = 1 .. W
    BY InputsAssumption
  <2> HIDE DEF N, W
  <2>5. k < s /\ s <= N /\ k \in Nat /\ s \in Nat
    BY <2>2, <2>3
  <2> DEFINE n == N - k
  <2>6. n \in 1 .. N - k /\ k + n = N /\ n \in DOMAIN Written /\ W \in DOMAIN Written
    BY <2>2, <2>3, <2>4, <2>5
  <2>7. lines[N].manifest_hash = Written[n]
    <3>1. lines[k + n] = HostLine(n)
      BY <2>3, <2>6
    <3> HIDE DEF n
    <3> QED
      BY <2>6, <3>1, HostLines
  <2>8. head = lines[N].manifest_hash
    <3>1. head # Nothing
      <4>1. Written[W] # Nothing
        BY <2>6, HostLines
      <4> QED
        BY <4>1 DEF W
    <3>2. lines # <<>>
      BY <2>2, <2>5 DEF N
    <3> QED
      BY <2>1, <3>1, <3>2 DEF HeadMatchesLog, TipManifestHash, N
  <2>9. n = W
    <3>1. Written[n] = Written[W]
      BY <2>7, <2>8 DEF W
    <3> HIDE DEF n
    <3> QED
      BY <2>6, <3>1, InputsAssumption
  <2>10. i \in 1 .. N - k /\ k + i \in DOMAIN lines
    BY <2>2, <2>3, <2>4, <2>5, <2>9
  <2>11. lines[k + i] = HostLine(i)
    BY <2>3, <2>10
  <2> QED
    BY <2>10, <2>11
<1> QED
  BY <1>1, VerdictInvariance, PTL
=============================================================================
