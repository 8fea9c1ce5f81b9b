---------------------------- MODULE ChainProofs -----------------------------
(***************************************************************************)
(* What TLAPS proves of Chain for every set of recorders, every number of  *)
(* parts and faults, every kind of fault, in three parts.                  *)
(*   History: by the inductive invariant IInv, head.hash always ends one   *)
(* intact history, it only ever advances, and the chain implements Ledger. *)
(*   Log: which lines head.hash.log can hold, what verify_log says of them *)
(* and how they relate to the history (LogInv).                            *)
(*   Verdicts: when check_single_chain accepts the manifests, how much the *)
(* faults can cost while verify_log accepts the log, and that a host       *)
(* without a fault passes the whole check (AtRest).                        *)
(***************************************************************************)
EXTENDS Chain, VerifyProofs

(* A recorder is at a critical label exactly when the flock is its own.    *)
LockInv == \A r \in Recorders : pc[r] \in Critical <=> lock = r

(* The manifest of the part a recorder is at is not on disk before it      *)
(* writes it, and no manifest of a later part ever is.                     *)
Unwritten == {"record", "acquire", "read_head", "write_to"}

FreshInv ==
    \A r \in Recorders, p \in Parts :
        <<r, p>> \in HashesOf(sidecars) =>
            /\ p <= part[r]
            /\ pc[r] \in Unwritten => p # part[r]

UniqueInv == NoDuplicate(sidecars)

(* From its read of the head to its rename, the head is what it read.      *)
PrevInv ==
    \A r \in Recorders :
        pc[r] \in {"write_to", "head_tmp", "rename"} => prev[r] = head

(* Between the two renames its manifest is on disk and not yet published.  *)
PendingInv ==
    \A r \in Recorders :
        pc[r] \in {"head_tmp", "rename"} =>
            /\ Manifest(Mine(r), prev[r]) \in sidecars
            /\ Mine(r) \notin Published

TmpInv == \A r \in Recorders : pc[r] = "rename" => headTmp = Mine(r)

(* Until it drops the lock, the manifest it published is the head.         *)
DoneInv ==
    \A r \in Recorders :
        pc[r] \in {"read_log_tip", "append", "unlock"} => head = Mine(r)

IInv ==
    /\ TypeOK
    /\ LockInv
    /\ FreshInv
    /\ UniqueInv
    /\ PrevInv
    /\ PendingInv
    /\ TmpInv
    /\ DoneInv
    /\ HistoryIntact
    /\ AckedOnSpine
-----------------------------------------------------------------------------
(* Types *******************************************************************)

(* The hash a recorder makes is one of the host's, and no sentinel.        *)
LEMMA MineType ==
    ASSUME TypeOK, NEW r \in Recorders
    PROVE  Mine(r) \in Hashes /\ Mine(r) # Nothing /\ Mine(r) # Genesis
BY ChainAssumption DEF TypeOK, Mine, Hashes, Parts

(* Every line a recorder can write, whole or torn, is a line.              *)
LEMMA LineType ==
    ASSUME NEW h \in Hashes, NEW p \in Hashes \cup {Genesis, Nothing}
    PROVE  /\ SignedLine(h, p) \in Lines
           /\ LegacyLine(h) \in Lines
           /\ TornLines(SignedLine(h, p)) \subseteq Lines
<1> DEFINE line == SignedLine(h, p)
<1>1. line \in Lines /\ line.manifest_hash = h
  BY DEF SignedLine, Lines, FieldCounts
<1>2. LegacyLine(h) \in Lines
  BY DEF LegacyLine, Lines, FieldCounts
<1>3. ASSUME NEW l \in Lines
      PROVE  [l EXCEPT !.eol = FALSE] \in Lines
  BY DEF Lines
<1>4. [line EXCEPT !.eol = FALSE, !.valid = FALSE] \in Lines
  BY <1>1 DEF Lines
<1>5. \A n \in FieldCounts : Mangled(n, FALSE, Nothing) \in Lines
  BY DEF Mangled, Lines
<1> HIDE DEF line
<1>6. TornLines(line) \subseteq Lines
  BY <1>1, <1>2, <1>3, <1>4, <1>5 DEF TornLines, FieldCounts
<1> QED
  BY <1>1, <1>2, <1>6 DEF line

LEMMA LastLineType ==
    ASSUME NEW lines \in Seq(Lines), lines # <<>>
    PROVE  Len(lines) \in DOMAIN lines /\ LastLine(lines) \in Lines
BY DEF LastLine

(* Appending, whole or torn, leaves a sequence of lines.                   *)
LEMMA AppendType ==
    ASSUME NEW lines \in Seq(Lines),
           NEW h \in Hashes, NEW p \in Hashes \cup {Genesis, Nothing}
    PROVE  /\ AppendLine(lines, SignedLine(h, p)) \in Seq(Lines)
           /\ AppendTornLine(lines, SignedLine(h, p)) \subseteq Seq(Lines)
<1> DEFINE line == SignedLine(h, p)
<1>1. line \in Lines /\ TornLines(line) \subseteq Lines
  BY LineType
<1>2. CASE Unterminated(lines)
  <2>1. lines # <<>>
    BY <1>2 DEF Unterminated
  <2>2. Len(lines) \in DOMAIN lines /\ LastLine(lines) \in Lines
    BY <2>1, LastLineType
  <2>3. Mangled("other", TRUE, Nothing) \in Lines
    BY DEF Mangled, Lines, FieldCounts
  <2>4. TornTails(LastLine(lines)) \subseteq Lines
    <3>1. ASSUME NEW n \in FieldCounts, NEW hash \in Hashes \cup {Nothing}
          PROVE  Mangled(n, FALSE, hash) \in Lines
      BY DEF Mangled, Lines
    <3>2. LastLine(lines).log_hash \in Hashes \cup {Nothing}
      BY <2>2 DEF Lines
    <3> QED
      BY <3>1, <3>2 DEF TornTails, FieldCounts
  <2>5. ASSUME NEW t \in Lines
        PROVE  [lines EXCEPT ![Len(lines)] = t] \in Seq(Lines)
    BY <2>2
  <2> QED
    BY <1>2, <2>3, <2>4, <2>5 DEF AppendLine, AppendTornLine
<1>3. CASE ~Unterminated(lines)
  BY <1>1, <1>3 DEF AppendLine, AppendTornLine
<1> QED
  BY <1>2, <1>3

(* The tip of a log is the hash of a line, or where a new chain starts.    *)
LEMMA LogTipType ==
    ASSUME NEW lines \in Seq(Lines)
    PROVE  LogTip(lines) \in Hashes \cup {Genesis, Nothing}
<1>1. CASE lines = <<>>
  BY <1>1 DEF LogTip
<1>2. CASE lines # <<>>
  <2>1. LastLine(lines) \in Lines
    BY <1>2, LastLineType
  <2> QED
    BY <2>1 DEF LogTip, Lines
<1> QED
  BY <1>1, <1>2

LEMMA TypeInit == Init => TypeOK
<1>1. FreshHost => /\ head \in Hashes \cup {Genesis}
                   /\ sidecars \in SUBSET Manifests
                   /\ log \in Seq(Lines)
                   /\ spine \in Seq(Manifests)
  BY DEF FreshHost
<1>2. OldManifest \in Hashes /\ Manifest(OldManifest, Genesis) \in Manifests
  BY DEF Hashes, Manifest, Manifests
<1>3. LegacyLine(OldManifest) \in Lines
  BY <1>2 DEF LegacyLine, Lines, FieldCounts
<1>4. UpgradedHost => /\ head \in Hashes \cup {Genesis}
                      /\ sidecars \in SUBSET Manifests
                      /\ log \in Seq(Lines)
                      /\ spine \in Seq(Manifests)
  BY <1>2, <1>3 DEF UpgradedHost
<1> QED
  BY <1>1, <1>4, ChainAssumption DEF Init, TypeOK, Labels, Parts

LEMMA TypeStep ==
    ASSUME TypeOK, [Next]_vars
    PROVE  TypeOK'
<1> USE DEF TypeOK, Goto, disk, mine, LockWithout, Labels, Critical, Stopped
<1>1. ASSUME NEW r \in Recorders, EndPart(r) PROVE TypeOK'
  BY <1>1 DEF EndPart
<1>2. ASSUME NEW r \in Recorders, AcquireLock(r) PROVE TypeOK'
  BY <1>2 DEF AcquireLock
<1>3. ASSUME NEW r \in Recorders, ReadHead(r) PROVE TypeOK'
  BY <1>3 DEF ReadHead
<1>4. ASSUME NEW r \in Recorders, WriteSidecar(r) PROVE TypeOK'
  <2>1. Manifest(Mine(r), prev[r]) \in Manifests
    BY MineType DEF Manifest, Manifests
  <2> QED
    BY <1>4, <2>1 DEF WriteSidecar
<1>5. ASSUME NEW r \in Recorders, WriteHeadTmp(r) PROVE TypeOK'
  BY <1>5, MineType DEF WriteHeadTmp
<1>6. ASSUME NEW r \in Recorders, RenameHead(r) PROVE TypeOK'
  <2>1. PICK m \in sidecars : spine' = Append(spine, m)
    BY <1>6 DEF RenameHead
  <2>2. spine' \in Seq(Manifests)
    BY <2>1
  <2> QED
    BY <1>6, <2>2 DEF RenameHead
<1>7. ASSUME NEW r \in Recorders, ReadLogTip(r) PROVE TypeOK'
  BY <1>7, LogTipType DEF ReadLogTip
<1>8. ASSUME NEW r \in Recorders, AppendLog(r) PROVE TypeOK'
  <2>1. log' \in Seq(Lines)
    BY <1>8, MineType, AppendType DEF AppendLog
  <2> QED
    BY <1>8, <2>1 DEF AppendLog
<1>9. ASSUME NEW r \in Recorders, Unlock(r) PROVE TypeOK'
  BY <1>9, MineType DEF Unlock
<1>10. ASSUME NEW r \in Recorders, NextPart(r) PROVE TypeOK'
  BY <1>10, ChainAssumption DEF NextPart, Parts
<1>11. ASSUME NEW r \in Recorders, EndSession(r) PROVE TypeOK'
  BY <1>11 DEF EndSession
<1>12. ASSUME NEW r \in Recorders, CallFails(r) PROVE TypeOK'
  BY <1>12 DEF CallFails, Fault
<1>13. ASSUME NEW r \in Recorders, AppendFails(r) PROVE TypeOK'
  <2>1. log' \in Seq(Lines)
    BY <1>13, MineType, AppendType DEF AppendFails
  <2> QED
    BY <1>13, <2>1 DEF AppendFails, Fault
<1>14. ASSUME NEW r \in Recorders, Crash(r) PROVE TypeOK'
  BY <1>14 DEF Crash, Fault
<1>15. CASE UNCHANGED vars
  BY <1>15 DEF vars
<1> QED
  BY <1>1, <1>2, <1>3, <1>4, <1>5, <1>6, <1>7, <1>8, <1>9, <1>10, <1>11,
     <1>12, <1>13, <1>14, <1>15
     DEF Next, Commit, Session, Faulty, AllStopped

(* Every value the processes and the files can hold is of its type, for    *)
(* any number of recorders, parts and faults.                              *)
THEOREM TypeCorrect == Spec => []TypeOK
BY TypeInit, TypeStep, PTL DEF Spec
-----------------------------------------------------------------------------
(* The history is inductive ************************************************)

(* What the spine names has a manifest file.                               *)
LEMMA PublishedOnDisk ==
    ASSUME HistoryIntact
    PROVE  Published \subseteq HashesOf(sidecars)
BY DEF HistoryIntact, OnSpine, Published, HashesOf

(* The part a recorder has not written a manifest for is new to the disk   *)
(* and to the history.                                                     *)
LEMMA MineFresh ==
    ASSUME IInv, NEW r \in Recorders, pc[r] \in Unwritten
    PROVE  Mine(r) \notin HashesOf(sidecars) /\ Mine(r) \notin Published
<1>1. part[r] \in Parts
  BY DEF IInv, TypeOK
<1>2. Mine(r) \notin HashesOf(sidecars)
  BY <1>1 DEF IInv, FreshInv, Mine
<1> QED
  BY <1>2, PublishedOnDisk DEF IInv

(* Two recorders never make the same hash.                                 *)
LEMMA MineApart ==
    ASSUME NEW r \in Recorders, NEW s \in Recorders, r # s
    PROVE  Mine(r) # Mine(s)
BY DEF Mine

LEMMA InvInit == Init => IInv
<1> SUFFICES ASSUME Init PROVE IInv
  OBVIOUS
<1> USE DEF Init
<1>1. TypeOK
  BY TypeInit
<1>2. LockInv
  BY ChainAssumption DEF LockInv, Critical
<1>3. HashesOf(sidecars) \subseteq {OldManifest} /\ UniqueInv
  BY DEF FreshHost, UpgradedHost, HashesOf, UniqueInv, NoDuplicate, Manifest
<1>4. FreshInv
  BY <1>3, ChainAssumption DEF FreshInv
<1>5. PrevInv /\ PendingInv /\ TmpInv /\ DoneInv
  BY DEF PrevInv, PendingInv, TmpInv, DoneInv
<1>6. HistoryIntact
  <2>1. CASE FreshHost
    BY <2>1 DEF FreshHost, HistoryIntact, SpineTip, OnSpine
  <2>2. CASE UpgradedHost
    BY <2>2 DEF UpgradedHost, HistoryIntact, SpineTip, OnSpine, Manifest
  <2> QED
    BY <2>1, <2>2
<1>7. AckedOnSpine
  BY DEF AckedOnSpine
<1> QED
  BY <1>1, <1>2, <1>3, <1>4, <1>5, <1>6, <1>7 DEF IInv

(* A step that changes neither the manifests nor the heads keeps what is   *)
(* said of them alone.                                                     *)
LEMMA HistoryKept ==
    ASSUME IInv, UNCHANGED <<head, sidecars, spine>>
    PROVE  UniqueInv' /\ HistoryIntact' /\ Published' = Published
BY DEF IInv, UniqueInv, NoDuplicate, HistoryIntact, SpineTip, OnSpine, Published

(* The steps that leave the shared files alone, or write only the log:     *)
(* what they have to keep is the agreement of lock and labels.             *)
LEMMA QuietStep ==
    ASSUME IInv, TypeOK', NEW r \in Recorders,
           UNCHANGED <<head, headTmp, sidecars, spine, part, prev, acked>>,
           NEW to \in Labels, pc' = [pc EXCEPT ![r] = to],
           to \in Unwritten => pc[r] \in Unwritten,
           to \notin {"write_to", "head_tmp", "rename"},
           to \in {"read_log_tip", "append", "unlock"} =>
               pc[r] \in {"read_log_tip", "append", "unlock"},
           LockInv'
    PROVE  IInv'
<1> USE DEF IInv, TypeOK
<1>1. UniqueInv' /\ HistoryIntact' /\ Published' = Published
  BY HistoryKept
<1>2. \A s \in Recorders : Mine(s)' = Mine(s)
  BY DEF Mine
<1>3. FreshInv'
  BY DEF FreshInv
<1>4. PrevInv' /\ TmpInv'
  BY <1>2 DEF PrevInv, TmpInv
<1>5. PendingInv'
  BY <1>1, <1>2 DEF PendingInv
<1>6. DoneInv'
  BY <1>2 DEF DoneInv
<1>7. AckedOnSpine'
  BY <1>1 DEF AckedOnSpine
<1> QED
  BY <1>1, <1>3, <1>4, <1>5, <1>6, <1>7

(* What the lock gives: a recorder at a critical label is the only one.    *)
LEMMA OneInside ==
    ASSUME LockInv, NEW r \in Recorders, pc[r] \in Critical,
           NEW s \in Recorders, pc[s] \in Critical
    PROVE  r = s
BY DEF LockInv

(* Moving on inside the critical section, or leaving it and the lock,      *)
(* keeps lock and labels in agreement.                                     *)
LEMMA LockStep ==
    ASSUME TypeOK, LockInv, NEW r \in Recorders,
           NEW to \in Labels, pc' = [pc EXCEPT ![r] = to],
           \/ to \in Critical /\ pc[r] \in Critical /\ lock' = lock
           \/ to \notin Critical /\ lock' = LockWithout(r)
           \/ to \in Critical /\ lock = Nothing /\ lock' = r
    PROVE  LockInv'
BY ChainAssumption DEF TypeOK, LockInv, LockWithout

LEMMA ReadHeadStep ==
    ASSUME IInv, TypeOK', NEW r \in Recorders, ReadHead(r)
    PROVE  IInv'
<1> USE DEF ReadHead, Goto, disk, Critical, Labels
<1>1. UniqueInv' /\ HistoryIntact' /\ Published' = Published
  BY HistoryKept
<1>2. LockInv'
  BY LockStep DEF IInv
<1>3. \A s \in Recorders : Mine(s)' = Mine(s)
  BY DEF Mine
<1>4. FreshInv'
  BY DEF IInv, TypeOK, FreshInv, Unwritten
<1>5. PrevInv'
  BY DEF IInv, TypeOK, PrevInv
<1>6. PendingInv'
  BY <1>1, <1>3 DEF IInv, TypeOK, PendingInv
<1>7. TmpInv' /\ DoneInv'
  BY <1>3 DEF IInv, TypeOK, TmpInv, DoneInv
<1>8. AckedOnSpine'
  BY <1>1 DEF IInv, AckedOnSpine
<1> QED
  BY <1>1, <1>2, <1>4, <1>5, <1>6, <1>7, <1>8 DEF IInv

LEMMA WriteSidecarStep ==
    ASSUME IInv, TypeOK', NEW r \in Recorders, WriteSidecar(r)
    PROVE  IInv'
<1> USE DEF WriteSidecar, Goto, mine, Critical, Labels
<1> DEFINE m == Manifest(Mine(r), prev[r])
<1>1. Mine(r) \notin HashesOf(sidecars) /\ Mine(r) \notin Published
  BY MineFresh DEF Unwritten
<1>2. LockInv'
  BY LockStep DEF IInv
<1>3. Published' = Published /\ \A s \in Recorders : Mine(s)' = Mine(s)
  BY DEF Published, Mine
<1>4. m.this = Mine(r) /\ HashesOf(sidecars') = HashesOf(sidecars) \cup {Mine(r)}
  <2>1. m.this = Mine(r)
    BY DEF Manifest
  <2>2. sidecars' = sidecars \cup {m}
    OBVIOUS
  <2> HIDE DEF m
  <2> QED
    BY <2>1, <2>2 DEF HashesOf
<1>5. UniqueInv'
  BY <1>1, <1>4 DEF IInv, UniqueInv, NoDuplicate, HashesOf
<1>6. FreshInv'
  <2> SUFFICES ASSUME NEW s \in Recorders, NEW p \in Parts,
                      <<s, p>> \in HashesOf(sidecars')
               PROVE  p <= part'[s] /\ (pc'[s] \in Unwritten => p # part'[s])
    BY DEF FreshInv, HashesOf
  <2>1. CASE <<s, p>> = Mine(r)
    <3>1. s = r /\ p = part[r] /\ part[r] \in Int
      BY <2>1 DEF Mine, Parts, IInv, TypeOK
    <3>2. pc'[s] = "head_tmp"
      BY <3>1 DEF IInv, TypeOK
    <3> QED
      BY <3>1, <3>2 DEF Unwritten
  <2>2. CASE <<s, p>> \in HashesOf(sidecars)
    BY <2>2 DEF IInv, TypeOK, FreshInv, Unwritten
  <2> QED
    BY <1>4, <2>1, <2>2
<1>7. PrevInv'
  BY DEF IInv, TypeOK, PrevInv
<1>8. PendingInv'
  <2> SUFFICES ASSUME NEW s \in Recorders, pc'[s] \in {"head_tmp", "rename"}
               PROVE  Manifest(Mine(s), prev[s]) \in sidecars' /\ Mine(s) \notin Published
    BY <1>3 DEF PendingInv
  <2>1. CASE s = r
    BY <1>1, <2>1
  <2>2. CASE s # r
    BY <2>2 DEF IInv, TypeOK, PendingInv
  <2> QED
    BY <2>1, <2>2
<1>9. TmpInv' /\ DoneInv'
  BY <1>3 DEF IInv, TypeOK, TmpInv, DoneInv
<1>10. HistoryIntact'
  BY DEF IInv, HistoryIntact, SpineTip, OnSpine
<1>11. AckedOnSpine'
  BY <1>3 DEF IInv, AckedOnSpine
<1> QED
  BY <1>2, <1>5, <1>6, <1>7, <1>8, <1>9, <1>10, <1>11 DEF IInv

LEMMA WriteHeadTmpStep ==
    ASSUME IInv, TypeOK', NEW r \in Recorders, WriteHeadTmp(r)
    PROVE  IInv'
<1> USE DEF WriteHeadTmp, Goto, mine, Critical, Labels
<1>1. UniqueInv' /\ HistoryIntact' /\ Published' = Published
  BY HistoryKept
<1>2. LockInv'
  BY LockStep DEF IInv
<1>3. \A s \in Recorders : Mine(s)' = Mine(s)
  BY DEF Mine
<1>4. FreshInv' /\ PrevInv'
  BY DEF IInv, TypeOK, FreshInv, PrevInv, Unwritten
<1>5. PendingInv' /\ DoneInv'
  BY <1>1, <1>3 DEF IInv, TypeOK, PendingInv, DoneInv
<1>6. TmpInv'
  <2> SUFFICES ASSUME NEW s \in Recorders, pc'[s] = "rename"
               PROVE  Mine(s) = headTmp'
    BY <1>3 DEF TmpInv
  <2>1. pc'[r] \in Critical /\ pc'[s] \in Critical
    BY DEF IInv, TypeOK
  <2>2. s = r
    BY <1>2, <2>1 DEF LockInv
  <2> QED
    BY <2>2
<1>7. AckedOnSpine'
  BY <1>1 DEF IInv, AckedOnSpine
<1> QED
  BY <1>1, <1>2, <1>4, <1>5, <1>6, <1>7 DEF IInv

(* The step that publishes: the manifest head.tmp names is the recorder's  *)
(* own, on disk, and follows the head it replaces.                         *)
LEMMA Publishes ==
    ASSUME IInv, NEW r \in Recorders, RenameHead(r)
    PROVE  LET m == Manifest(Mine(r), head)
           IN  /\ m \in sidecars
               /\ head' = Mine(r)
               /\ spine' = Append(spine, m)
               /\ Mine(r) \notin Published
<1> USE DEF RenameHead, Goto
<1>1. headTmp = Mine(r) /\ prev[r] = head
  BY DEF IInv, TmpInv, PrevInv
<1>2. Manifest(Mine(r), head) \in sidecars /\ Mine(r) \notin Published
  BY <1>1 DEF IInv, PendingInv
<1>3. PICK m \in sidecars : m.this = Mine(r) /\ spine' = Append(spine, m)
  BY <1>1
<1>4. m = Manifest(Mine(r), head)
  BY <1>2, <1>3 DEF IInv, UniqueInv, NoDuplicate, Manifest
<1> QED
  BY <1>1, <1>2, <1>3, <1>4

LEMMA RenameHeadStep ==
    ASSUME IInv, TypeOK', NEW r \in Recorders, RenameHead(r)
    PROVE  IInv'
<1> USE DEF RenameHead, Goto, mine, Critical, Labels
<1> DEFINE m == Manifest(Mine(r), head)
<1>1. /\ m \in sidecars
      /\ head' = Mine(r)
      /\ spine' = Append(spine, m)
  BY Publishes
<1>2. spine \in Seq(Manifests) /\ m.this = Mine(r) /\ m.prev = head
  BY DEF IInv, TypeOK, Manifest
<1>3. /\ Len(spine') = Len(spine) + 1
      /\ spine'[Len(spine) + 1] = m
      /\ \A i \in 1 .. Len(spine) : spine'[i] = spine[i]
  BY <1>1, <1>2
<1>4. /\ DOMAIN spine = 1 .. Len(spine)
      /\ DOMAIN spine' = 1 .. Len(spine) + 1
      /\ Len(spine) \in Nat
  BY <1>1, <1>2, <1>3
<1>5. LockInv'
  BY LockStep DEF IInv
<1>6. ASSUME NEW s \in Recorders, s # r PROVE pc'[s] \notin Critical
  BY <1>6, OneInside DEF IInv, TypeOK
<1>7. pc'[r] = "read_log_tip" /\ \A s \in Recorders : Mine(s)' = Mine(s)
  BY DEF IInv, TypeOK, Mine
<1>8. UniqueInv' /\ FreshInv'
  BY <1>6, <1>7 DEF IInv, TypeOK, UniqueInv, FreshInv, Unwritten
<1>9. PrevInv' /\ PendingInv' /\ TmpInv' /\ DoneInv'
  BY <1>1, <1>6, <1>7 DEF PrevInv, PendingInv, TmpInv, DoneInv
<1>10. HistoryIntact'
  <2>1. head' = SpineTip'
    <3>1. spine' # <<>> /\ spine'[Len(spine')] = m
      BY <1>3, <1>4
    <3> QED
      BY <1>1, <1>2, <3>1 DEF SpineTip
  <2>2. OnSpine' \subseteq sidecars'
    BY <1>1, <1>3, <1>4 DEF IInv, HistoryIntact, OnSpine
  <2>3. ASSUME NEW i \in DOMAIN spine'
        PROVE  spine'[i].prev = IF i = 1 THEN Genesis ELSE spine'[i - 1].this
    <3>1. CASE i \in 1 .. Len(spine)
      BY <1>3, <1>4, <3>1 DEF IInv, HistoryIntact
    <3>2. CASE i = Len(spine) + 1
      <4>1. head = IF spine = <<>> THEN Genesis ELSE spine[Len(spine)].this
        BY DEF IInv, HistoryIntact, SpineTip
      <4>2. spine = <<>> <=> i = 1
        BY <1>2, <1>4, <3>2
      <4>3. i # 1 => spine'[i - 1] = spine[Len(spine)]
        <5>1. i # 1 => Len(spine) \in 1 .. Len(spine) /\ i - 1 = Len(spine)
          BY <1>4, <3>2
        <5> HIDE DEF m
        <5> QED
          BY <1>3, <5>1
      <4>4. spine'[i].prev = head
        BY <1>2, <1>3, <3>2
      <4> HIDE DEF m
      <4>5. CASE i = 1
        BY <4>1, <4>2, <4>4, <4>5
      <4>6. CASE i # 1
        BY <4>1, <4>2, <4>3, <4>4, <4>6
      <4> QED
        BY <4>5, <4>6
    <3> QED
      BY <1>4, <3>1, <3>2
  <2> QED
    BY <2>1, <2>2, <2>3 DEF HistoryIntact
<1>11. AckedOnSpine'
  BY <1>3, <1>4 DEF IInv, AckedOnSpine, Published
<1> QED
  BY <1>5, <1>8, <1>9, <1>10, <1>11 DEF IInv

LEMMA UnlockStep ==
    ASSUME IInv, TypeOK', NEW r \in Recorders, Unlock(r)
    PROVE  IInv'
<1> USE DEF Unlock, Goto, mine, disk, Critical, Labels
<1>1. UniqueInv' /\ HistoryIntact' /\ Published' = Published
  BY HistoryKept
<1>2. LockInv'
  BY LockStep DEF IInv
<1>3. \A s \in Recorders : Mine(s)' = Mine(s)
  BY DEF Mine
<1>4. FreshInv' /\ PrevInv' /\ TmpInv' /\ DoneInv'
  BY <1>3 DEF IInv, TypeOK, FreshInv, PrevInv, TmpInv, DoneInv, Unwritten
<1>5. PendingInv'
  BY <1>1, <1>3 DEF IInv, TypeOK, PendingInv
<1>6. AckedOnSpine'
  <2>1. head = Mine(r)
    BY DEF IInv, DoneInv
  <2>2. SpineTip # Genesis => SpineTip \in Published
    BY DEF IInv, TypeOK, SpineTip, Published
  <2>3. Mine(r) \in Published
    BY <2>1, <2>2, MineType DEF IInv, HistoryIntact
  <2> QED
    BY <1>1, <2>3 DEF IInv, AckedOnSpine
<1> QED
  BY <1>1, <1>2, <1>4, <1>5, <1>6 DEF IInv

LEMMA NextPartStep ==
    ASSUME IInv, TypeOK', NEW r \in Recorders, NextPart(r)
    PROVE  IInv'
<1> USE DEF NextPart, Goto, disk, Critical, Labels
<1>1. UniqueInv' /\ HistoryIntact' /\ Published' = Published
  BY HistoryKept
<1>2. LockInv'
  BY ChainAssumption DEF IInv, LockInv, TypeOK
<1>3. \A s \in Recorders : s # r => Mine(s)' = Mine(s)
  BY DEF IInv, TypeOK, Mine
<1>4. FreshInv'
  BY DEF IInv, TypeOK, FreshInv, Unwritten, Parts
<1>5. PrevInv' /\ TmpInv' /\ DoneInv'
  BY <1>3 DEF IInv, TypeOK, PrevInv, TmpInv, DoneInv
<1>6. PendingInv'
  BY <1>1, <1>3 DEF IInv, TypeOK, PendingInv
<1>7. AckedOnSpine'
  BY <1>1 DEF IInv, AckedOnSpine
<1> QED
  BY <1>1, <1>2, <1>4, <1>5, <1>6, <1>7 DEF IInv

(* The remaining actions move one label and touch at most the lock, the    *)
(* log and the fault counter.                                              *)
LEMMA OtherSteps ==
    ASSUME IInv, TypeOK', NEW r \in Recorders,
           \/ EndPart(r) \/ AcquireLock(r) \/ ReadLogTip(r) \/ AppendLog(r)
           \/ EndSession(r) \/ CallFails(r) \/ AppendFails(r) \/ Crash(r)
    PROVE  IInv'
<1> USE DEF Goto, mine, disk, Critical, Labels, Stopped, Unwritten, LockWithout
<1>1. CASE EndPart(r)
  <2>1. LockInv'
    BY <1>1, ChainAssumption DEF EndPart, IInv, TypeOK, LockInv
  <2> QED
    BY <1>1, <2>1, QuietStep DEF EndPart
<1>2. CASE AcquireLock(r)
  <2>1. LockInv'
    BY <1>2, LockStep DEF AcquireLock, LockFree, IInv
  <2> QED
    BY <1>2, <2>1, QuietStep DEF AcquireLock
<1>3. CASE ReadLogTip(r)
  <2>1. LockInv'
    BY <1>3, LockStep DEF ReadLogTip, IInv
  <2> QED
    BY <1>3, <2>1, QuietStep DEF ReadLogTip
<1>4. CASE AppendLog(r)
  <2>1. LockInv'
    BY <1>4, LockStep DEF AppendLog, IInv
  <2> QED
    BY <1>4, <2>1, QuietStep DEF AppendLog
<1>5. CASE EndSession(r)
  <2>1. LockInv'
    BY <1>5, ChainAssumption DEF EndSession, IInv, TypeOK, LockInv
  <2> QED
    BY <1>5, <2>1, QuietStep DEF EndSession
<1>6. CASE CallFails(r)
  <2>1. LockInv'
    BY <1>6, LockStep DEF CallFails, IInv
  <2> QED
    BY <1>6, <2>1, QuietStep DEF CallFails
<1>7. CASE AppendFails(r)
  <2>1. LockInv'
    BY <1>7, LockStep DEF AppendFails, IInv
  <2> QED
    BY <1>7, <2>1, QuietStep DEF AppendFails
<1>8. CASE Crash(r)
  <2>1. LockInv'
    BY <1>8, LockStep DEF Crash, IInv
  <2> QED
    BY <1>8, <2>1, QuietStep DEF Crash
<1> QED
  BY <1>1, <1>2, <1>3, <1>4, <1>5, <1>6, <1>7, <1>8

LEMMA InvStep ==
    ASSUME IInv, [Next]_vars
    PROVE  IInv'
<1>1. TypeOK'
  BY TypeStep DEF IInv
<1>2. ASSUME NEW r \in Recorders, Commit(r) \/ Session(r) \/ Faulty(r)
      PROVE  IInv'
  BY <1>1, <1>2, ReadHeadStep, WriteSidecarStep, WriteHeadTmpStep,
     RenameHeadStep, UnlockStep, NextPartStep, OtherSteps
     DEF Commit, Session, Faulty
<1>3. CASE UNCHANGED vars
  <2>1. \A s \in Recorders : Mine(s)' = Mine(s)
    BY <1>3 DEF vars, mine, Mine
  <2>2. UniqueInv' /\ HistoryIntact' /\ Published' = Published
    BY <1>3, HistoryKept DEF vars, disk
  <2>3. LockInv' /\ FreshInv' /\ PrevInv' /\ TmpInv' /\ DoneInv'
    BY <1>3, <2>1
       DEF vars, disk, mine, IInv, LockInv, FreshInv, PrevInv, TmpInv, DoneInv
  <2>4. PendingInv' /\ AckedOnSpine'
    BY <1>3, <2>1, <2>2 DEF vars, disk, mine, IInv, PendingInv, AckedOnSpine
  <2> QED
    BY <1>1, <2>2, <2>3, <2>4 DEF IInv
<1> QED
  BY <1>2, <1>3 DEF Next, AllStopped

(* The inductive invariant of the lock, the head and the history.          *)
THEOREM Invariance == Spec => []IInv
BY InvInit, InvStep, PTL DEF Spec
-----------------------------------------------------------------------------
(* What follows: the history ***********************************************)

(* head.hash always ends one intact history of manifests that are on disk, *)
(* for any number of recorders, whatever calls fail or processes die.      *)
THEOREM HistoryAlwaysIntact == Spec => []HistoryIntact
BY Invariance, PTL DEF IInv

(* Every hash write_manifest_and_advance returned with Ok is in it.        *)
THEOREM AckedAlwaysPublished == Spec => []AckedOnSpine
BY Invariance, PTL DEF IInv

(* A step that changes head.hash moves it to a manifest on disk that       *)
(* follows the one it named.                                               *)
LEMMA HeadStep ==
    ASSUME IInv, [Next]_vars
    PROVE  head' # head =>
               \E m \in sidecars : m.this = head' /\ m.prev = head
<1>1. ASSUME NEW r \in Recorders, RenameHead(r)
      PROVE  \E m \in sidecars : m.this = head' /\ m.prev = head
  BY <1>1, Publishes DEF Manifest
<1>2. ASSUME NEW r \in Recorders, Commit(r) \/ Session(r) \/ Faulty(r),
             ~RenameHead(r)
      PROVE  head' = head
  BY <1>2 DEF Commit, Session, Faulty, EndPart, AcquireLock, ReadHead,
     WriteSidecar, WriteHeadTmp, ReadLogTip, AppendLog, Unlock, NextPart,
     EndSession, CallFails, AppendFails, Crash, disk
<1>3. CASE UNCHANGED vars
  BY <1>3 DEF vars, disk
<1> QED
  BY <1>1, <1>2, <1>3 DEF Next, AllStopped

(* RenameHead puts into head.hash only a manifest on disk that follows the *)
(* one head.hash names, and no other call writes it.                       *)
THEOREM HeadOnlyAdvances == Spec => HeadAdvances
<1>1. IInv /\ [Next]_vars =>
        [head' # head =>
            \E m \in sidecars : m.this = head' /\ m.prev = head]_vars
  BY HeadStep
<1> QED
  BY <1>1, Invariance, PTL DEF Spec, HeadAdvances

(* Every step of the chain is a step of the ledger or changes nothing the  *)
(* ledger knows of.                                                        *)
LEMMA LedgerInit == Init => L!Init
<1>1. FreshHost => spine = <<>>
  BY DEF FreshHost
<1>2. UpgradedHost => \E h \in Hashes : spine = <<L!Entry(h, Genesis)>>
  BY DEF UpgradedHost, Hashes, Manifest, L!Entry
<1> QED
  BY <1>1, <1>2 DEF Init, L!Init

LEMMA LedgerStep ==
    ASSUME IInv, [Next]_vars
    PROVE  [L!Next]_(L!vars)
<1> USE DEF L!vars
<1>1. ASSUME NEW r \in Recorders, RenameHead(r) PROVE L!Next
  <2>1. /\ spine' = Append(spine, Manifest(Mine(r), head))
        /\ Mine(r) \notin Published
    BY <1>1, Publishes
  <2>2. head = L!Tip
    BY DEF IInv, HistoryIntact, SpineTip, L!Tip
  <2>3. L!Extend(Mine(r))
    BY <1>1, <2>1, <2>2
       DEF RenameHead, L!Extend, L!Entry, L!InHistory, Published, Manifest
  <2> QED
    BY <2>3, MineType DEF L!Next, IInv
<1>2. ASSUME NEW r \in Recorders, Unlock(r) PROVE [L!Next]_(L!vars)
  <2>1. acked' = acked \cup {Mine(r)} /\ spine' = spine
    BY <1>2 DEF Unlock, disk
  <2>2. Mine(r) \in Published
    <3>1. AckedOnSpine' /\ Published' = Published
      BY <2>1, InvStep DEF IInv, Published
    <3> QED
      BY <2>1, <3>1 DEF AckedOnSpine
  <2>3. CASE Mine(r) \in acked
    BY <2>1, <2>3
  <2>4. CASE Mine(r) \notin acked
    <3>1. L!Acknowledge(Mine(r))
      BY <2>1, <2>2, <2>4 DEF L!Acknowledge, L!InHistory, Published
    <3> QED
      BY <3>1, MineType DEF L!Next, IInv
  <2> QED
    BY <2>3, <2>4
<1>3. ASSUME NEW r \in Recorders, Commit(r) \/ Session(r) \/ Faulty(r),
             ~RenameHead(r), ~Unlock(r)
      PROVE  UNCHANGED L!vars
  BY <1>3 DEF Commit, Session, Faulty, EndPart, AcquireLock, ReadHead,
     WriteSidecar, WriteHeadTmp, ReadLogTip, AppendLog, NextPart,
     EndSession, CallFails, AppendFails, Crash, disk
<1>4. CASE UNCHANGED vars
  BY <1>4 DEF vars, disk
<1> QED
  BY <1>1, <1>2, <1>3, <1>4 DEF Next, AllStopped

(* The chain of files, locks and processes implements the ledger, faults   *)
(* included.                                                               *)
THEOREM ImplementsLedger == Spec => LedgerSpec
<1>1. IInv /\ [Next]_vars => [L!Next]_(L!vars)
  BY LedgerStep
<1> QED
  BY <1>1, LedgerInit, Invariance, PTL DEF Spec, LedgerSpec, L!Spec
-----------------------------------------------------------------------------
(* head.hash.log **********************************************************)

(* What the line at i of an undamaged log links to.                        *)
LinkAt(lines, i) ==
    IF i = 1 \/ lines[i - 1].fields = "legacy" THEN Genesis
    ELSE lines[i - 1].log_hash

(* A line written in full: signed over its link, or the old build's one.   *)
WholeLine(lines, i) ==
    /\ lines[i].eol /\ lines[i].valid
    /\ \/ lines[i].fields = "signed" /\ lines[i].log_prev = LinkAt(lines, i)
       \/ lines[i].fields = "legacy" /\ i = 1

(* Every line but the last is whole.                                       *)
FrontInv == \A i \in 1 .. Len(log) - 1 : WholeLine(log, i)

(* The last line, when a newline ends it, is whole or has a number of      *)
(* fields nobody parses; and its link is good if its signature is.         *)
TailInv ==
    log # <<>> =>
        LET last == LastLine(log)
        IN  /\ last.eol => last.fields = "other" \/ WholeLine(log, Len(log))
            /\ last.fields = "signed" /\ last.valid =>
                last.log_prev = LinkAt(log, Len(log))

(* Lines name manifests that head.hash has named, or none if mangled.      *)
NamesInv ==
    \A i \in DOMAIN log :
        \/ log[i].manifest_hash \in Published
        \/ log[i].manifest_hash = Nothing /\ ~log[i].valid

(* What the recorder inside knows of the log: that no line names its       *)
(* manifest yet, that it may append, and which line it has appended.       *)
WriterInv ==
    \A r \in Recorders :
        /\ pc[r] \in {"read_log_tip", "append"} =>
            \A i \in DOMAIN log : log[i].manifest_hash # Mine(r)
        /\ pc[r] = "append" => LogTipReadable(log) /\ logPrev[r] = LogTip(log)
        /\ pc[r] = "unlock" =>
            /\ log # <<>>
            /\ \/ LastLine(log).fields = "other"
               \/ /\ WholeLine(log, Len(log))
                  /\ LastLine(log).fields = "signed"
                  /\ LastLine(log).manifest_hash = Mine(r)

(* As long as verify_log accepts the log, every acknowledged hash has a    *)
(* whole line; a short write can no longer change that one.                *)
AckedLineInv ==
    VerifyLog(log) =>
        \A h \in acked : \E i \in DOMAIN log :
            WholeLine(log, i) /\ log[i].manifest_hash = h

LogInv ==
    /\ FrontInv
    /\ TailInv
    /\ NamesInv
    /\ WriterInv
    /\ AckedLineInv
    /\ LogFollowsSpine
-----------------------------------------------------------------------------
(* What a write does to the log ********************************************)

(* The unterminated last line became t, which matches no signature.        *)
Spoiled(t) ==
    /\ log # <<>> /\ ~LastLine(log).eol
    /\ log' = [log EXCEPT ![Len(log)] = t]
    /\ t.manifest_hash = Nothing /\ ~t.valid
    /\ t.eol => t.fields = "other"
    /\ t.fields = "legacy" => LastLine(log).fields = "legacy"

(* Recorder r added the line t, whole or cut short.                        *)
Added(r, t) ==
    /\ ~Unterminated(log)
    /\ log' = Append(log, t)
    /\ t.manifest_hash \in {Mine(r), Nothing}
    /\ t.valid => t.manifest_hash = Mine(r)
    /\ t.fields = "signed" /\ t.valid => t.log_prev = LogTip(log)
    /\ t.eol => t.fields = "signed" /\ t.valid /\ t.manifest_hash = Mine(r)

LEMMA AppendLogWrites ==
    ASSUME IInv, WriterInv, NEW r \in Recorders, AppendLog(r)
    PROVE  \/ \E t \in Lines : Spoiled(t) /\ t.fields = "other"
           \/ \E t \in Lines : Added(r, t) /\ t.eol
<1> DEFINE line == SignedLine(Mine(r), logPrev[r])
<1>1. log' = AppendLine(log, line) /\ logPrev[r] = LogTip(log)
  BY DEF AppendLog, Goto, WriterInv
<1>2. CASE Unterminated(log)
  <2>1. Mangled("other", TRUE, Nothing) \in Lines
    BY DEF Mangled, Lines, FieldCounts
  <2>2. Spoiled(Mangled("other", TRUE, Nothing))
    BY <1>1, <1>2 DEF AppendLine, Spoiled, Unterminated, Mangled
  <2> QED
    BY <2>1, <2>2 DEF Mangled
<1>3. CASE ~Unterminated(log)
  <2>1. line \in Lines
    BY MineType, LineType DEF IInv, TypeOK
  <2>2. Added(r, line) /\ line.eol
    BY <1>1, <1>3 DEF AppendLine, Added, SignedLine
  <2> QED
    BY <2>1, <2>2
<1> QED
  BY <1>2, <1>3

LEMMA AppendFailsWrites ==
    ASSUME IInv, WriterInv, NEW r \in Recorders, AppendFails(r)
    PROVE  \E t \in Lines : Spoiled(t) \/ Added(r, t)
<1> DEFINE line == SignedLine(Mine(r), logPrev[r])
<1>1. log' \in AppendTornLine(log, line) /\ logPrev[r] = LogTip(log)
  BY DEF AppendFails, Goto, WriterInv
<1>2. CASE Unterminated(log)
  <2> DEFINE tail == LastLine(log)
  <2>1. log # <<>> /\ ~tail.eol /\ tail \in Lines
    BY <1>2, LastLineType DEF Unterminated, IInv, TypeOK
  <2>2. PICK t \in TornTails(tail) : log' = [log EXCEPT ![Len(log)] = t]
    BY <1>1, <1>2 DEF AppendTornLine
  <2>3. /\ t.manifest_hash = Nothing /\ t.valid = FALSE /\ t.eol = FALSE
        /\ t.fields = "legacy" => tail.fields = "legacy"
    BY <2>2 DEF TornTails, Mangled
  <2>4. t \in Lines
    <3>1. ASSUME NEW n \in FieldCounts, NEW hash \in Hashes \cup {Nothing}
          PROVE  Mangled(n, FALSE, hash) \in Lines
      BY DEF Mangled, Lines
    <3>2. tail.log_hash \in Hashes \cup {Nothing}
      BY <2>1 DEF Lines
    <3> HIDE DEF tail
    <3>3. \/ t = Mangled("other", FALSE, Nothing)
          \/ t = Mangled("signed", FALSE, tail.log_hash)
          \/ t = Mangled("legacy", FALSE, Nothing)
      BY <2>2 DEF TornTails
    <3> QED
      BY <3>1, <3>2, <3>3 DEF FieldCounts
  <2> QED
    BY <2>1, <2>2, <2>3, <2>4 DEF Spoiled
<1>3. CASE ~Unterminated(log)
  <2>1. PICK t \in TornLines(line) : log' = Append(log, t)
    BY <1>1, <1>3 DEF AppendTornLine
  <2>2. t \in Lines
    BY <2>1, MineType, LineType DEF IInv, TypeOK
  <2>3. /\ t.eol = FALSE
        /\ t.manifest_hash \in {Mine(r), Nothing}
        /\ t.valid => t.manifest_hash = Mine(r)
        /\ t.fields = "signed" /\ t.valid => t.log_prev = logPrev[r]
    <3>1. /\ line.manifest_hash = Mine(r) /\ line.log_prev = logPrev[r]
          /\ line \in Lines
      BY MineType, LineType DEF SignedLine, IInv, TypeOK
    <3> HIDE DEF line
    <3>2. CASE t \in {[line EXCEPT !.eol = FALSE],
                      [line EXCEPT !.eol = FALSE, !.valid = FALSE]}
      BY <3>1, <3>2 DEF Lines
    <3>3. CASE t = [LegacyLine(line.manifest_hash) EXCEPT !.eol = FALSE]
      BY <3>1, <3>3 DEF LegacyLine
    <3>4. CASE t \in {Mangled("legacy", FALSE, Nothing),
                      Mangled("other", FALSE, Nothing)}
      BY <3>4 DEF Mangled
    <3> QED
      BY <2>1, <3>2, <3>3, <3>4 DEF TornLines
  <2> QED
    BY <1>1, <1>3, <2>1, <2>2, <2>3 DEF Added
<1> QED
  BY <1>2, <1>3
-----------------------------------------------------------------------------
(* What verify_log says of a log ********************************************)

LineOK(lines, i) ==
    \/ lines[i].fields = "legacy" /\ LegacyLineOK(lines, i)
    \/ lines[i].fields = "signed" /\ SignedLineOK(lines, i)

(* After whole lines, what verify_log expects is what the line before says *)
LEMMA ExpectedAfterWhole ==
    ASSUME NEW lines \in Seq(Lines), NEW i \in Nat \ {0}, i <= Len(lines) + 1,
           \A j \in 1 .. i - 1 : WholeLine(lines, j)
    PROVE  /\ ExpectedPrev(lines, i) = LinkAt(lines, i)
           /\ LegacyLineOK(lines, i) <=> i = 1 \/ lines[i - 1].fields = "legacy"
<1> DEFINE earlier == SignedBefore(lines, i)
<1>1. \A j \in 1 .. i - 1 :
          \/ lines[j].fields = "signed"
          \/ lines[j].fields = "legacy" /\ j = 1
  BY DEF WholeLine
<1>2. CASE i = 1
  BY <1>2 DEF SignedBefore, ExpectedPrev, LinkAt, LegacyLineOK
<1>3. CASE i # 1 /\ lines[i - 1].fields = "legacy"
  <2>1. i - 1 = 1
    BY <1>1, <1>3
  <2>2. earlier = {}
    BY <1>3, <2>1 DEF SignedBefore
  <2> QED
    BY <1>3, <2>2 DEF ExpectedPrev, LinkAt, LegacyLineOK
<1>4. CASE i # 1 /\ lines[i - 1].fields = "signed"
  <2>1. i - 1 \in earlier /\ \A k \in earlier : k \in Nat /\ k <= i - 1
    BY <1>4 DEF SignedBefore
  <2>2. \A j \in earlier : (\A k \in earlier : k <= j) => j = i - 1
    BY <2>1
  <2> HIDE DEF earlier
  <2>3. (CHOOSE j \in earlier : \A k \in earlier : k <= j) = i - 1
    BY <2>1, <2>2
  <2> QED
    BY <1>4, <2>1, <2>3 DEF ExpectedPrev, LinkAt, LegacyLineOK, earlier
<1> QED
  BY <1>1, <1>2, <1>3, <1>4

LEMMA WholeLineOK ==
    ASSUME NEW lines \in Seq(Lines), NEW i \in 1 .. Len(lines),
           \A j \in 1 .. i : WholeLine(lines, j)
    PROVE  LineOK(lines, i)
<1>1. /\ ExpectedPrev(lines, i) = LinkAt(lines, i)
      /\ LegacyLineOK(lines, i) <=> i = 1 \/ lines[i - 1].fields = "legacy"
  BY ExpectedAfterWhole
<1> QED
  BY <1>1 DEF WholeLine, LineOK, SignedLineOK

(* Whether a line is whole depends on that line and the one before it.     *)
LEMMA WholePrefix ==
    ASSUME NEW a \in Seq(Lines), NEW b \in Seq(Lines), NEW n \in Nat,
           \A j \in 1 .. n : a[j] = b[j]
    PROVE  \A i \in 1 .. n : WholeLine(a, i) <=> WholeLine(b, i)
BY DEF WholeLine, LinkAt

(* verify_log accepts a log whose front is whole as soon as it accepts the *)
(* last line.                                                              *)
LEMMA VerdictAtTail ==
    ASSUME NEW lines \in Seq(Lines), lines # <<>>,
           \A i \in 1 .. Len(lines) - 1 : WholeLine(lines, i)
    PROVE  VerifyLog(lines) <=> LineOK(lines, Len(lines))
<1>1. \A i \in 1 .. Len(lines) - 1 : LineOK(lines, i)
  BY WholeLineOK
<1>2. DOMAIN lines = 1 .. Len(lines) /\ Len(lines) \in Nat \ {0}
  OBVIOUS
<1> QED
  BY <1>1, <1>2 DEF VerifyLog, LineOK
-----------------------------------------------------------------------------
(* What a write keeps ******************************************************)

(* A spoiled tail was the last line and stays it.  A legacy line becomes   *)
(* another one or a line verify_log refuses.                               *)
LEMMA SpoiledKeeps ==
    ASSUME log \in Seq(Lines), FrontInv, NEW t \in Lines, Spoiled(t)
    PROVE  /\ log' \in Seq(Lines) /\ Len(log') = Len(log)
           /\ \A i \in 1 .. Len(log) - 1 : log'[i] = log[i]
           /\ LastLine(log)' = t
           /\ FrontInv' /\ TailInv'
           /\ VerifyLog(log)' => VerifyLog(log)
<1> DEFINE n == Len(log)
<1>1. n \in Nat \ {0} /\ DOMAIN log = 1 .. n
  BY DEF Spoiled
<1>2. log' = [log EXCEPT ![n] = t]
  BY DEF Spoiled
<1>3. /\ log' \in Seq(Lines) /\ Len(log') = n
      /\ log'[n] = t
      /\ \A i \in 1 .. n - 1 : log'[i] = log[i]
  <2> HIDE DEF n
  <2>1. Len(log) = n /\ n \in 1 .. n
    BY <1>1 DEF n
  <2> QED
    BY <1>1, <1>2, <2>1
<1> HIDE DEF n
<1>4. \A i \in 1 .. n - 1 : WholeLine(log', i) <=> WholeLine(log, i)
  <2> DEFINE k == n - 1
  <2>1. k \in Nat /\ \A j \in 1 .. k : log'[j] = log[j]
    BY <1>1, <1>3
  <2> HIDE DEF k
  <2>2. \A i \in 1 .. k : WholeLine(log', i) <=> WholeLine(log, i)
    BY <1>3, <2>1, WholePrefix
  <2> QED
    BY <2>2 DEF k
<1>5. FrontInv'
  BY <1>3, <1>4 DEF FrontInv, n
<1>6. LastLine(log)' = t
  BY <1>3 DEF LastLine
<1>7. TailInv'
  BY <1>6 DEF TailInv, Spoiled
<1>8. ASSUME VerifyLog(log') PROVE VerifyLog(log)
  <2>1. LineOK(log', n)
    BY <1>1, <1>3, <1>8 DEF VerifyLog, LineOK
  <2>2. t.fields = "legacy"
    BY <1>3, <2>1 DEF LineOK, SignedLineOK, Spoiled
  <2>3. log[n].fields = "legacy"
    BY <2>2 DEF Spoiled, LastLine, n
  <2>4. n = 1 \/ log'[n - 1].fields = "legacy"
    <3>1. \A j \in 1 .. n - 1 : WholeLine(log', j)
      BY <1>4 DEF FrontInv, n
    <3> QED
      BY <1>1, <1>3, <2>1, <2>2, <3>1, ExpectedAfterWhole
         DEF LineOK
  <2>5. LegacyLineOK(log, n)
    <3>1. n = 1 \/ log[n - 1].fields = "legacy"
      BY <1>1, <1>3, <2>4
    <3> QED
      BY <1>1, <3>1, ExpectedAfterWhole DEF FrontInv, n
  <2>6. LineOK(log, n)
    BY <2>3, <2>5 DEF LineOK
  <2> QED
    BY <1>1, <2>6, VerdictAtTail DEF FrontInv, n
<1> QED
  BY <1>3, <1>5, <1>6, <1>7, <1>8 DEF n

(* A line is added after lines that are all whole.                         *)
LEMMA AddedKeeps ==
    ASSUME log \in Seq(Lines), FrontInv, TailInv, LogTipReadable(log),
           NEW r \in Recorders, NEW t \in Lines, Added(r, t)
    PROVE  /\ log' \in Seq(Lines) /\ Len(log') = Len(log) + 1
           /\ \A i \in 1 .. Len(log) : log'[i] = log[i]
           /\ LastLine(log)' = t
           /\ \A i \in 1 .. Len(log) : WholeLine(log, i)
           /\ FrontInv' /\ TailInv'
           /\ VerifyLog(log)
           /\ t.eol => WholeLine(log', Len(log'))
<1> DEFINE n == Len(log)
<1>1. n \in Nat /\ DOMAIN log = 1 .. n
  OBVIOUS
<1>2. log' = Append(log, t)
  BY DEF Added
<1>3. /\ log' \in Seq(Lines) /\ Len(log') = n + 1
      /\ log'[n + 1] = t
      /\ \A i \in 1 .. n : log'[i] = log[i]
  BY <1>1, <1>2
<1>4. LastLine(log)' = t
  BY <1>3 DEF LastLine
<1>5. \A i \in 1 .. n : WholeLine(log, i)
  <2>1. n # 0 => WholeLine(log, n)
    BY <1>1 DEF TailInv, LogTipReadable, Added, Unterminated, LastLine
  <2> QED
    BY <1>1, <2>1 DEF FrontInv
<1> HIDE DEF n
<1>6. \A i \in 1 .. n : WholeLine(log', i)
  BY <1>1, <1>3, <1>5, WholePrefix
<1>7. FrontInv'
  BY <1>1, <1>3, <1>6 DEF FrontInv
<1>8. LogTip(log) = LinkAt(log', n + 1)
  <2>1. CASE n = 0
    BY <1>1, <2>1 DEF LogTip, LinkAt, n
  <2>2. CASE n # 0
    <3>1. log # <<>> /\ LastLine(log) = log'[n]
      BY <1>1, <1>3, <2>2 DEF LastLine, n
    <3> QED
      BY <1>1, <2>2, <3>1 DEF LogTip, LinkAt
  <2> QED
    BY <2>1, <2>2
<1>9. t.eol => WholeLine(log', n + 1)
  BY <1>3, <1>8 DEF WholeLine, Added
<1>10. TailInv'
  BY <1>3, <1>4, <1>8, <1>9 DEF TailInv, Added
<1>11. VerifyLog(log)
  BY <1>1, <1>5, WholeLineOK DEF VerifyLog, LineOK, n
<1> QED
  BY <1>3, <1>4, <1>5, <1>7, <1>9, <1>10, <1>11 DEF n
-----------------------------------------------------------------------------
(* The log is inductive ****************************************************)

(* While a recorder holds the tip of the history, the history ends with    *)
(* its manifest.                                                           *)
LEMMA MineEndsSpine ==
    ASSUME IInv, NEW r \in Recorders,
           pc[r] \in {"read_log_tip", "append", "unlock"}
    PROVE  /\ Len(spine) \in DOMAIN spine
           /\ spine[Len(spine)].this = Mine(r)
           /\ Mine(r) \in Published
<1>1. spine \in Seq(Manifests) /\ Mine(r) # Genesis /\ SpineTip = Mine(r)
  BY MineType DEF IInv, TypeOK, DoneInv, HistoryIntact
<1>2. spine # <<>> /\ spine[Len(spine)].this = Mine(r)
  BY <1>1 DEF SpineTip
<1>3. Len(spine) \in DOMAIN spine
  BY <1>1, <1>2
<1> QED
  BY <1>2, <1>3 DEF Published

LEMMA LogInit == Init => LogInv
<1> SUFFICES ASSUME Init PROVE LogInv
  OBVIOUS
<1> USE DEF Init
<1>1. CASE FreshHost
  BY <1>1 DEF FreshHost, LogInv, FrontInv, TailInv, NamesInv, WriterInv,
     AckedLineInv, LogFollowsSpine
<1>2. CASE UpgradedHost
  <2>1. /\ Len(log) = 1 /\ DOMAIN log = {1} /\ log # <<>>
        /\ log[1] = LegacyLine(OldManifest)
    BY <1>2 DEF UpgradedHost
  <2>2. DOMAIN spine = {1} /\ spine[1] = Manifest(OldManifest, Genesis)
    BY <1>2 DEF UpgradedHost
  <2>3. FrontInv /\ TailInv
    BY <2>1 DEF FrontInv, TailInv, LastLine, WholeLine, LegacyLine
  <2>4. NamesInv
    BY <2>1, <2>2 DEF NamesInv, Published, LegacyLine, Manifest
  <2>5. WriterInv /\ AckedLineInv /\ LogFollowsSpine
    BY <2>1 DEF WriterInv, AckedLineInv, LogFollowsSpine
  <2> QED
    BY <2>3, <2>4, <2>5 DEF LogInv
<1> QED
  BY <1>1, <1>2

(* A step that leaves the log alone keeps what is said of its lines, as    *)
(* long as the history only grows.                                         *)
LEMMA LogKept ==
    ASSUME IInv, LogInv, log' = log,
           \/ spine' = spine
           \/ \E m \in Manifests : spine' = Append(spine, m)
    PROVE  FrontInv' /\ TailInv' /\ NamesInv' /\ LogFollowsSpine'
<1>1. FrontInv' /\ TailInv'
  BY DEF LogInv, FrontInv, TailInv, WholeLine, LinkAt, LastLine
<1>2. spine \in Seq(Manifests)
  BY DEF IInv, TypeOK
<1>3. /\ DOMAIN spine \subseteq DOMAIN spine'
      /\ \A i \in DOMAIN spine : spine'[i] = spine[i]
  BY <1>2
<1>4. Published \subseteq Published'
  BY <1>3 DEF Published
<1>5. NamesInv'
  BY <1>4 DEF LogInv, NamesInv
<1>6. LogFollowsSpine'
  BY <1>3 DEF LogInv, LogFollowsSpine
<1> QED
  BY <1>1, <1>5, <1>6

(* A step that leaves the log alone and acknowledges nothing.              *)
LEMMA AckedLineKept ==
    ASSUME LogInv, UNCHANGED <<log, acked>>
    PROVE  AckedLineInv'
BY DEF LogInv, AckedLineInv

(* A write to the log changes its last line or adds one; either way the    *)
(* lines before are as they were.                                          *)
LEMMA WriteKeeps ==
    ASSUME IInv, LogInv, NEW r \in Recorders, pc[r] = "append",
           NEW t \in Lines, Spoiled(t) \/ Added(r, t),
           UNCHANGED <<spine, acked>>
    PROVE  FrontInv' /\ TailInv' /\ NamesInv' /\ AckedLineInv' /\ LogFollowsSpine'
<1> DEFINE n == Len(log')
<1>1. /\ log \in Seq(Lines) /\ spine \in Seq(Manifests)
      /\ LogTipReadable(log)
      /\ \A i \in DOMAIN log : log[i].manifest_hash # Mine(r)
  BY DEF LogInv, IInv, TypeOK, WriterInv
<1>2. /\ log' \in Seq(Lines) /\ FrontInv' /\ TailInv' /\ LastLine(log)' = t
      /\ log' # <<>>
      /\ VerifyLog(log)' => VerifyLog(log)
      /\ \A i \in 1 .. n - 1 : log'[i] = log[i]
      /\ n - 1 <= Len(log)
      /\ \A i \in 1 .. Len(log) : WholeLine(log, i) => i <= n - 1
  <2>1. CASE Spoiled(t)
    <3>1. \A i \in 1 .. Len(log) : WholeLine(log, i) => i # Len(log)
      BY <2>1 DEF Spoiled, WholeLine, LastLine
    <3>2. /\ log' \in Seq(Lines) /\ Len(log') = Len(log)
          /\ \A i \in 1 .. Len(log) - 1 : log'[i] = log[i]
          /\ LastLine(log)' = t /\ FrontInv' /\ TailInv'
          /\ VerifyLog(log)' => VerifyLog(log)
      BY <1>1, <2>1, SpoiledKeeps DEF LogInv
    <3>3. log # <<>>
      BY <2>1 DEF Spoiled
    <3>4. Len(log) \in Nat \ {0}
      BY <1>1, <3>3
    <3> QED
      BY <1>1, <3>1, <3>2, <3>4
  <2>2. CASE Added(r, t)
    BY <1>1, <2>2, AddedKeeps DEF LogInv
  <2> QED
    BY <2>1, <2>2
<1>3. /\ n \in Nat \ {0} /\ DOMAIN log' = 1 .. n /\ DOMAIN log = 1 .. Len(log)
      /\ log'[n] = t
  BY <1>1, <1>2 DEF LastLine
<1>4. /\ t.manifest_hash \in {Mine(r), Nothing}
      /\ t.valid => t.manifest_hash = Mine(r)
  BY DEF Spoiled, Added
<1>5. /\ Mine(r) \in Published /\ Len(spine) \in DOMAIN spine
      /\ spine[Len(spine)].this = Mine(r)
  BY MineEndsSpine
<1> HIDE DEF n
<1>6. NamesInv'
  <2> SUFFICES ASSUME NEW i \in DOMAIN log'
               PROVE  \/ log'[i].manifest_hash \in Published
                      \/ log'[i].manifest_hash = Nothing /\ ~log'[i].valid
    BY DEF NamesInv, Published
  <2>1. CASE i = n
    BY <1>3, <1>4, <1>5, <2>1
  <2>2. CASE i # n
    BY <1>2, <1>3, <2>2 DEF LogInv, NamesInv
  <2> QED
    BY <2>1, <2>2
<1>7. AckedLineInv'
  <2> SUFFICES ASSUME VerifyLog(log'), NEW h \in acked
               PROVE  \E i \in DOMAIN log' :
                          WholeLine(log', i) /\ log'[i].manifest_hash = h
    BY DEF AckedLineInv
  <2>1. PICK i \in DOMAIN log : WholeLine(log, i) /\ log[i].manifest_hash = h
    BY <1>2 DEF LogInv, AckedLineInv
  <2>2. i \in 1 .. n - 1
    BY <1>2, <1>3, <2>1
  <2>3. WholeLine(log', i)
    BY <1>2, <1>3, <2>1, <2>2 DEF WholeLine, LinkAt
  <2> QED
    BY <1>2, <1>3, <2>1, <2>2, <2>3
<1>8. LogFollowsSpine'
  <2> SUFFICES ASSUME NEW i \in DOMAIN log', NEW j \in DOMAIN log', i < j,
                      log'[i].manifest_hash \in Hashes,
                      log'[j].manifest_hash \in Hashes
               PROVE  \E k, l \in DOMAIN spine :
                          /\ k < l
                          /\ spine[k].this = log'[i].manifest_hash
                          /\ spine[l].this = log'[j].manifest_hash
    BY DEF LogFollowsSpine
  <2>1. i \in DOMAIN log /\ log'[i] = log[i]
    BY <1>2, <1>3
  <2>2. CASE j = n
    <3>1. log'[j].manifest_hash = Mine(r)
      BY <1>3, <1>4, <2>2, ChainAssumption
    <3>2. PICK k \in DOMAIN spine : spine[k].this = log[i].manifest_hash
      BY <2>1, ChainAssumption DEF LogInv, NamesInv, Published
    <3>3. k # Len(spine)
      BY <1>1, <1>5, <2>1, <3>2
    <3>4. k < Len(spine)
      BY <1>1, <3>3
    <3> QED
      BY <1>5, <2>1, <3>1, <3>2, <3>4
  <2>3. CASE j # n
    <3>1. j \in DOMAIN log /\ log'[j] = log[j]
      BY <1>2, <1>3, <2>3
    <3> QED
      BY <2>1, <3>1 DEF LogInv, LogFollowsSpine
  <2> QED
    BY <2>2, <2>3
<1> QED
  BY <1>2, <1>6, <1>7, <1>8

Writing == {"read_log_tip", "append", "unlock"}

(* A recorder that goes anywhere but into the writing of its line leaves   *)
(* the log, and what the others know of it, alone.                         *)
LEMMA WriterKept ==
    ASSUME IInv, WriterInv, NEW r \in Recorders,
           NEW to \in Labels \ Writing, pc' = [pc EXCEPT ![r] = to],
           \A s \in Recorders : s # r => /\ part'[s] = part[s]
                                         /\ logPrev'[s] = logPrev[s],
           log' = log
    PROVE  WriterInv'
<1> SUFFICES ASSUME NEW s \in Recorders, pc'[s] \in Writing
             PROVE  /\ s # r /\ pc'[s] = pc[s] /\ Mine(s)' = Mine(s)
                    /\ logPrev'[s] = logPrev[s]
  BY DEF WriterInv, Writing, LastLine, WholeLine, LinkAt, LogTipReadable, LogTip
<1> QED
  BY DEF IInv, TypeOK, Mine

(* Only one recorder writes at a time.                                     *)
LEMMA OneWriter ==
    ASSUME IInv, NEW r \in Recorders, pc[r] \in Critical,
           NEW to \in Labels, pc' = [pc EXCEPT ![r] = to]
    PROVE  \A s \in Recorders : pc'[s] \in Writing => s = r /\ to \in Writing
<1> SUFFICES ASSUME NEW s \in Recorders, s # r PROVE pc'[s] \notin Writing
  BY DEF IInv, TypeOK
<1>1. pc[s] \notin Critical
  BY OneInside DEF IInv
<1> QED
  BY <1>1 DEF IInv, TypeOK, Critical, Writing

LEMMA WriterStep ==
    ASSUME IInv, LogInv, [Next]_vars
    PROVE  WriterInv'
<1> USE DEF Goto, disk, mine, Labels, Critical, Stopped
<1>1. ASSUME NEW r \in Recorders, RenameHead(r) PROVE WriterInv'
  <2> USE <1>1 DEF RenameHead
  <2>1. \A s \in Recorders : pc'[s] \in Writing => s = r
    BY OneWriter
  <2>2. pc'[r] = "read_log_tip" /\ Mine(r)' = Mine(r)
    BY DEF IInv, TypeOK, Mine
  <2>3. \A i \in DOMAIN log : log[i].manifest_hash # Mine(r)
    BY Publishes, MineType DEF IInv, LogInv, NamesInv
  <2> QED
    BY <2>1, <2>2, <2>3 DEF WriterInv, Writing
<1>2. ASSUME NEW r \in Recorders, ReadLogTip(r) PROVE WriterInv'
  <2>1. CASE pc' = [pc EXCEPT ![r] = "between"] /\ UNCHANGED <<part, logPrev>>
    BY <1>2, <2>1, WriterKept DEF ReadLogTip, LogInv, Writing
  <2>2. CASE /\ pc' = [pc EXCEPT ![r] = "append"] /\ LogTipReadable(log)
             /\ logPrev' = [logPrev EXCEPT ![r] = LogTip(log)]
    <3>1. \A s \in Recorders : pc'[s] \in Writing => s = r
      BY <1>2, <2>2, OneWriter DEF ReadLogTip
    <3>2. /\ pc[r] = "read_log_tip" /\ pc'[r] = "append" /\ Mine(r)' = Mine(r)
          /\ log' = log /\ LogTipReadable(log) /\ logPrev'[r] = LogTip(log)
      BY <1>2, <2>2 DEF ReadLogTip, IInv, TypeOK, Mine
    <3> QED
      BY <3>1, <3>2 DEF LogInv, WriterInv, Writing
  <2> QED
    BY <1>2, <2>1, <2>2 DEF ReadLogTip
<1>3. ASSUME NEW r \in Recorders, AppendLog(r) PROVE WriterInv'
  <2> USE <1>3 DEF AppendLog
  <2>1. \A s \in Recorders : pc'[s] \in Writing => s = r
    BY OneWriter
  <2>2. pc[r] = "append" /\ pc'[r] = "unlock" /\ Mine(r)' = Mine(r)
    BY DEF IInv, TypeOK, Mine
  <2>3. /\ log' # <<>>
        /\ \/ LastLine(log').fields = "other"
           \/ /\ WholeLine(log', Len(log'))
              /\ LastLine(log').fields = "signed"
              /\ LastLine(log').manifest_hash = Mine(r)
    <3>1. log \in Seq(Lines) /\ LogTipReadable(log)
      BY <2>2 DEF IInv, TypeOK, LogInv, WriterInv
    <3>2. CASE \E t \in Lines : Spoiled(t) /\ t.fields = "other"
      <4>1. PICK t \in Lines : Spoiled(t) /\ t.fields = "other"
        BY <3>2
      <4>2. /\ log' \in Seq(Lines) /\ Len(log') = Len(log)
            /\ LastLine(log') = t
        BY <3>1, <4>1, SpoiledKeeps DEF LogInv
      <4>3. log # <<>>
        BY <4>1 DEF Spoiled
      <4>4. log' # <<>>
        BY <3>1, <4>2, <4>3
      <4> QED
        BY <4>1, <4>2, <4>4
    <3>3. CASE \E t \in Lines : Added(r, t) /\ t.eol
      <4>1. PICK t \in Lines : Added(r, t) /\ t.eol
        BY <3>3
      <4>2. /\ log' \in Seq(Lines) /\ Len(log') = Len(log) + 1
            /\ LastLine(log') = t
            /\ WholeLine(log', Len(log'))
        BY <3>1, <4>1, AddedKeeps DEF LogInv
      <4>3. log' # <<>>
        BY <3>1, <4>2
      <4> QED
        BY <4>1, <4>2, <4>3 DEF Added
    <3> QED
      BY <3>2, <3>3, AppendLogWrites DEF LogInv
  <2> QED
    BY <2>1, <2>2, <2>3 DEF WriterInv, Writing
<1>4. ASSUME NEW r \in Recorders, AppendFails(r) PROVE WriterInv'
  <2>1. \A s \in Recorders : pc'[s] \notin Writing
    BY <1>4, OneWriter DEF AppendFails, Writing
  <2> QED
    BY <2>1 DEF WriterInv, Writing
<1>5. ASSUME NEW r \in Recorders, NextPart(r) PROVE WriterInv'
  BY <1>5, WriterKept DEF NextPart, IInv, TypeOK, LogInv, Writing
<1>6. ASSUME NEW r \in Recorders,
             EndPart(r) \/ AcquireLock(r) \/ ReadHead(r) \/ WriteSidecar(r)
                 \/ WriteHeadTmp(r) \/ Unlock(r) \/ EndSession(r)
                 \/ CallFails(r) \/ Crash(r)
      PROVE  WriterInv'
  <2>1. /\ log' = log /\ part' = part /\ logPrev' = logPrev
        /\ \E to \in Labels \ Writing : pc' = [pc EXCEPT ![r] = to]
    BY <1>6 DEF EndPart, AcquireLock, ReadHead, WriteSidecar, WriteHeadTmp,
       Unlock, EndSession, CallFails, Crash, Writing
  <2> QED
    BY <2>1, WriterKept DEF LogInv
<1>7. CASE UNCHANGED vars
  BY <1>7 DEF vars, LogInv, WriterInv, Mine, LastLine, WholeLine, LinkAt,
     LogTipReadable, LogTip
<1> QED
  BY <1>1, <1>2, <1>3, <1>4, <1>5, <1>6, <1>7
     DEF Next, Commit, Session, Faulty, AllStopped

LEMMA LogStep ==
    ASSUME IInv, LogInv, [Next]_vars
    PROVE  LogInv'
<1>1. WriterInv'
  BY WriterStep
<1>2. ASSUME NEW r \in Recorders, AppendLog(r) \/ AppendFails(r)
      PROVE  LogInv'
  <2>1. pc[r] = "append" /\ UNCHANGED <<spine, acked>>
    BY <1>2 DEF AppendLog, AppendFails, Goto
  <2>2. \E t \in Lines : Spoiled(t) \/ Added(r, t)
    BY <1>2, AppendLogWrites, AppendFailsWrites DEF LogInv
  <2> QED
    BY <1>1, <2>1, <2>2, WriteKeeps DEF LogInv
<1>3. ASSUME NEW r \in Recorders, Unlock(r)
      PROVE  LogInv'
  <2>1. /\ log' = log /\ spine' = spine
        /\ acked' = acked \cup {Mine(r)} /\ pc[r] = "unlock"
    BY <1>3 DEF Unlock, Goto, disk
  <2>2. AckedLineInv'
    <3>1. VerifyLog(log) =>
              \E i \in DOMAIN log :
                  WholeLine(log, i) /\ log[i].manifest_hash = Mine(r)
      <4>1. log \in Seq(Lines) /\ log # <<>>
        BY <2>1 DEF IInv, TypeOK, LogInv, WriterInv
      <4>2. Len(log) \in DOMAIN log
        BY <4>1
      <4>3. CASE LastLine(log).fields = "other"
        BY <4>2, <4>3 DEF VerifyLog, LastLine
      <4>4. CASE WholeLine(log, Len(log)) /\ LastLine(log).manifest_hash = Mine(r)
        BY <4>2, <4>4 DEF LastLine
      <4> QED
        BY <2>1, <4>3, <4>4 DEF LogInv, WriterInv
    <3> QED
      BY <2>1, <3>1 DEF LogInv, AckedLineInv, WholeLine, LinkAt
  <2> QED
    BY <1>1, <2>1, <2>2, LogKept DEF LogInv
<1>4. ASSUME NEW r \in Recorders, RenameHead(r)
      PROVE  LogInv'
  <2>1. log' = log /\ acked' = acked
    BY <1>4 DEF RenameHead, mine
  <2>2. \E m \in Manifests : spine' = Append(spine, m)
    BY <1>4, Publishes DEF IInv, TypeOK
  <2> QED
    BY <1>1, <2>1, <2>2, LogKept, AckedLineKept DEF LogInv
<1>5. ASSUME UNCHANGED <<log, spine, acked>>
      PROVE  LogInv'
  BY <1>1, <1>5, LogKept, AckedLineKept DEF LogInv
<1>6. ASSUME NEW r \in Recorders, Commit(r) \/ Session(r) \/ Faulty(r),
             ~AppendLog(r), ~AppendFails(r), ~Unlock(r), ~RenameHead(r)
      PROVE  UNCHANGED <<log, spine, acked>>
  BY <1>6 DEF Commit, Session, Faulty, EndPart, AcquireLock, ReadHead,
     WriteSidecar, WriteHeadTmp, ReadLogTip, NextPart, EndSession, CallFails,
     Crash, disk, mine
<1>7. CASE UNCHANGED vars
  BY <1>5, <1>7 DEF vars, disk
<1> QED
  BY <1>2, <1>3, <1>4, <1>5, <1>6, <1>7 DEF Next, AllStopped

(* The inductive invariant of append_log and of what it leaves behind.     *)
THEOREM LogInvariance == Spec => []LogInv
<1>1. IInv /\ LogInv /\ [Next]_vars => LogInv'
  BY LogStep
<1> QED
  BY <1>1, LogInit, Invariance, PTL DEF Spec
-----------------------------------------------------------------------------
(* What follows: the log ***************************************************)

(* The intact lines of the log name manifests of the history in its order, *)
(* whatever writes stopped short.                                          *)
THEOREM LogAlwaysFollowsSpine == Spec => []LogFollowsSpine
BY LogInvariance, PTL DEF LogInv

(* verify_log accepts every log without its last line: what a short write  *)
(* spoils is the end of head.hash.log and nothing before it.               *)
THEOREM DamageAlwaysAtTail == Spec => []DamageAtTail
<1>1. TypeOK /\ LogInv => DamageAtTail
  <2> SUFFICES ASSUME TypeOK, LogInv, log # <<>>
               PROVE  VerifyLog(SubSeq(log, 1, Len(log) - 1))
    BY DEF DamageAtTail
  <2> DEFINE n == Len(log) - 1
             front == SubSeq(log, 1, n)
  <2>1. log \in Seq(Lines) /\ n \in Nat
    BY DEF TypeOK
  <2>2. /\ front \in Seq(Lines) /\ Len(front) = n /\ DOMAIN front = 1 .. n
        /\ \A i \in 1 .. n : front[i] = log[i]
    BY <2>1
  <2> HIDE DEF n, front
  <2>3. \A i \in 1 .. n : WholeLine(front, i)
    BY <2>1, <2>2, WholePrefix DEF LogInv, FrontInv, n
  <2>4. \A i \in 1 .. n : LineOK(front, i)
    BY <2>1, <2>2, <2>3, WholeLineOK
  <2>5. VerifyLog(front)
    BY <2>2, <2>4 DEF VerifyLog, LineOK
  <2> QED
    BY <2>5 DEF n, front
<1> QED
  BY <1>1, LogInvariance, TypeCorrect, PTL

(* As long as verify_log accepts the log, an intact line of it names every *)
(* hash that write_manifest_and_advance returned with Ok.                  *)
THEOREM AckedAlwaysLogged == Spec => []AckedLogged
<1>1. LogInv => AckedLogged
  BY DEF LogInv, AckedLineInv, WholeLine, AckedLogged, Logged
<1> QED
  BY <1>1, LogInvariance, PTL

(* A commit that returns Ok leaves head.hash and the log's tip in          *)
(* agreement, or a log that verify_log refuses.                            *)
THEOREM AckAlwaysHeals == Spec => AckHeals
<1>1. ASSUME IInv, LogInv, [Next]_vars, acked' # acked
      PROVE  \/ log' # <<>> /\ HeadMatchesLog(head', log')
             \/ ~VerifyLog(log')
  <2>1. PICK r \in Recorders : Unlock(r)
    BY <1>1 DEF Next, Commit, Session, Faulty, AllStopped, vars, EndPart,
       AcquireLock, ReadHead, WriteSidecar, WriteHeadTmp, RenameHead,
       ReadLogTip, AppendLog, NextPart, EndSession, CallFails, AppendFails,
       Crash
  <2>2. /\ pc[r] = "unlock" /\ log' = log /\ head' = head
        /\ log \in Seq(Lines) /\ head = Mine(r)
    BY <1>1, <2>1 DEF Unlock, Goto, disk, IInv, TypeOK, DoneInv
  <2>3. log # <<>> /\ Len(log) \in DOMAIN log
    BY <1>1, <2>2 DEF LogInv, WriterInv
  <2>4. CASE LastLine(log).fields = "other"
    BY <2>2, <2>3, <2>4 DEF VerifyLog, LastLine
  <2>5. CASE LastLine(log).manifest_hash = Mine(r)
    BY <2>2, <2>3, <2>5 DEF HeadMatchesLog, TipManifestHash, LastLine
  <2> QED
    BY <1>1, <2>2, <2>4, <2>5 DEF LogInv, WriterInv
<1>2. IInv /\ LogInv /\ [Next]_vars =>
        [acked' # acked =>
            \/ log' # <<>> /\ HeadMatchesLog(head', log')
            \/ ~VerifyLog(log')]_vars
  BY <1>1
<1> QED
  BY <1>2, Invariance, LogInvariance, PTL DEF Spec, AckHeals

(* Once the last line has a number of fields read_log_tip cannot parse, no *)
(* step writes to the log again.                                           *)
THEOREM UnreadableTailAlwaysStays == Spec => UnreadableTailStays
<1>1. ASSUME LogInv, [Next]_vars, ~LogTipReadable(log)
      PROVE  log' = log
  <2>1. \A r \in Recorders : pc[r] # "append"
    BY <1>1 DEF LogInv, WriterInv
  <2>2. \A r \in Recorders : ~AppendLog(r) /\ ~AppendFails(r)
    BY <2>1 DEF AppendLog, AppendFails, Goto
  <2> QED
    BY <1>1, <2>2 DEF Next, Commit, Session, Faulty, AllStopped, vars, EndPart,
       AcquireLock, ReadHead, WriteSidecar, WriteHeadTmp, RenameHead,
       ReadLogTip, Unlock, NextPart, EndSession, CallFails, Crash, disk
<1>2. LogInv /\ [Next]_vars => [~LogTipReadable(log) => log' = log]_vars
  BY <1>1
<1> QED
  BY <1>2, LogInvariance, PTL DEF Spec, UnreadableTailStays
-----------------------------------------------------------------------------
(* Histories are sequences of manifests.                                   *)
LEMMA HistoryHashes ==
    ASSUME NEW s \in Seq(Manifests), IsHistory(s), NEW i \in DOMAIN s
    PROVE  /\ s[i] \in Manifests /\ s[i].this \in Hashes /\ s[i].this # Genesis
           /\ i # 1 => i - 1 \in DOMAIN s
<1>1. s[i] \in Manifests /\ (i # 1 => i - 1 \in DOMAIN s)
  OBVIOUS
<1>2. \A m \in Manifests : m.this \in Hashes
  BY DEF Manifests
<1> QED
  BY <1>1, <1>2, ChainAssumption

-----------------------------------------------------------------------------
(* The cost of faults ******************************************************)

(* From its manifest on disk to its line in the log.                       *)
Logging == {"head_tmp", "rename", "read_log_tip", "append"}

(* The manifests that a recorder is still about to log.                    *)
Pending == {Mine(r) : r \in {s \in Recorders : pc[s] \in Logging}}

(* The ones that nobody will log any more.                                 *)
Lost == (HashesOf(sidecars) \ Logged) \ Pending

(* A short write that left a line of the old form: it names its manifest   *)
(* until the next write turns it into something else, and that one loses   *)
(* two manifests for one fault of its own.                                 *)
TornLegacy ==
    /\ Unterminated(log)
    /\ LastLine(log).fields = "legacy"
    /\ LastLine(log).valid

DamageInv ==
    /\ IsFiniteSet(sidecars)
    /\ VerifyLog(log) =>
        Cardinality(Lost) + (IF TornLegacy THEN 1 ELSE 0) <= faults
-----------------------------------------------------------------------------
(* Counting ****************************************************************)

LEMMA HashesFinite ==
    ASSUME IsFiniteSet(sidecars)
    PROVE  IsFiniteSet(HashesOf(sidecars))
<1> DEFINE f == [m \in sidecars |-> m.this]
<1>1. f \in Surjection(sidecars, HashesOf(sidecars))
  BY DEF Surjection, HashesOf
<1> QED
  BY <1>1, FS_Surjection

(* A set that gains at most x from A has at most one element more.         *)
LEMMA OneMore ==
    ASSUME NEW A, NEW B, NEW x, IsFiniteSet(A), B \subseteq A \cup {x}
    PROVE  /\ IsFiniteSet(B)
           /\ Cardinality(A) \in Nat /\ Cardinality(B) \in Nat
           /\ Cardinality(B) <= Cardinality(A) + 1
           /\ B \subseteq A => Cardinality(B) <= Cardinality(A)
<1>1. /\ IsFiniteSet(A \cup {x})
      /\ Cardinality(A \cup {x}) = Cardinality(A)
            \/ Cardinality(A \cup {x}) = Cardinality(A) + 1
  BY FS_AddElement
<1>2. IsFiniteSet(B) /\ Cardinality(B) <= Cardinality(A \cup {x})
  BY <1>1, FS_Subset
<1>3. B \subseteq A => Cardinality(B) <= Cardinality(A)
  BY FS_Subset
<1> QED
  BY <1>1, <1>2, <1>3, FS_CardinalityType

LEMMA LostFinite ==
    ASSUME IsFiniteSet(sidecars)
    PROVE  IsFiniteSet(Lost)
BY HashesFinite, FS_Subset DEF Lost

(* What a step can do to the manifests somebody is about to log.           *)
LEMMA PendingStep ==
    ASSUME TypeOK, NEW r \in Recorders,
           NEW to \in Labels, pc' = [pc EXCEPT ![r] = to],
           \A s \in Recorders : s # r => part'[s] = part[s]
    PROVE  /\ Pending \subseteq Pending' \cup {Mine(r)}
           /\ pc[r] \notin Logging => Pending \subseteq Pending'
           /\ to \in Logging /\ part' = part =>
                  Pending \cup {Mine(r)} \subseteq Pending'
<1>1. \A s \in Recorders : s # r => pc'[s] = pc[s] /\ Mine(s)' = Mine(s)
  BY DEF TypeOK, Mine
<1>2. pc'[r] = to
  BY DEF TypeOK
<1>3. part' = part => Mine(r)' = Mine(r)
  BY DEF Mine
<1> QED
  BY <1>1, <1>2, <1>3 DEF Pending

(* A step that leaves the log alone, or one that verify_log refuses.       *)
LEMMA QuietDamage ==
    ASSUME DamageInv, log' = log, IsFiniteSet(sidecars'),
           faults \in Nat, NEW x,
           VerifyLog(log) =>
               \/ Lost' \subseteq Lost /\ faults' = faults
               \/ Lost' \subseteq Lost \cup {x} /\ faults' = faults + 1
    PROVE  DamageInv'
<1>1. TornLegacy' = TornLegacy
  BY DEF TornLegacy, Unterminated, LastLine
<1> SUFFICES ASSUME VerifyLog(log)
             PROVE  Cardinality(Lost') + (IF TornLegacy THEN 1 ELSE 0) <= faults'
  BY <1>1 DEF DamageInv
<1>2. Cardinality(Lost) + (IF TornLegacy THEN 1 ELSE 0) <= faults
  BY DEF DamageInv
<1>3. IsFiniteSet(Lost)
  BY LostFinite DEF DamageInv
<1>4. Lost' \subseteq Lost \cup {x}
  OBVIOUS
<1>5. /\ Cardinality(Lost) \in Nat /\ Cardinality(Lost') \in Nat
      /\ Cardinality(Lost') <= Cardinality(Lost) + 1
      /\ Lost' \subseteq Lost => Cardinality(Lost') <= Cardinality(Lost)
  BY <1>3, <1>4, OneMore
<1> QED
  BY <1>2, <1>5
-----------------------------------------------------------------------------
(* The writes to the log ***************************************************)

Intact(line) == line.valid /\ line.fields \in {"legacy", "signed"}

LEMMA LoggedBy ==
    ASSUME NEW r \in Recorders, NEW t \in Lines, log \in Seq(Lines),
           Added(r, t)
    PROVE  /\ Logged \subseteq Logged'
           /\ Intact(t) => t.manifest_hash \in Logged'
<1>1. /\ DOMAIN log \subseteq DOMAIN log' /\ Len(log) + 1 \in DOMAIN log'
      /\ \A i \in DOMAIN log : log'[i] = log[i]
      /\ log'[Len(log) + 1] = t
  BY DEF Added
<1> QED
  BY <1>1 DEF Logged, Intact

LEMMA LoggedDespite ==
    ASSUME NEW t \in Lines, log \in Seq(Lines), Spoiled(t)
    PROVE  /\ Logged \subseteq Logged' \cup {LastLine(log).manifest_hash}
           /\ ~Intact(LastLine(log)) => Logged \subseteq Logged'
<1> DEFINE n == Len(log)
<1>1. n \in Nat /\ DOMAIN log = 1 .. n /\ log' = [log EXCEPT ![n] = t]
  BY DEF Spoiled
<1>2. LastLine(log) = log[n]
  BY DEF LastLine
<1> HIDE DEF n
<1>3. DOMAIN log' = DOMAIN log /\ \A i \in DOMAIN log : i # n => log'[i] = log[i]
  BY <1>1
<1> QED
  BY <1>2, <1>3 DEF Logged, Intact

(* The write of a recorder r that then goes to the label to.               *)
LEMMA WriteDamage ==
    ASSUME IInv, LogInv, DamageInv, NEW r \in Recorders, pc[r] = "append",
           NEW to \in Labels, pc' = [pc EXCEPT ![r] = to],
           UNCHANGED <<sidecars, part>>, NEW t \in Lines,
           \/ faults' = faults /\ Spoiled(t) /\ t.fields = "other"
           \/ faults' = faults /\ Added(r, t) /\ t.eol
           \/ faults' = faults + 1 /\ (Spoiled(t) \/ Added(r, t))
    PROVE  DamageInv'
<1>1. /\ log \in Seq(Lines) /\ faults \in Nat
      /\ LogTipReadable(log) /\ FrontInv /\ TailInv
  BY DEF IInv, TypeOK, LogInv, WriterInv
<1>2. Pending \subseteq Pending' \cup {Mine(r)}
  BY PendingStep DEF IInv
<1>3. IsFiniteSet(sidecars) /\ IsFiniteSet(Lost)
  BY LostFinite DEF DamageInv
<1> SUFFICES ASSUME VerifyLog(log')
             PROVE  Cardinality(Lost') + (IF TornLegacy' THEN 1 ELSE 0) <= faults'
  BY <1>3 DEF DamageInv
<1>4. CASE Spoiled(t)
  <2>1. /\ log' \in Seq(Lines) /\ Len(log') = Len(log) /\ VerifyLog(log)
        /\ LastLine(log') = t /\ log # <<>> /\ ~t.valid
    BY <1>1, <1>4, SpoiledKeeps DEF Spoiled
  <2>2. t.fields = "legacy"
    <3>1. Len(log') \in DOMAIN log'
      BY <1>1, <2>1
    <3> QED
      BY <2>1, <3>1 DEF VerifyLog, SignedLineOK, LastLine
  <2>3. Unterminated(log) /\ LastLine(log).fields = "legacy"
    BY <1>4, <2>2 DEF Spoiled, Unterminated
  <2>4. ~TornLegacy'
    BY <2>1 DEF TornLegacy
  <2>5. faults' = faults + 1
    BY <1>4, <2>2 DEF Spoiled, Added, Unterminated
  <2> DEFINE h == LastLine(log).manifest_hash
             without == Lost \cup {Mine(r)}
  <2>6. IsFiniteSet(without) /\ Cardinality(Lost) \in Nat
        /\ Cardinality(without) \in Nat /\ Cardinality(without) <= Cardinality(Lost) + 1
    BY <1>3, OneMore
  <2>7. CASE TornLegacy
    <3>1. Lost' \subseteq without \cup {h}
      BY <1>1, <1>2, <1>4, LoggedDespite DEF Lost
    <3>2. /\ Cardinality(Lost') \in Nat
          /\ Cardinality(Lost') <= Cardinality(without) + 1
      BY <2>6, <3>1, OneMore
    <3> QED
      BY <1>1, <2>1, <2>4, <2>5, <2>6, <2>7, <3>2 DEF DamageInv
  <2>8. CASE ~TornLegacy
    <3>1. ~Intact(LastLine(log))
      BY <2>3, <2>8 DEF TornLegacy, Intact
    <3>2. Lost' \subseteq Lost \cup {Mine(r)}
      BY <1>1, <1>2, <1>4, <3>1, LoggedDespite DEF Lost
    <3>3. /\ Cardinality(Lost') \in Nat
          /\ Cardinality(Lost') <= Cardinality(Lost) + 1
      BY <1>3, <3>2, OneMore
    <3> QED
      BY <1>1, <2>1, <2>4, <2>5, <2>6, <2>8, <3>3 DEF DamageInv
  <2> QED
    BY <2>7, <2>8
<1>5. CASE Added(r, t)
  <2>1. VerifyLog(log) /\ LastLine(log') = t
    BY <1>1, <1>5, AddedKeeps
  <2>2. ~TornLegacy
    BY <1>5 DEF Added, TornLegacy
  <2>3. /\ Cardinality(Lost) \in Nat /\ Cardinality(Lost) <= faults
        /\ Lost' \subseteq Lost \cup {Mine(r)}
    BY <1>1, <1>2, <1>3, <1>5, <2>1, <2>2, LoggedBy, FS_CardinalityType
       DEF DamageInv, Lost
  <2>4. /\ Cardinality(Lost') \in Nat
        /\ Cardinality(Lost') <= Cardinality(Lost) + 1
        /\ Lost' \subseteq Lost => Cardinality(Lost') <= Cardinality(Lost)
    BY <1>3, <2>3, OneMore
  <2>5. t.eol => Intact(t) /\ ~TornLegacy'
    BY <1>5, <2>1 DEF Added, Intact, TornLegacy, Unterminated
  <2>6. CASE Intact(t)
    <3>1. Lost' \subseteq Lost
      BY <1>1, <1>2, <1>5, <2>6, LoggedBy DEF Lost, Added, Intact
    <3>2. faults' = faults + 1 \/ (faults' = faults /\ t.eol)
      BY <1>5, <2>1 DEF Spoiled, Added, Unterminated
    <3> QED
      BY <1>1, <2>3, <2>4, <2>5, <3>1, <3>2
  <2>7. CASE ~Intact(t)
    <3>1. ~TornLegacy'
      BY <2>1, <2>7 DEF TornLegacy, Intact
    <3>2. faults' = faults + 1
      BY <1>5, <2>5, <2>7 DEF Spoiled, Added, Unterminated
    <3> QED
      BY <1>1, <2>3, <2>4, <3>1, <3>2
  <2> QED
    BY <2>6, <2>7
<1> QED
  BY <1>4, <1>5

LEMMA DamageInit == Init => DamageInv
<1> SUFFICES ASSUME Init PROVE DamageInv
  OBVIOUS
<1>1. IsFiniteSet(sidecars) /\ HashesOf(sidecars) \subseteq Logged
  <2>1. CASE FreshHost
    BY <2>1, FS_EmptySet DEF FreshHost, HashesOf
  <2>2. CASE UpgradedHost
    <3>1. /\ DOMAIN log = {1} /\ log[1] = LegacyLine(OldManifest)
          /\ sidecars = {Manifest(OldManifest, Genesis)}
      BY <2>2 DEF UpgradedHost
    <3>2. OldManifest \in Logged
      BY <3>1 DEF Logged, LegacyLine
    <3>3. HashesOf(sidecars) = {OldManifest}
      BY <3>1 DEF HashesOf, Manifest
    <3>4. IsFiniteSet(sidecars)
      BY <3>1, FS_Singleton
    <3> QED
      BY <3>2, <3>3, <3>4
  <2> QED
    BY <2>1, <2>2 DEF Init
<1>2. ~TornLegacy
  <2>1. CASE log = <<>>
    BY <2>1 DEF TornLegacy, Unterminated
  <2>2. CASE log = <<LegacyLine(OldManifest)>>
    BY <2>2 DEF TornLegacy, Unterminated, LastLine, LegacyLine
  <2> QED
    BY <2>1, <2>2 DEF Init, FreshHost, UpgradedHost
<1>3. Lost = {} /\ faults = 0
  BY <1>1 DEF Lost, Init
<1> QED
  BY <1>1, <1>2, <1>3, FS_EmptySet DEF DamageInv

LEMMA DamageStep ==
    ASSUME IInv, LogInv, DamageInv, [Next]_vars
    PROVE  DamageInv'
<1> USE DEF Goto, disk, mine, Labels, Critical, Stopped
<1>1. TypeOK /\ faults \in Nat
  BY DEF IInv, TypeOK
<1>2. log' = log => Logged' = Logged
  BY DEF Logged
<1>3. ASSUME NEW r \in Recorders, WriteSidecar(r) PROVE DamageInv'
  <2>1. /\ sidecars' = sidecars \cup {Manifest(Mine(r), prev[r])}
        /\ log' = log /\ faults' = faults
    BY <1>3 DEF WriteSidecar
  <2>2. IsFiniteSet(sidecars')
    BY <2>1, FS_AddElement DEF DamageInv
  <2>3. Pending \cup {Mine(r)} \subseteq Pending'
    BY <1>1, <1>3, PendingStep DEF WriteSidecar, Logging
  <2>4. HashesOf(sidecars') \subseteq HashesOf(sidecars) \cup {Mine(r)}
    BY <2>1 DEF HashesOf, Manifest
  <2>5. Lost' \subseteq Lost
    BY <1>2, <2>1, <2>3, <2>4 DEF Lost, HashesOf
  <2> QED
    BY <1>1, <2>1, <2>2, <2>5, QuietDamage
<1>4. ASSUME NEW r \in Recorders, NEW to \in Labels,
             pc' = [pc EXCEPT ![r] = to],
             \A s \in Recorders : s # r => part'[s] = part[s],
             pc[r] \in Logging => to \in Logging /\ part' = part,
             UNCHANGED <<sidecars, log, faults>>
      PROVE  DamageInv'
  <2>1. Pending \subseteq Pending'
    BY <1>1, <1>4, PendingStep
  <2>2. Lost' \subseteq Lost
    BY <1>2, <1>4, <2>1 DEF Lost
  <2> QED
    BY <1>1, <1>4, <2>2, QuietDamage DEF DamageInv
<1>5. ASSUME NEW r \in Recorders, NEW to \in Labels,
             pc' = [pc EXCEPT ![r] = to],
             UNCHANGED <<sidecars, log, part>>,
             \/ faults' = faults + 1
             \/ faults' = faults /\ ~VerifyLog(log)
      PROVE  DamageInv'
  <2>1. Pending \subseteq Pending' \cup {Mine(r)}
    BY <1>1, <1>5, PendingStep
  <2>2. Lost' \subseteq Lost \cup {Mine(r)}
    BY <1>2, <1>5, <2>1 DEF Lost
  <2> QED
    BY <1>1, <1>5, <2>2, QuietDamage DEF DamageInv
<1>6. ASSUME NEW r \in Recorders, ReadLogTip(r) PROVE DamageInv'
  <2>1. CASE pc' = [pc EXCEPT ![r] = "append"] /\ UNCHANGED <<disk, part, faults>>
    BY <1>4, <1>6, <2>1 DEF Logging
  <2>2. CASE /\ pc' = [pc EXCEPT ![r] = "between"] /\ UNCHANGED <<disk, part, faults>>
             /\ ~LogTipReadable(log)
    <3>1. ~VerifyLog(log)
      <4>1. log \in Seq(Lines) /\ log # <<>>
        BY <1>1, <2>2 DEF TypeOK, LogTipReadable
      <4>2. Len(log) \in DOMAIN log
        BY <4>1
      <4> QED
        BY <2>2, <4>2 DEF LogTipReadable, LastLine, VerifyLog
    <3> QED
      BY <1>5, <2>2, <3>1
  <2> QED
    BY <1>6, <2>1, <2>2 DEF ReadLogTip
<1>7. ASSUME NEW r \in Recorders, AppendLog(r) PROVE DamageInv'
  <2>1. /\ pc[r] = "append" /\ pc' = [pc EXCEPT ![r] = "unlock"]
        /\ UNCHANGED <<sidecars, part, faults>>
    BY <1>7 DEF AppendLog
  <2> QED
    BY <1>7, <2>1, AppendLogWrites, WriteDamage DEF LogInv
<1>8. ASSUME NEW r \in Recorders, AppendFails(r) PROVE DamageInv'
  <2>1. /\ pc[r] = "append" /\ pc' = [pc EXCEPT ![r] = "between"]
        /\ UNCHANGED <<sidecars, part>> /\ faults' = faults + 1
    BY <1>8 DEF AppendFails, Fault
  <2> QED
    BY <1>8, <2>1, AppendFailsWrites, WriteDamage DEF LogInv
<1>9. ASSUME NEW r \in Recorders, CallFails(r) \/ Crash(r) PROVE DamageInv'
  BY <1>5, <1>9 DEF CallFails, Crash, Fault
<1>10. ASSUME NEW r \in Recorders,
              EndPart(r) \/ AcquireLock(r) \/ ReadHead(r) \/ WriteHeadTmp(r)
                  \/ RenameHead(r) \/ Unlock(r) \/ EndSession(r)
       PROVE  DamageInv'
  BY <1>4, <1>10 DEF EndPart, AcquireLock, ReadHead, WriteHeadTmp, RenameHead,
     Unlock, EndSession, Logging
<1>11. ASSUME NEW r \in Recorders, NextPart(r) PROVE DamageInv'
  BY <1>1, <1>4, <1>11 DEF NextPart, TypeOK, Logging
<1>12. CASE UNCHANGED vars
  <2>1. Lost' = Lost
    BY <1>2, <1>12 DEF vars, Lost, Pending, Mine
  <2> QED
    BY <1>1, <1>12, <2>1, QuietDamage DEF vars, DamageInv
<1> QED
  BY <1>3, <1>6, <1>7, <1>8, <1>9, <1>10, <1>11, <1>12
     DEF Next, Commit, Session, Faulty, AllStopped

(* The inductive invariant that gives every damage a fault that made it.   *)
THEOREM DamageInvariance == Spec => []DamageInv
<1>1. IInv /\ LogInv /\ DamageInv /\ [Next]_vars => DamageInv'
  BY DamageStep
<1> QED
  BY <1>1, DamageInit, Invariance, LogInvariance, PTL DEF Spec
-----------------------------------------------------------------------------
(* Orphans and unlogged manifests are what is lost while nobody commits.   *)
LEMMA LostWhileQuiet ==
    ASSUME IInv, LogInv, DamageInv, Quiet
    PROVE  Cardinality(Orphans) + Cardinality(Published \ Logged) = Cardinality(Lost)
<1> DEFINE O == HashesOf(Orphans)
           U == Published \ Logged
           f == [m \in Orphans |-> m.this]
<1>1. Pending = {}
  <2>1. \A r \in Recorders : pc[r] \notin Critical
    BY ChainAssumption DEF IInv, LockInv, Quiet
  <2> QED
    BY <2>1 DEF Pending, Logging, Critical
<1>2. Logged \subseteq Published \cup {Nothing}
  BY DEF LogInv, NamesInv, Logged
<1>3. Nothing \notin HashesOf(sidecars)
  BY ChainAssumption DEF IInv, TypeOK, Manifests, HashesOf
<1>4. Published \subseteq HashesOf(sidecars)
  BY PublishedOnDisk DEF IInv
<1>5. O = HashesOf(sidecars) \ Published
  <2>1. Published = HashesOf(OnSpine)
    BY DEF Published, OnSpine, HashesOf
  <2>2. OnSpine \subseteq sidecars
    BY DEF IInv, HistoryIntact
  <2> QED
    BY <2>1, <2>2 DEF Orphans, HashesOf, IInv, UniqueInv, NoDuplicate
<1>6. Lost = O \cup U /\ O \cap U = {}
  BY <1>1, <1>2, <1>3, <1>4, <1>5 DEF Lost
<1>7. IsFiniteSet(Orphans) /\ IsFiniteSet(O) /\ IsFiniteSet(U)
  BY <1>5, <1>4, HashesFinite, FS_Subset DEF Orphans, DamageInv
<1>8. Cardinality(Orphans) = Cardinality(O)
  <2>1. f \in Injection(Orphans, O)
    <3>1. \A a, b \in Orphans : a.this = b.this => a = b
      BY DEF Orphans, IInv, UniqueInv, NoDuplicate
    <3>2. f \in [Orphans -> O]
      BY DEF HashesOf
    <3> QED
      BY <3>1, <3>2 DEF Injection, IsInjective
  <2>2. f \in Surjection(Orphans, O)
    BY DEF Surjection, HashesOf
  <2> QED
    BY <1>7, <2>1, <2>2, FS_Surjection
<1>9. Cardinality(O \cup U) = Cardinality(O) + Cardinality(U)
  <2>1. Cardinality(O \cap U) = 0
    BY <1>6, FS_EmptySet
  <2>2. Cardinality(O) \in Nat /\ Cardinality(U) \in Nat
    BY <1>7, FS_CardinalityType
  <2> HIDE DEF O, U
  <2>3. Cardinality(O \cup U) =
            Cardinality(O) + Cardinality(U) - Cardinality(O \cap U)
    BY <1>7, FS_Union
  <2> QED
    BY <2>1, <2>2, <2>3
<1> QED
  BY <1>6, <1>8, <1>9

(* While no recorder is committing, and as long as the log verifies, there *)
(* are at most as many manifests that head.hash or the log never named as  *)
(* there were faults: none damages two.                                    *)
THEOREM DamageAlwaysBounded == Spec => []DamageBounded
<1>1. IInv /\ LogInv /\ DamageInv => DamageBounded
  <2> SUFFICES ASSUME IInv, LogInv, DamageInv, Quiet, VerifyLog(log)
               PROVE  Cardinality(Orphans) + Cardinality(Published \ Logged) <= faults
    BY DEF DamageBounded
  <2>1. Cardinality(Orphans) + Cardinality(Published \ Logged) = Cardinality(Lost)
    BY LostWhileQuiet
  <2>2. Cardinality(Lost) \in Nat
    BY LostFinite, FS_CardinalityType DEF DamageInv
  <2> QED
    BY <2>1, <2>2 DEF DamageInv, IInv, TypeOK
<1> QED
  BY <1>1, Invariance, LogInvariance, DamageInvariance, PTL
-----------------------------------------------------------------------------
(* The auditor's verdict on a host at rest **********************************)

(* No manifest is in the history twice; without a fault, every line of the *)
(* log is whole.                                                           *)
SpineDistinct ==
    \A i, j \in DOMAIN spine : spine[i].this = spine[j].this => i = j

CleanLog == faults = 0 /\ log # <<>> => WholeLine(log, Len(log))

LEMMA RestInit == Init => SpineDistinct /\ CleanLog
<1> SUFFICES ASSUME Init PROVE SpineDistinct /\ CleanLog
  OBVIOUS
<1>1. CASE FreshHost
  BY <1>1 DEF FreshHost, SpineDistinct, CleanLog
<1>2. CASE UpgradedHost
  <2>1. Len(log) = 1 /\ log[1] = LegacyLine(OldManifest) /\ DOMAIN spine = {1}
    BY <1>2 DEF UpgradedHost
  <2> QED
    BY <2>1 DEF SpineDistinct, CleanLog, WholeLine, LegacyLine
<1> QED
  BY <1>1, <1>2 DEF Init

LEMMA SpineStep ==
    ASSUME IInv, SpineDistinct, [Next]_vars
    PROVE  SpineDistinct'
<1>1. ASSUME NEW r \in Recorders, RenameHead(r) PROVE SpineDistinct'
  <2> DEFINE m == Manifest(Mine(r), head)
  <2>1. spine' = Append(spine, m) /\ m.this \notin Published /\ spine \in Seq(Manifests)
    BY <1>1, Publishes DEF Manifest, IInv, TypeOK
  <2> HIDE DEF m
  <2>2. /\ DOMAIN spine' = DOMAIN spine \cup {Len(spine) + 1}
        /\ spine'[Len(spine) + 1] = m
        /\ \A i \in DOMAIN spine : spine'[i] = spine[i] /\ spine[i].this # m.this
    BY <2>1 DEF Published
  <2> QED
    BY <2>2 DEF SpineDistinct
<1>2. ASSUME spine' = spine PROVE SpineDistinct'
  BY <1>2 DEF SpineDistinct
<1>3. ASSUME NEW r \in Recorders, Commit(r) \/ Session(r) \/ Faulty(r),
             ~RenameHead(r)
      PROVE  spine' = spine
  BY <1>3 DEF Commit, Session, Faulty, EndPart, AcquireLock, ReadHead,
     WriteSidecar, WriteHeadTmp, ReadLogTip, AppendLog, Unlock, NextPart,
     EndSession, CallFails, AppendFails, Crash, disk
<1> QED
  BY <1>1, <1>2, <1>3 DEF Next, AllStopped, vars, disk

LEMMA CleanLogStep ==
    ASSUME IInv, LogInv, CleanLog, [Next]_vars
    PROVE  CleanLog'
<1>1. ASSUME NEW r \in Recorders, AppendLog(r) PROVE CleanLog'
  <2>1. faults' = faults
    BY <1>1 DEF AppendLog
  <2>2. log \in Seq(Lines) /\ LogTipReadable(log) /\ FrontInv /\ TailInv
    BY <1>1 DEF IInv, TypeOK, LogInv, WriterInv, AppendLog, Goto
  <2>3. ASSUME NEW t \in Lines, Spoiled(t) PROVE CleanLog'
    BY <2>1, <2>3 DEF Spoiled, CleanLog, LastLine, WholeLine
  <2>4. ASSUME NEW t \in Lines, Added(r, t), t.eol PROVE CleanLog'
    BY <2>2, <2>4, AddedKeeps DEF CleanLog
  <2> QED
    BY <1>1, <2>3, <2>4, AppendLogWrites DEF LogInv
<1>2. ASSUME faults \in Nat, faults' = faults + 1 PROVE CleanLog'
  BY <1>2 DEF CleanLog
<1>3. ASSUME UNCHANGED <<log, faults>> PROVE CleanLog'
  BY <1>3 DEF CleanLog, WholeLine, LinkAt
<1>4. ASSUME NEW r \in Recorders, Commit(r) \/ Session(r) \/ Faulty(r),
             ~AppendLog(r)
      PROVE  UNCHANGED <<log, faults>> \/ faults' = faults + 1
  BY <1>4 DEF Commit, Session, Faulty, EndPart, AcquireLock, ReadHead,
     WriteSidecar, WriteHeadTmp, RenameHead, ReadLogTip, Unlock, NextPart,
     EndSession, CallFails, AppendFails, Crash, Fault, disk
<1> QED
  BY <1>1, <1>2, <1>3, <1>4 DEF Next, AllStopped, vars, disk, IInv, TypeOK

AtRest == IInv /\ LogInv /\ DamageInv /\ SpineDistinct /\ CleanLog

(* All that is known of the chain between commits.                         *)
THEOREM RestInvariance == Spec => []AtRest
<1>1. Init => IInv /\ LogInv /\ DamageInv /\ SpineDistinct /\ CleanLog
  BY InvInit, LogInit, DamageInit, RestInit
<1>2. AtRest /\ [Next]_vars => AtRest'
  BY InvStep, LogStep, DamageStep, SpineStep, CleanLogStep DEF AtRest
<1> QED
  BY <1>1, <1>2, PTL DEF Spec, AtRest

LEMMA SpineIsHistory ==
    ASSUME IInv, SpineDistinct
    PROVE  IsHistory(spine) /\ spine \in Seq(Manifests)
<1>1. spine \in Seq(Manifests)
  BY DEF IInv, TypeOK
<1>2. \A i \in DOMAIN spine : spine[i].this # Genesis
  <2>1. \A i \in DOMAIN spine : spine[i] \in Manifests
    BY <1>1
  <2> QED
    BY <2>1, ChainAssumption DEF Manifests
<1> QED
  BY <1>1, <1>2 DEF IInv, HistoryIntact, SpineDistinct, IsHistory

LEMMA SpineUpTo ==
    ASSUME IInv, spine # <<>>
    PROVE  /\ Len(spine) \in DOMAIN spine
           /\ UpTo(spine, Len(spine)) = OnSpine
           /\ head = spine[Len(spine)].this
<1>1. spine \in Seq(Manifests)
  BY DEF IInv, TypeOK
<1>2. Len(spine) \in DOMAIN spine /\ DOMAIN spine = 1 .. Len(spine)
  BY <1>1
<1> QED
  BY <1>2 DEF UpTo, OnSpine, IInv, HistoryIntact, SpineTip

LEMMA GenesisNotOnDisk ==
    ASSUME IInv
    PROVE  Genesis \notin HashesOf(sidecars)
<1>1. \A m \in Manifests : m.this # Genesis
  BY ChainAssumption DEF Manifests
<1> QED
  BY <1>1 DEF IInv, TypeOK, HashesOf

(* check_single_chain accepts the manifests of a host with a head.hash     *)
(* exactly when each of them is in the history.                            *)
LEMMA ChainVerdict ==
    ASSUME AtRest, head # Genesis
    PROVE  CheckSingleChain(sidecars, head) <=> Orphans = {}
<1> USE DEF AtRest
<1> DEFINE n == Len(spine)
<1>1. spine # <<>>
  BY DEF IInv, HistoryIntact, SpineTip
<1>2. n \in DOMAIN spine /\ UpTo(spine, n) = OnSpine /\ head = spine[n].this
  BY <1>1, SpineUpTo
<1>3. IsHistory(spine) /\ spine \in Seq(Manifests)
  BY SpineIsHistory
<1>4. OnSpine \subseteq sidecars /\ NoDuplicate(sidecars) /\ IsFiniteSet(sidecars)
  BY DEF IInv, HistoryIntact, UniqueInv, DamageInv
<1>5. Genesis \notin HashesOf(sidecars)
  BY GenesisNotOnDisk
<1> HIDE DEF n
<1>6. WalksAll(sidecars, head) <=> sidecars = OnSpine
  BY <1>2, <1>3, <1>4, <1>5, WalksAllOfHistory
<1>7. WalkStart(sidecars, head) = {head}
  <2>1. spine[n] \in sidecars
    BY <1>2, <1>4 DEF OnSpine
  <2>2. head \in HashesOf(sidecars)
    BY <1>2, <2>1 DEF HashesOf
  <2>3. head # Nothing
    BY <1>2, <1>3, HistoryHashes, ChainAssumption
  <2> QED
    BY <2>2, <2>3 DEF WalkStart
<1>8. sidecars # {}
  BY <1>2, <1>4 DEF OnSpine
<1>9. sidecars = OnSpine =>
          Cardinality(GenesisManifests(sidecars)) = 1 /\ Linked(sidecars)
  BY <1>2, <1>3, HistoryIsLinked
<1>10. Orphans = {} <=> sidecars = OnSpine
  BY <1>4 DEF Orphans
<1> QED
  BY <1>4, <1>6, <1>7, <1>8, <1>9, <1>10 DEF CheckSingleChain

(* check_single_chain tells orphans from none, whenever nobody commits.    *)
THEOREM QuietAuditAlways == Spec => []QuietAudit
<1>1. AtRest => QuietAudit
  BY ChainVerdict DEF QuietAudit
<1> QED
  BY <1>1, RestInvariance, PTL

(* Without a fault and a commit under way, there is no orphan, every hash  *)
(* of the history is logged, and the log verifies.                         *)
LEMMA CleanHost ==
    ASSUME AtRest, Quiet, faults = 0
    PROVE  VerifyLog(log) /\ Orphans = {} /\ Published \subseteq Logged
<1> USE DEF AtRest
<1>1. VerifyLog(log)
  <2>1. CASE log = <<>>
    BY <2>1 DEF VerifyLog
  <2>2. CASE log # <<>>
    <3>1. log \in Seq(Lines) /\ Len(log) \in Nat /\ DOMAIN log = 1 .. Len(log)
      BY DEF IInv, TypeOK
    <3>2. \A i \in 1 .. Len(log) : WholeLine(log, i)
      BY <2>2, <3>1 DEF LogInv, FrontInv, CleanLog
    <3> QED
      BY <3>1, <3>2, WholeLineOK DEF VerifyLog, LineOK
  <2> QED
    BY <2>1, <2>2
<1>2. IsFiniteSet(Lost) /\ Cardinality(Lost) \in Nat
  BY LostFinite, FS_CardinalityType DEF DamageInv
<1>3. Cardinality(Lost) = 0
  BY <1>1, <1>2 DEF DamageInv
<1>4. Cardinality(Orphans) + Cardinality(Published \ Logged) = 0
  BY <1>3, LostWhileQuiet
<1>5. IsFiniteSet(Orphans) /\ IsFiniteSet(Published \ Logged)
  <2>1. Published \subseteq HashesOf(sidecars)
    BY PublishedOnDisk DEF IInv
  <2> QED
    BY <2>1, HashesFinite, FS_Subset DEF Orphans, DamageInv
<1>6. Cardinality(Orphans) \in Nat /\ Cardinality(Published \ Logged) \in Nat
  BY <1>5, FS_CardinalityType
<1>7. Cardinality(Orphans) = 0 /\ Cardinality(Published \ Logged) = 0
  BY <1>4, <1>6
<1> QED
  BY <1>1, <1>5, <1>7, FS_EmptySet

(* ... and the last line of the log names the head.                        *)
LEMMA CleanTip ==
    ASSUME AtRest, Quiet, faults = 0
    PROVE  HeadMatchesLog(head, log)
<1> USE DEF AtRest
<1> SUFFICES ASSUME log # <<>> PROVE head = log[Len(log)].manifest_hash
  BY DEF HeadMatchesLog, TipManifestHash
<1> DEFINE n == Len(log)
           h == log[n].manifest_hash
<1>1. n \in Nat \ {0} /\ DOMAIN log = 1 .. n /\ spine \in Seq(Manifests)
  BY DEF IInv, TypeOK
<1>2. log[n].valid /\ h \in Published
  BY <1>1 DEF CleanLog, WholeLine, LogInv, NamesInv
<1>3. spine # <<>>
  BY <1>2 DEF Published
<1>4. /\ Len(spine) \in DOMAIN spine /\ head = spine[Len(spine)].this
      /\ DOMAIN spine = 1 .. Len(spine) /\ Len(spine) \in Nat
  BY <1>1, <1>3, SpineUpTo
<1>5. head \in Logged /\ head \in Hashes /\ h \in Hashes
  BY <1>2, <1>4, CleanHost, SpineIsHistory, HistoryHashes DEF Published
<1>6. PICK i \in DOMAIN log : log[i].manifest_hash = head
  BY <1>5 DEF Logged
<1>7. CASE i = n
  BY <1>6, <1>7
<1>8. CASE i # n
  <2>1. i < n /\ n \in DOMAIN log
    BY <1>1, <1>8
  <2>2. PICK k \in DOMAIN spine, l \in DOMAIN spine :
            k < l /\ spine[k].this = head /\ spine[l].this = h
    BY <1>5, <1>6, <2>1 DEF LogInv, LogFollowsSpine
  <2>3. k = Len(spine)
    BY <1>4, <2>2 DEF SpineDistinct
  <2> QED
    BY <1>4, <2>2, <2>3
<1> QED
  BY <1>7, <1>8

(* The whole check of the auditor passes on a host that had no fault,      *)
(* whenever nobody commits, for any number of sessions and parts.          *)
THEOREM CleanAuditAlways == Spec => []CleanAudit
<1>1. AtRest => CleanAudit
  <2> SUFFICES ASSUME AtRest, Quiet, faults = 0
               PROVE  CheckChain(sidecars, head, log)
    BY DEF CleanAudit
  <2>1. VerifyLog(log) /\ Orphans = {} /\ HeadMatchesLog(head, log)
    BY CleanHost, CleanTip
  <2>2. CASE head = Genesis
    <3>1. spine = <<>>
      <4>1. SUFFICES ASSUME spine # <<>> PROVE FALSE
        OBVIOUS
      <4> QED
        BY <2>2, <4>1, SpineUpTo, SpineIsHistory, HistoryHashes DEF AtRest
    <3>2. OnSpine = {}
      BY <3>1 DEF OnSpine
    <3>3. sidecars = {}
      BY <2>1, <3>2 DEF Orphans
    <3> QED
      BY <2>1, <2>2, <3>3 DEF CheckChain, CheckSingleChain
  <2>3. CASE head # Genesis
    BY <2>1, <2>3, ChainVerdict DEF CheckChain
  <2> QED
    BY <2>2, <2>3
<1> QED
  BY <1>1, RestInvariance, PTL
=============================================================================
