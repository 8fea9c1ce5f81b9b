----------------------------- MODULE AuditProofs ----------------------------
(***************************************************************************)
(* What TLAPS proves of the auditor's run beside the recorders and the     *)
(* retention timer, in Audit, for every number of recorders, parts and     *)
(* faults and every order in which it lists the directories.               *)
(***************************************************************************)
EXTENDS Audit, ChainProofs

(* The recordings: their parts were reached, a committing recorder's own   *)
(* is on disk, and without a fault only those under way have no manifest.  *)
FilesInv ==
    /\ files \subseteq Hashes
    /\ \A r \in Recorders, p \in Parts : <<r, p>> \in files => p <= part[r]
    /\ \A r \in Recorders : pc[r] \in Critical \cup {"acquire"} => Mine(r) \in files
    /\ faults = 0 =>
        \A f \in files \ HashesOf(sidecars) :
            \E r \in Recorders : f = Mine(r) /\ pc[r] \in Unwritten

(* The hashes of the directories the auditor has not listed yet.           *)
Ahead == UNION {HashesIn(dir) : dir \in unlisted}

Walking == at \in {"list", "check", "hash"}

(* What the auditor has collected, and how far it is.                      *)
SeenInv ==
    /\ at \in {"idle", "head", "list", "check", "hash", "over"}
    /\ entries \subseteq sidecars
    /\ unchecked \subseteq entries
    /\ unlisted \subseteq Directories
    /\ signed \subseteq HashesOf(entries)
    /\ expected_head \in Published \cup {Genesis, Nothing}
    /\ at \in {"idle", "head"} =>
        entries = {} /\ recordings = {} /\ expected_head = Nothing
    /\ at \in {"idle", "head", "list"} => signed = {}
    /\ at = "head" => unlisted = Directories
    /\ at = "list" => unchecked = entries
    /\ at = "hash" => \E m \in entries : m.this = recording
    /\ at \in {"check", "hash"} /\ target = Nothing => unlisted = {}
    /\ verdict = "verified" => at = "over"

(* The manifest of the head it read is collected, or still to be listed.   *)
HeadSeenInv ==
    Walking /\ target = Nothing =>
        expected_head \in HashesOf(entries) \cup Ahead \cup {Genesis, Nothing}

(* The content of every recording it looked behind a manifest for was      *)
(* compared, unless it was gone.                                           *)
ComparedInv ==
    Walking \/ verdict = "verified" =>
        \A m \in entries \ unchecked :
            \/ m.this \notin files
            \/ m.this \in signed
            \/ at = "hash" /\ m.this = recording

(* What a verdict of "verified" over the whole storage rests on.           *)
VerifiedInv ==
    verdict = "verified" /\ target = Nothing =>
        /\ check_chain => CheckSingleChain(entries, expected_head)
        /\ recordings \subseteq signed
        /\ unlisted = {}
        /\ unchecked = {}

(* A recording left unsigned gets no manifest and is not opened again; the *)
(* auditor finds it as long as it is there.                                *)
UnsignedInv ==
    /\ unsigned \subseteq Hashes
    /\ \A f \in unsigned :
        /\ f \notin HashesOf(sidecars)
        /\ \A r \in Recorders, p \in Parts : f = <<r, p>> =>
            /\ p <= part[r]
            /\ p = part[r] => pc[r] \in Stopped \cup {"between"}
    /\ (Walking \/ verdict = "verified") /\ target = Nothing =>
        unsigned \cap files \subseteq recordings \cup Ahead

(* What the auditor has read is what is there, and no part is under way.   *)
UpToDate ==
    /\ \A r \in Recorders : ~InProgress(r)
    /\ tip = TipManifestHash(log)
    /\ expected_head \in {head, Nothing}
    /\ recordings \subseteq files
    /\ at = "hash" => recording \in files
    /\ Walking /\ target = Nothing =>
        \A m \in sidecars : m \in entries \/ m.this \in Ahead

(* That is so as long as nothing was written or deleted, on a host without *)
(* a fault.                                                                *)
UndisturbedInv ==
    faults = 0 /\ ~disturbed =>
        /\ at = "over" => verdict = "verified"
        /\ Auditing => UpToDate

AuditInv ==
    /\ FilesInv
    /\ SeenInv
    /\ HeadSeenInv
    /\ ComparedInv
    /\ VerifiedInv
    /\ UnsignedInv
    /\ UndisturbedInv
-----------------------------------------------------------------------------
(* The host, as the auditor's run leaves it ********************************)

(* Every step of Audit is a step of Chain, or none of Chain's.             *)
LEMMA HostNext ==
    ASSUME [AuditNext]_auditVars
    PROVE  [Next]_vars
BY DEF AuditNext, auditVars, OpenRecording, CommitStep, OtherStep, Prune, Auditor,
   StartAudit, ReadExpectedHead, List, LoadSingle, LookBehind, HashRecording,
   Conclude, AllOver, Next

(* So all that is proved of Chain holds beside the auditor.                *)
THEOREM AuditKeepsChain == AuditSpec => Spec
<1>1. AuditInit => Init
  BY DEF AuditInit
<1>2. [AuditNext]_auditVars => [Next]_vars
  BY HostNext
<1> QED
  BY <1>1, <1>2, PTL DEF AuditSpec, Spec

(* Manifests, history, part numbers and faults only grow.                  *)
LEMMA Grows ==
    ASSUME AtRest, [Next]_vars
    PROVE  /\ sidecars \subseteq sidecars'
           /\ HashesOf(sidecars) \subseteq HashesOf(sidecars')
           /\ Published \subseteq Published'
           /\ \A r \in Recorders : part[r] <= part'[r]
           /\ faults \in Nat /\ faults' \in Nat /\ faults <= faults'
<1>1. TypeOK /\ faults \in Nat /\ spine \in Seq(Manifests)
  BY DEF AtRest, IInv, TypeOK
<1>2. sidecars \subseteq sidecars'
  BY DEF Next, Commit, Session, Faulty, AllStopped, EndPart, AcquireLock,
     ReadHead, WriteSidecar, WriteHeadTmp, RenameHead, ReadLogTip, AppendLog,
     Unlock, NextPart, EndSession, CallFails, AppendFails, Crash, vars, disk
<1>3. HashesOf(sidecars) \subseteq HashesOf(sidecars')
  BY <1>2 DEF HashesOf
<1>4. spine' = spine \/ \E r \in Recorders : RenameHead(r)
  BY DEF Next, Commit, Session, Faulty, AllStopped, EndPart, AcquireLock,
     ReadHead, WriteSidecar, WriteHeadTmp, ReadLogTip, AppendLog,
     Unlock, NextPart, EndSession, CallFails, AppendFails, Crash, vars, disk
<1>5. Published \subseteq Published'
  <2>1. CASE spine' = spine
    BY <2>1 DEF Published
  <2>2. ASSUME NEW r \in Recorders, RenameHead(r) PROVE Published \subseteq Published'
    <3>1. spine' = Append(spine, Manifest(Mine(r), head))
      BY <2>2, Publishes DEF AtRest
    <3>2. DOMAIN spine \subseteq DOMAIN spine' /\ \A i \in DOMAIN spine : spine'[i] = spine[i]
      BY <1>1, <3>1
    <3> QED
      BY <3>2 DEF Published
  <2> QED
    BY <1>4, <2>1, <2>2
<1>6. part' = part \/ \E r \in Recorders : part' = [part EXCEPT ![r] = @ + 1]
  BY DEF Next, Commit, Session, Faulty, AllStopped, EndPart, AcquireLock,
     ReadHead, WriteSidecar, WriteHeadTmp, RenameHead, ReadLogTip, AppendLog,
     Unlock, NextPart, EndSession, CallFails, AppendFails, Crash, vars, mine
<1>7. ASSUME NEW r \in Recorders PROVE part[r] <= part'[r]
  <2>1. part \in [Recorders -> Nat]
    BY <1>1 DEF TypeOK, Parts
  <2>2. part[r] \in Nat /\ (part'[r] = part[r] \/ part'[r] = part[r] + 1)
    BY <1>6, <2>1
  <2> QED
    BY <2>2
<1>8. faults' = faults \/ faults' = faults + 1
  BY DEF Next, Commit, Session, Faulty, AllStopped, EndPart, AcquireLock,
     ReadHead, WriteSidecar, WriteHeadTmp, RenameHead, ReadLogTip, AppendLog,
     Unlock, NextPart, EndSession, CallFails, AppendFails, Crash, Fault, vars
<1> QED
  BY <1>1, <1>2, <1>3, <1>5, <1>7, <1>8

(* One recorder moves from one label to another; its part number changes   *)
(* between parts only.                                                     *)
LEMMA OneMoves ==
    ASSUME TypeOK, NEW r \in Recorders, Commit(r) \/ Session(r) \/ Faulty(r)
    PROVE  /\ \A s \in Recorders : s # r => pc'[s] = pc[s] /\ Mine(s)' = Mine(s)
           /\ \/ Mine(r)' = Mine(r) /\ pc[r] \notin Stopped
              \/ /\ pc[r] = "between" /\ pc'[r] = "record"
                 /\ part'[r] = part[r] + 1
           /\ pc'[r] \in Critical \cup {"acquire"} =>
                pc[r] \in Critical \cup {"acquire", "record"}
           /\ faults' = faults /\ pc[r] \in Unwritten =>
                pc'[r] \in Unwritten \/ Mine(r) \in HashesOf(sidecars')
           /\ pc[r] = "between" => pc'[r] \in Stopped \/ part'[r] = part[r] + 1
<1> USE DEF Goto, mine, TypeOK, Stopped, Critical, Unwritten, Mine
<1>1. CASE WriteSidecar(r)
  <2>1. Mine(r) \in HashesOf(sidecars')
    <3> DEFINE m == Manifest(Mine(r), prev[r])
    <3>1. m \in sidecars' /\ m.this = Mine(r)
      BY <1>1 DEF WriteSidecar, Manifest
    <3> HIDE DEF m
    <3> QED
      BY <3>1 DEF HashesOf
  <2> QED
    BY <1>1, <2>1 DEF WriteSidecar
<1>2. CASE NextPart(r)
  BY <1>2 DEF NextPart
<1>3. CASE EndPart(r) \/ EndSession(r)
  BY <1>3 DEF EndPart, EndSession
<1>4. CASE AcquireLock(r) \/ ReadHead(r) \/ WriteHeadTmp(r) \/ RenameHead(r)
  BY <1>4 DEF AcquireLock, ReadHead, WriteHeadTmp, RenameHead
<1>5. CASE ReadLogTip(r) \/ AppendLog(r) \/ Unlock(r)
  BY <1>5 DEF ReadLogTip, AppendLog, Unlock
<1>6. CASE CallFails(r) \/ AppendFails(r) \/ Crash(r)
  BY <1>6 DEF CallFails, AppendFails, Crash, Fault
<1> QED
  BY <1>1, <1>2, <1>3, <1>4, <1>5, <1>6 DEF Commit, Session, Faulty

LEMMA FilesStep ==
    ASSUME AtRest, FilesInv, [AuditNext]_auditVars
    PROVE  FilesInv'
<1>1. /\ HashesOf(sidecars) \subseteq HashesOf(sidecars')
      /\ \A r \in Recorders : part[r] <= part'[r]
      /\ faults \in Nat /\ faults' \in Nat /\ faults <= faults'
  BY HostNext, Grows
<1>2. TypeOK /\ TypeOK'
  BY HostNext, TypeStep DEF AtRest, IInv
<1>3. ASSUME NEW r \in Recorders, OpenRecording(r) PROVE FilesInv'
  <2>1. /\ pc[r] = "record" /\ files' = files \cup {Mine(r)} /\ Mine(r) \in Hashes
        /\ UNCHANGED <<pc, part, sidecars, faults>>
    BY <1>2, <1>3, MineType DEF OpenRecording, vars, disk, mine
  <2>2. \A s \in Recorders : Mine(s)' = Mine(s) /\ part[s] \in Nat
    BY <1>2, <2>1 DEF Mine, TypeOK, Parts
  <2>3. \A s \in Recorders, p \in Parts : <<s, p>> = Mine(r) => p <= part[s]
    BY <2>2 DEF Mine
  <2> QED
    BY <2>1, <2>2, <2>3 DEF FilesInv, Unwritten, HashesOf
<1>4. ASSUME NEW r \in Recorders, CommitStep(r) \/ OtherStep(r) PROVE FilesInv'
  <2>1. /\ files' = files /\ (Commit(r) \/ Session(r) \/ Faulty(r))
        /\ pc[r] = "record" => Mine(r) \in files
    BY <1>4 DEF CommitStep, OtherStep, HasOpened, Commit, AcquireLock, ReadHead,
       WriteSidecar, WriteHeadTmp, RenameHead, ReadLogTip, AppendLog, Unlock, Goto
  <2>2. \A s \in Recorders, p \in Parts : <<s, p>> \in files => p <= part'[s]
    BY <1>1, <1>2 DEF FilesInv, TypeOK, Parts
  <2>3. ASSUME NEW s \in Recorders, pc'[s] \in Critical \cup {"acquire"}
        PROVE  Mine(s)' \in files
    BY <1>2, <2>1, <2>3, OneMoves DEF FilesInv, Critical
  <2>4. ASSUME faults' = 0, NEW f \in files, f \notin HashesOf(sidecars')
        PROVE  \E s \in Recorders : f = Mine(s)' /\ pc'[s] \in Unwritten
    <3>1. faults = 0 /\ f \notin HashesOf(sidecars)
      BY <1>1, <2>4
    <3>2. PICK s \in Recorders : f = Mine(s) /\ pc[s] \in Unwritten
      BY <3>1 DEF FilesInv
    <3> QED
      BY <1>2, <2>1, <2>4, <3>1, <3>2, OneMoves DEF Unwritten
  <2> QED
    BY <2>1, <2>2, <2>3, <2>4 DEF FilesInv, HashesOf
<1>5. ASSUME Prune PROVE FilesInv'
  <2>1. /\ files' \subseteq files
        /\ \A r \in Recorders : InProgress(r) => Mine(r) \in files'
        /\ UNCHANGED <<pc, part, sidecars, faults>>
    BY <1>5 DEF Prune, vars, disk, mine, InProgress
  <2>2. \A s \in Recorders : Mine(s)' = Mine(s)
    BY <2>1 DEF Mine
  <2>3. \A r \in Recorders : pc[r] \in Critical \cup {"acquire"} => InProgress(r)
    BY DEF FilesInv, InProgress, Stopped, Critical
  <2> QED
    BY <2>1, <2>2, <2>3 DEF FilesInv, HashesOf
<1>6. CASE UNCHANGED <<vars, files>>
  <2>1. \A s \in Recorders : Mine(s)' = Mine(s)
    BY <1>6 DEF Mine, vars, mine
  <2> QED
    BY <1>6, <2>1 DEF FilesInv, HashesOf, vars, disk, mine
<1>7. Auditor \/ AllOver \/ UNCHANGED auditVars => UNCHANGED <<vars, files>>
  BY DEF Auditor, StartAudit, ReadExpectedHead, List, LoadSingle, LookBehind,
     HashRecording, Conclude, AllOver, auditVars
<1> QED
  BY <1>3, <1>4, <1>5, <1>6, <1>7 DEF AuditNext
-----------------------------------------------------------------------------
LEMMA AuditInvInit == AuditInit => AuditInv
<1> SUFFICES ASSUME AuditInit PROVE AuditInv
  OBVIOUS
<1> USE DEF AuditInit
<1>1. IInv
  BY InvInit
<1>2. HashesOf(sidecars) \subseteq Hashes
  BY <1>1 DEF IInv, TypeOK, Manifests, HashesOf
<1>3. \A r \in Recorders : pc[r] = "record"
  BY DEF Init
<1>4. FilesInv
  BY <1>1, <1>2, <1>3 DEF FilesInv, IInv, FreshInv, Critical
<1>5. SeenInv
  BY DEF SeenInv
<1>6. HeadSeenInv /\ ComparedInv /\ VerifiedInv
  BY DEF HeadSeenInv, ComparedInv, VerifiedInv, Walking
<1>7. UnsignedInv /\ UndisturbedInv
  BY DEF UnsignedInv, UndisturbedInv, Walking, Auditing
<1> QED
  BY <1>4, <1>5, <1>6, <1>7 DEF AuditInv

(* The host beside an audit ************************************************)

(* A step of the recorders or of the retention timer.                      *)
HostStep ==
    \/ \E r \in Recorders : OpenRecording(r) \/ CommitStep(r) \/ OtherStep(r)
    \/ Prune

(* The auditor does not move, and a new recording has no manifest yet.     *)
LEMMA HostFrame ==
    ASSUME AtRest, HostStep
    PROVE  /\ UNCHANGED auditor /\ Disturb
           /\ \A f \in files' \ files :
                /\ f \notin HashesOf(sidecars)
                /\ \E r \in Recorders : f = Mine(r) /\ pc[r] = "record"
<1>1. UNCHANGED auditor /\ Disturb
  BY DEF HostStep, OpenRecording, CommitStep, OtherStep, Prune
<1>2. ASSUME NEW f \in files' \ files
      PROVE  \E r \in Recorders : f = Mine(r) /\ pc[r] = "record"
  BY <1>2 DEF HostStep, OpenRecording, CommitStep, OtherStep, Prune
<1>3. ASSUME NEW f \in files' \ files PROVE f \notin HashesOf(sidecars)
  BY <1>2, MineFresh DEF AtRest, Unwritten
<1> QED
  BY <1>1, <1>2, <1>3

LEMMA HostSeen ==
    ASSUME AtRest, SeenInv, HeadSeenInv, ComparedInv, VerifiedInv,
           HostStep, [Next]_vars
    PROVE  SeenInv' /\ HeadSeenInv' /\ ComparedInv' /\ VerifiedInv'
<1>1. UNCHANGED auditor /\ \A f \in files' \ files : f \notin HashesOf(sidecars)
  BY HostFrame
<1> USE <1>1 DEF auditor, progress, disk_seen
<1>2. sidecars \subseteq sidecars' /\ Published \subseteq Published'
  BY Grows
<1>3. SeenInv'
  BY <1>2 DEF SeenInv, HashesOf
<1>4. HeadSeenInv' /\ VerifiedInv'
  BY DEF HeadSeenInv, VerifiedInv, Walking, Ahead, HashesOf
<1>5. ComparedInv'
  <2>1. \A m \in entries : m.this \in HashesOf(sidecars)
    BY DEF SeenInv, HashesOf
  <2> QED
    BY <1>1, <2>1 DEF ComparedInv, Walking
<1> QED
  BY <1>3, <1>4, <1>5

LEMMA HostUnsigned ==
    ASSUME AtRest, UnsignedInv, HostStep, [Next]_vars
    PROVE  UnsignedInv'
<1>1. UNCHANGED auditor
  BY HostFrame
<1> USE <1>1 DEF auditor, progress, disk_seen
<1>2. TypeOK /\ \A r \in Recorders : part[r] \in Nat /\ part[r] <= part'[r]
  BY Grows DEF AtRest, IInv, TypeOK, Parts
<1>3. \A r \in Recorders : part'[r] \in Nat
  BY <1>2, TypeStep DEF TypeOK, Parts
<1>4. \A r \in Recorders : Mine(r) \in unsigned => pc[r] \in Stopped \cup {"between"}
  BY <1>2 DEF UnsignedInv, Mine, TypeOK
<1>5. ASSUME NEW f \in unsigned PROVE f \notin HashesOf(sidecars')
  <2>1. ASSUME NEW r \in Recorders, WriteSidecar(r) PROVE f \notin HashesOf(sidecars')
    <3>1. pc[r] = "write_to" /\ sidecars' = sidecars \cup {Manifest(Mine(r), prev[r])}
      BY <2>1 DEF WriteSidecar, Goto
    <3>2. f # Mine(r)
      BY <1>4, <3>1 DEF Stopped
    <3> QED
      BY <3>1, <3>2 DEF UnsignedInv, HashesOf, Manifest
  <2>2. ASSUME sidecars' = sidecars PROVE f \notin HashesOf(sidecars')
    BY <2>2 DEF UnsignedInv
  <2>3. sidecars' = sidecars \/ \E r \in Recorders : WriteSidecar(r)
    BY DEF Next, Commit, Session, Faulty, AllStopped, EndPart, AcquireLock,
       ReadHead, WriteHeadTmp, RenameHead, ReadLogTip, AppendLog,
       Unlock, NextPart, EndSession, CallFails, AppendFails, Crash, vars, disk
  <2> QED
    BY <2>1, <2>2, <2>3
<1>6. ASSUME NEW r \in Recorders, NEW p \in Parts, <<r, p>> \in unsigned
      PROVE  p <= part'[r] /\ (p = part'[r] => pc'[r] \in Stopped \cup {"between"})
  <2>1. p \in Nat /\ p <= part[r] /\ (p = part[r] => pc[r] \in Stopped \cup {"between"})
    BY <1>6 DEF UnsignedInv, Parts
  <2>2. p <= part'[r]
    BY <1>2, <1>3, <2>1
  <2>3. ASSUME p = part'[r] PROVE pc'[r] \in Stopped \cup {"between"}
    <3>1. p = part[r] /\ pc[r] \in Stopped \cup {"between"} /\ part'[r] = part[r]
      BY <1>2, <1>3, <2>1, <2>3
    <3>2. CASE UNCHANGED vars \/ AllStopped
      BY <3>1, <3>2 DEF AllStopped, vars
    <3>3. ASSUME NEW s \in Recorders, Commit(s) \/ Session(s) \/ Faulty(s)
          PROVE  pc'[r] \in Stopped \cup {"between"}
      <4>1. CASE s # r
        BY <1>2, <3>1, <3>3, <4>1, OneMoves
      <4>2. CASE s = r
        <5>1. pc[r] = "between" => pc'[r] \in Stopped
          BY <1>2, <3>1, <3>3, <4>2, OneMoves
        <5>2. pc[r] \notin Stopped
          BY <1>2, <3>1, <3>3, <4>2, OneMoves DEF Stopped
        <5> QED
          BY <3>1, <5>1, <5>2
      <4> QED
        BY <4>1, <4>2
    <3> QED
      BY <3>2, <3>3 DEF Next
  <2> QED
    BY <2>2, <2>3
<1>7. unsigned \cap files' \subseteq files
  BY <1>4, HostFrame DEF Stopped
<1> QED
  BY <1>5, <1>6, <1>7 DEF UnsignedInv, Walking, Ahead

LEMMA HostUndisturbed ==
    ASSUME AtRest, FilesInv, UndisturbedInv, HostStep, [Next]_vars
    PROVE  UndisturbedInv'
<1>1. UNCHANGED auditor /\ Disturb
  BY HostFrame
<1>2. faults \in Nat /\ faults' \in Nat /\ faults <= faults'
  BY Grows
<1>3. \A r \in Recorders : part[r] \in Nat /\ Mine(r) = <<r, part[r]>>
  BY DEF AtRest, IInv, TypeOK, Parts, Mine
<1> USE <1>1 DEF auditor, progress, disk_seen
<1> SUFFICES ASSUME faults' = 0, ~disturbed'
             PROVE  /\ at = "over" => verdict = "verified"
                    /\ Auditing => UpToDate'
  BY DEF UndisturbedInv, Auditing
<1>4. faults = 0 /\ faults' = faults /\ ~disturbed
  <2>1. faults = 0 /\ faults' = faults
    BY <1>2
  <2>2. ~disturbed
    BY DEF Disturb
  <2> QED
    BY <2>1, <2>2
<1>5. at = "over" => verdict = "verified"
  BY <1>4 DEF UndisturbedInv
<1>6. ASSUME Auditing PROVE UpToDate'
  <2>1. UpToDate /\ UNCHANGED <<disk, files>>
    BY <1>4, <1>6 DEF UndisturbedInv, Disturb
  <2>2. ~Prune /\ \A r \in Recorders : ~OpenRecording(r)
    BY <2>1 DEF Prune, OpenRecording
  <2>3. PICK r \in Recorders : CommitStep(r) \/ OtherStep(r)
    BY <2>2 DEF HostStep
  <2>4. ~InProgress(r) /\ TypeOK
    BY <2>1 DEF UpToDate, AtRest, IInv
  <2>5. pc[r] \notin Critical \cup {"acquire"}
    BY <2>4 DEF FilesInv, InProgress, Critical, Stopped
  <2>6. ~CommitStep(r) /\ ~EndPart(r)
    <3>1. ~CommitStep(r)
      BY <2>5 DEF CommitStep, Commit, AcquireLock, ReadHead, WriteSidecar,
         WriteHeadTmp, RenameHead, ReadLogTip, AppendLog, Unlock, Goto, Critical
    <3>2. ASSUME EndPart(r) PROVE FALSE
      <4>1. pc[r] = "record"
        BY <3>2 DEF EndPart, Goto
      <4> QED
        BY <2>3, <2>4, <3>1, <4>1 DEF OtherStep, HasOpened, InProgress, Stopped
    <3> QED
      BY <3>1, <3>2
  <2>7. ~Faulty(r)
    BY <1>2, <1>4 DEF Faulty, CallFails, AppendFails, Crash, Fault
  <2>8. Session(r)
    BY <2>3, <2>6, <2>7 DEF OtherStep
  <2>9. ASSUME NEW s \in Recorders PROVE ~InProgress(s)'
    <3>1. CASE s # r
      BY <2>1, <2>4, <2>8, <3>1, OneMoves DEF UpToDate, InProgress
    <3>2. CASE s = r /\ EndSession(r)
      BY <2>4, <3>2 DEF EndSession, Goto, InProgress, TypeOK, Stopped
    <3>3. CASE s = r /\ NextPart(r)
      <4>1. part'[r] = part[r] + 1 /\ part'[r] \in Parts
        <5>1. TypeOK'
          BY <2>4, TypeStep
        <5> QED
          BY <2>4, <3>3, <5>1 DEF NextPart, TypeOK
      <4>2. Mine(r)' \notin files
        BY <1>3, <4>1 DEF FilesInv, Mine
      <4> QED
        BY <2>1, <3>3, <4>2 DEF InProgress
    <3> QED
      BY <2>6, <2>8, <3>1, <3>2, <3>3 DEF Session
  <2> QED
    BY <2>1, <2>9 DEF UpToDate, disk, Walking, Ahead
<1> QED
  BY <1>5, <1>6
-----------------------------------------------------------------------------
(* The auditor's steps *****************************************************)

(* The auditor writes nothing.                                             *)
LEMMA SameHost ==
    ASSUME UNCHANGED <<vars, files>>
    PROVE  /\ UNCHANGED <<files, sidecars, head, log, spine, faults, pc, part, lock>>
           /\ HashesOf(sidecars') = HashesOf(sidecars)
           /\ Published' = Published
           /\ \A r \in Recorders : Mine(r)' = Mine(r) /\ InProgress(r)' = InProgress(r)
BY DEF vars, disk, mine, HashesOf, Published, Mine, InProgress

(* Every recording is in some directory.                                   *)
LEMMA AllInDirectories ==
    UNION {HashesIn(dir) : dir \in Directories} = Hashes
<1>1. ASSUME NEW h \in Hashes PROVE \E dir \in Directories : h \in HashesIn(dir)
  <2>1. CASE h = OldManifest
    BY <2>1 DEF HashesIn, Directories
  <2>2. CASE h # OldManifest
    <3>1. PICK r \in Recorders, p \in Parts : h = <<r, p>>
      BY <2>2 DEF Hashes
    <3> QED
      BY <3>1, DirectoryAssumption DEF HashesIn, Directories
  <2> QED
    BY <2>1, <2>2
<1>2. \A dir \in Directories : HashesIn(dir) \subseteq Hashes
  BY DEF Directories, HashesIn, Hashes
<1> QED
  BY <1>1, <1>2

(* Nobody commits while no part is in progress.                            *)
LEMMA NobodyCommits ==
    ASSUME AtRest, FilesInv, \A r \in Recorders : ~InProgress(r)
    PROVE  Quiet
<1>1. ASSUME lock # Nothing PROVE FALSE
  <2>1. PICK r \in Recorders : lock = r
    BY <1>1 DEF AtRest, IInv, TypeOK
  <2>2. pc[r] \in Critical
    BY <2>1 DEF AtRest, IInv, LockInv
  <2> QED
    BY <2>2 DEF FilesInv, InProgress, Critical, Stopped
<1> QED
  BY <1>1 DEF Quiet

LEMMA StartAuditStep ==
    ASSUME AtRest, AuditInv, FilesInv', StartAudit
    PROVE  AuditInv'
<1> USE DEF AuditInv, StartAudit, Exit, Continue
<1>1. /\ UNCHANGED <<files, sidecars, head, log, spine, faults, pc, part, lock>>
      /\ HashesOf(sidecars') = HashesOf(sidecars)
      /\ Published' = Published
      /\ \A r \in Recorders : Mine(r)' = Mine(r) /\ InProgress(r)' = InProgress(r)
  BY SameHost
<1>2. at' \in {"over", "head", "list"} /\ verdict' # "verified"
      /\ (at' = "over" => ~VerifyLog(log))
  BY DEF SeenInv
<1>3. /\ entries' = {} /\ recordings' = {} /\ unchecked' = {} /\ signed' = {}
      /\ expected_head' = Nothing
  BY DEF SeenInv
<1>4. unlisted' = Directories /\ Ahead' = Hashes
  BY AllInDirectories DEF Ahead
<1>5. SeenInv'
  BY <1>1, <1>2, <1>3, <1>4 DEF SeenInv
<1>6. HeadSeenInv' /\ ComparedInv' /\ VerifiedInv'
  BY <1>2, <1>3 DEF HeadSeenInv, ComparedInv, VerifiedInv
<1>7. UnsignedInv'
  <2>1. unsigned' = LeftUnsigned /\ unsigned' \subseteq Hashes
    BY DEF LeftUnsigned, FilesInv
  <2>2. ASSUME NEW f \in unsigned', NEW r \in Recorders, NEW p \in Parts, f = <<r, p>>
        PROVE  p <= part[r] /\ (p = part[r] => pc[r] \in Stopped \cup {"between"})
    BY <2>1, <2>2 DEF LeftUnsigned, FilesInv, InProgress, Mine
  <2>3. \A f \in unsigned' : f \notin HashesOf(sidecars)
    BY <2>1 DEF LeftUnsigned
  <2> QED
    BY <1>1, <1>4, <2>1, <2>2, <2>3 DEF UnsignedInv
<1>8. ASSUME faults = 0, ~disturbed' PROVE at' # "over" /\ UpToDate'
  <2>1. \A r \in Recorders : ~InProgress(r)
    BY <1>8
  <2>2. VerifyLog(log)
    BY <1>8, <2>1, NobodyCommits, CleanHost
  <2>3. \A m \in sidecars : m.this \in Hashes
    BY DEF AtRest, IInv, TypeOK, Manifests
  <2> QED
    BY <1>1, <1>2, <1>3, <1>4, <2>1, <2>2, <2>3 DEF UpToDate
<1>9. UndisturbedInv'
  BY <1>1, <1>8 DEF UndisturbedInv
<1> QED
  BY <1>5, <1>6, <1>7, <1>9

LEMMA ReadExpectedHeadStep ==
    ASSUME AtRest, AuditInv, FilesInv', ReadExpectedHead
    PROVE  AuditInv'
<1> USE DEF AuditInv, ReadExpectedHead, Exit, Continue
<1>1. /\ UNCHANGED <<files, sidecars, head, log, spine, faults, pc, part, lock>>
      /\ HashesOf(sidecars') = HashesOf(sidecars)
      /\ Published' = Published
      /\ \A r \in Recorders : Mine(r)' = Mine(r) /\ InProgress(r)' = InProgress(r)
  BY SameHost
<1>2. at' \in {"over", "list"} /\ verdict' # "verified"
      /\ (at' = "over" =>
            expected_head' # Nothing /\ tip # Nothing /\ expected_head' # tip)
  BY DEF SeenInv
<1>3. entries' = {} /\ recordings' = {} /\ unchecked' = {} /\ signed' = {}
  BY DEF SeenInv
<1>4. unlisted' = Directories /\ Ahead' = Hashes
  BY AllInDirectories DEF Ahead, SeenInv
<1>5. expected_head' \in Published \cup {Genesis, Nothing}
  <2>1. head = SpineTip /\ spine \in Seq(Manifests)
    BY DEF AtRest, IInv, HistoryIntact, TypeOK
  <2>2. spine # <<>> => Len(spine) \in DOMAIN spine
    BY <2>1
  <2> QED
    BY <2>1, <2>2 DEF SpineTip, Published
<1>6. SeenInv'
  BY <1>1, <1>2, <1>3, <1>4, <1>5 DEF SeenInv
<1>7. Published \subseteq Hashes
  BY SpineIsHistory, HistoryHashes DEF AtRest, Published
<1>8. HeadSeenInv' /\ ComparedInv' /\ VerifiedInv'
  BY <1>2, <1>3, <1>4, <1>5, <1>7 DEF HeadSeenInv, ComparedInv, VerifiedInv
<1>9. UnsignedInv'
  BY <1>1, <1>4 DEF UnsignedInv
<1>10. ASSUME faults = 0, ~disturbed PROVE at' # "over" /\ UpToDate'
  <2>1. UpToDate
    BY <1>10 DEF UndisturbedInv, Auditing
  <2>2. HeadMatchesLog(head, log)
    BY <1>10, <2>1, NobodyCommits, CleanTip DEF UpToDate
  <2>3. expected_head' = Nothing \/ tip = Nothing \/ expected_head' = tip
    BY <2>1, <2>2 DEF UpToDate, HeadMatchesLog, TipManifestHash
  <2>4. \A m \in sidecars : m.this \in Hashes
    BY DEF AtRest, IInv, TypeOK, Manifests
  <2> QED
    BY <1>1, <1>2, <1>3, <1>4, <2>1, <2>3, <2>4 DEF UpToDate
<1>11. UndisturbedInv'
  BY <1>1, <1>10 DEF UndisturbedInv
<1> QED
  BY <1>6, <1>8, <1>9, <1>11

LEMMA ListStep ==
    ASSUME AtRest, AuditInv, FilesInv', NEW dir \in Directories, List(dir)
    PROVE  AuditInv'
<1> USE DEF AuditInv, List, Exit, Continue
<1>1. /\ UNCHANGED <<files, sidecars, head, log, spine, faults, pc, part, lock>>
      /\ HashesOf(sidecars') = HashesOf(sidecars)
      /\ Published' = Published
      /\ \A r \in Recorders : Mine(r)' = Mine(r) /\ InProgress(r)' = InProgress(r)
  BY SameHost
<1>2. at' \in {"list", "check"} /\ verdict' # "verified"
      /\ (at' = "check" => unlisted' = {})
  BY DEF SeenInv
<1>3. /\ entries \subseteq entries' /\ entries' \subseteq sidecars
      /\ HashesOf(entries) \subseteq HashesOf(entries')
      /\ unchecked' = entries' /\ signed' = {}
  BY DEF SeenInv, HashesOf
<1>4. Ahead \subseteq Ahead' \cup HashesIn(dir)
  BY DEF Ahead
<1>5. SeenInv'
  BY <1>1, <1>2, <1>3 DEF SeenInv
<1>6. HeadSeenInv'
  <2> SUFFICES expected_head \in HashesOf(entries') \cup Ahead' \cup {Genesis, Nothing}
    BY DEF HeadSeenInv
  <2>1. expected_head \in HashesOf(entries) \cup Ahead \cup {Genesis, Nothing}
    BY DEF HeadSeenInv, Walking
  <2>2. ASSUME expected_head \in HashesIn(dir), expected_head \notin {Genesis, Nothing}
        PROVE  expected_head \in HashesOf(entries')
    <3>1. expected_head \in HashesOf(sidecars)
      BY <2>2, PublishedOnDisk DEF SeenInv, AtRest, IInv
    <3> QED
      BY <2>2, <3>1 DEF HashesOf
  <2> QED
    BY <1>3, <1>4, <2>1, <2>2
<1>7. ComparedInv' /\ VerifiedInv'
  BY <1>2, <1>3 DEF ComparedInv, VerifiedInv
<1>8. UnsignedInv'
  BY <1>1, <1>4 DEF UnsignedInv, Walking
<1>9. ASSUME faults = 0, ~disturbed PROVE at' # "over" /\ UpToDate'
  <2>1. UpToDate
    BY <1>9 DEF UndisturbedInv, Auditing
  <2>2. \A m \in sidecars : m \in entries' \/ m.this \in Ahead'
    BY <1>3, <1>4, <2>1 DEF UpToDate, Walking
  <2> QED
    BY <1>1, <1>2, <2>1, <2>2 DEF UpToDate
<1>10. UndisturbedInv'
  BY <1>1, <1>9 DEF UndisturbedInv
<1> QED
  BY <1>5, <1>6, <1>7, <1>8, <1>10

LEMMA LoadSingleStep ==
    ASSUME AtRest, AuditInv, FilesInv', LoadSingle
    PROVE  AuditInv'
<1> USE DEF AuditInv, LoadSingle, Exit, Continue
<1>1. /\ UNCHANGED <<files, sidecars, head, log, spine, faults, pc, part, lock>>
      /\ HashesOf(sidecars') = HashesOf(sidecars)
      /\ Published' = Published
      /\ \A r \in Recorders : Mine(r)' = Mine(r) /\ InProgress(r)' = InProgress(r)
  BY SameHost
<1>2. verdict' # "verified" /\ entries' \subseteq sidecars /\ signed' = {}
  BY DEF SeenInv
<1>3. SeenInv'
  BY <1>1, <1>2 DEF SeenInv
<1>4. HeadSeenInv' /\ ComparedInv' /\ VerifiedInv'
  BY <1>2 DEF HeadSeenInv, ComparedInv, VerifiedInv
<1>5. UnsignedInv'
  BY <1>1 DEF UnsignedInv
<1>6. UndisturbedInv'
  BY <1>1 DEF UndisturbedInv, UpToDate, Auditing
<1> QED
  BY <1>3, <1>4, <1>5, <1>6

LEMMA LookBehindStep ==
    ASSUME AtRest, AuditInv, FilesInv', NEW m \in unchecked, LookBehind(m)
    PROVE  AuditInv'
<1> USE DEF AuditInv, LookBehind, RecordingFor, Exit, Continue, disk_seen
<1>1. /\ UNCHANGED <<files, sidecars, head, log, spine, faults, pc, part, lock>>
      /\ HashesOf(sidecars') = HashesOf(sidecars)
      /\ Published' = Published
      /\ \A r \in Recorders : Mine(r)' = Mine(r) /\ InProgress(r)' = InProgress(r)
  BY SameHost
<1>2. verdict' # "verified" /\ at' \in {"hash", "check"}
      /\ (at' = "hash" => m.this \in files /\ recording' = m.this)
      /\ (m.this \in files => at' = "hash" /\ m.this = recording')
  BY DEF SeenInv
<1>3. m \in entries /\ unchecked' \subseteq unchecked
  BY DEF SeenInv
<1>4. SeenInv'
  BY <1>1, <1>2, <1>3 DEF SeenInv, HashesOf
<1>5. HeadSeenInv' /\ VerifiedInv'
  BY <1>2 DEF HeadSeenInv, VerifiedInv, Walking, Ahead, HashesOf
<1>6. ComparedInv'
  BY <1>1, <1>2 DEF ComparedInv, Walking
<1>7. UnsignedInv'
  BY <1>1 DEF UnsignedInv, Walking, Ahead
<1>8. UndisturbedInv'
  BY <1>1, <1>2 DEF UndisturbedInv, UpToDate, Auditing, Walking, Ahead
<1> QED
  BY <1>4, <1>5, <1>6, <1>7, <1>8

LEMMA HashRecordingStep ==
    ASSUME AtRest, AuditInv, FilesInv', HashRecording
    PROVE  AuditInv'
<1> USE DEF AuditInv, HashRecording, Exit, Continue, disk_seen
<1>1. /\ UNCHANGED <<files, sidecars, head, log, spine, faults, pc, part, lock>>
      /\ HashesOf(sidecars') = HashesOf(sidecars)
      /\ Published' = Published
      /\ \A r \in Recorders : Mine(r)' = Mine(r) /\ InProgress(r)' = InProgress(r)
  BY SameHost
<1>2. verdict' # "verified" /\ at' \in {"over", "check"}
      /\ (at' = "over" => recording \notin files)
      /\ (at' = "check" => signed' = signed \cup {recording})
      /\ signed' \in {signed, signed \cup {recording}}
  BY DEF SeenInv
<1>3. recording \in HashesOf(entries)
  BY DEF SeenInv, HashesOf
<1>4. SeenInv'
  BY <1>1, <1>2, <1>3 DEF SeenInv, HashesOf
<1>5. HeadSeenInv' /\ VerifiedInv'
  BY <1>2 DEF HeadSeenInv, VerifiedInv, Walking, Ahead, HashesOf
<1>6. ComparedInv'
  BY <1>1, <1>2 DEF ComparedInv, Walking
<1>7. UnsignedInv'
  BY <1>1, <1>2 DEF UnsignedInv, Walking, Ahead
<1>8. UndisturbedInv'
  BY <1>1, <1>2 DEF UndisturbedInv, UpToDate, Auditing, Walking, Ahead
<1> QED
  BY <1>4, <1>5, <1>6, <1>7, <1>8
-----------------------------------------------------------------------------
(* The verdict *************************************************************)

(* Manifests collected from the disk that check_single_chain accepts with  *)
(* a published head are the history up to that head.                       *)
LEMMA ChainSound ==
    ASSUME AtRest, NEW E, E \subseteq sidecars, NEW k \in DOMAIN spine,
           CheckSingleChain(E, spine[k].this)
    PROVE  E = UpTo(spine, k)
<1> DEFINE h == spine[k].this
           A == {n \in Nat : n < k => spine[k - n] \in E}
<1>1. IsHistory(spine) /\ spine \in Seq(Manifests) /\ k \in Nat \ {0}
      /\ DOMAIN spine = 1 .. Len(spine) /\ Len(spine) \in Nat
  BY SpineIsHistory DEF AtRest, IsHistory
<1>2. \A i \in DOMAIN spine : spine[i] \in sidecars
  BY DEF AtRest, IInv, HistoryIntact, OnSpine
<1>3. \A m \in E, i \in DOMAIN spine : m.this = spine[i].this => m = spine[i]
  BY <1>2 DEF AtRest, IInv, UniqueInv, NoDuplicate
<1>4. h # Genesis /\ h # Nothing
  BY <1>1, HistoryHashes, ChainAssumption
<1>5. IsFiniteSet(E) /\ NoDuplicate(E) /\ Genesis \notin HashesOf(E)
  <2>1. IsFiniteSet(E)
    BY FS_Subset DEF AtRest, DamageInv
  <2>2. NoDuplicate(E)
    BY DEF AtRest, IInv, UniqueInv, NoDuplicate
  <2>3. Genesis \notin HashesOf(E)
    BY GenesisNotOnDisk DEF AtRest, HashesOf
  <2> QED
    BY <2>1, <2>2, <2>3
<1>6. E # {}
  <2> HIDE DEF h
  <2> QED
    BY <1>4 DEF CheckSingleChain, h
<1>7. PICK from \in WalkStart(E, h) : WalksAll(E, from)
  BY <1>6 DEF CheckSingleChain
<1>8. from = h /\ h \in HashesOf(E)
  BY <1>4, <1>7 DEF WalkStart
<1>9. Linked(E)
  BY <1>6 DEF CheckSingleChain
<1>10. 0 \in A
  <2>1. PICK m \in E : m.this = spine[k].this
    BY <1>8 DEF HashesOf
  <2>2. spine[k] \in E
    BY <1>3, <2>1
  <2>3. k - 0 = k
    BY <1>1
  <2> QED
    BY <2>2, <2>3
<1>11. ASSUME NEW n \in A PROVE n + 1 \in A
  <2> SUFFICES ASSUME n + 1 < k PROVE spine[k - (n + 1)] \in E
    OBVIOUS
  <2> DEFINE i == k - n
  <2>1. i \in DOMAIN spine /\ i # 1 /\ i - 1 \in DOMAIN spine /\ k - (n + 1) = i - 1
    BY <1>1
  <2>2. spine[i] \in E
    BY <1>1
  <2> HIDE DEF i
  <2>3. spine[i].prev = spine[i - 1].this
    BY <1>1, <2>1 DEF IsHistory
  <2>4. spine[i].prev # Genesis
    BY <1>1, <2>1, <2>3, HistoryHashes
  <2>5. spine[i - 1].this \in HashesOf(E)
    BY <1>9, <2>2, <2>3, <2>4 DEF Linked
  <2>6. PICK m \in E : m.this = spine[i - 1].this
    BY <2>5 DEF HashesOf
  <2> QED
    BY <1>3, <2>1, <2>6
<1>12. A = Nat
  <2> HIDE DEF A
  <2>1. A \subseteq Nat
    BY DEF A
  <2> QED
    BY <1>10, <1>11, <2>1, NatSetInduction
<1>13. UpTo(spine, k) \subseteq E
  <2>1. ASSUME NEW i \in 1 .. k PROVE spine[i] \in E
    <3>1. k - i \in Nat /\ k - i < k /\ k - (k - i) = i
      BY <1>1
    <3>2. k - i \in A
      BY <1>12, <3>1
    <3> QED
      BY <3>1, <3>2
  <2> QED
    BY <2>1 DEF UpTo
<1> QED
  BY <1>1, <1>5, <1>7, <1>8, <1>13, WalksAllOfHistory

(* Without a head to start from, the walk starts at the one manifest that  *)
(* nothing follows: the end of the history.                                *)
LEMMA HistoryWithoutHead ==
    ASSUME AtRest, Orphans = {}, head # Genesis
    PROVE  CheckSingleChain(sidecars, Nothing)
<1> DEFINE n == Len(spine)
<1>1. spine # <<>>
  BY DEF AtRest, IInv, HistoryIntact, SpineTip
<1>2. n \in DOMAIN spine /\ UpTo(spine, n) = OnSpine /\ head = spine[n].this
  BY <1>1, SpineUpTo DEF AtRest
<1>3. IsHistory(spine) /\ spine \in Seq(Manifests)
      /\ DOMAIN spine = 1 .. n /\ n \in Nat
  BY SpineIsHistory DEF AtRest, IsHistory
<1>4. sidecars = OnSpine
  BY DEF Orphans, AtRest, IInv, HistoryIntact
<1> HIDE DEF n
<1>5. CheckSingleChain(sidecars, head)
  BY ChainVerdict
<1>6. sidecars # {}
  BY <1>2, <1>4 DEF OnSpine
<1>7. head \notin {Genesis, Nothing}
  BY <1>2, <1>3, HistoryHashes, ChainAssumption
<1>8. WalksAll(sidecars, head)
  BY <1>5, <1>6, <1>7 DEF CheckSingleChain, WalkStart
<1>9. Tips(sidecars) = {spine[n]}
  <2>1. ASSUME NEW i \in DOMAIN spine, i # n
        PROVE  \E m \in sidecars : m.prev = spine[i].this
    <3>1. i + 1 \in DOMAIN spine /\ i + 1 # 1 /\ i + 1 - 1 = i
      BY <1>3, <2>1
    <3>2. spine[i + 1].prev = spine[i].this
      BY <1>3, <3>1 DEF IsHistory
    <3> QED
      BY <1>4, <3>1, <3>2 DEF OnSpine
  <2>2. ASSUME NEW i \in DOMAIN spine PROVE spine[i].prev # spine[n].this
    <3>1. CASE i = 1
      BY <1>2, <1>3, <3>1, HistoryHashes DEF IsHistory
    <3>2. CASE i # 1
      <4>1. spine[i].prev = spine[i - 1].this /\ i - 1 \in DOMAIN spine /\ i - 1 # n
        BY <1>3, <3>2 DEF IsHistory
      <4> QED
        BY <1>2, <1>3, <4>1 DEF IsHistory
    <3> QED
      BY <3>1, <3>2
  <2>3. \A m \in sidecars : \E i \in DOMAIN spine : m = spine[i]
    BY <1>4 DEF OnSpine
  <2>4. spine[n] \in sidecars
    BY <1>2, <1>4 DEF OnSpine
  <2> QED
    BY <2>1, <2>2, <2>3, <2>4 DEF Tips
<1>10. WalkStart(sidecars, Nothing) = {head}
  <2>1. Cardinality(Tips(sidecars)) = 1
    BY <1>9, FS_Singleton
  <2>2. HashesOf(Tips(sidecars)) = {head}
    BY <1>2, <1>9 DEF HashesOf
  <2> QED
    BY <2>1, <2>2 DEF WalkStart
<1> QED
  BY <1>5, <1>6, <1>8, <1>10 DEF CheckSingleChain

(* On a host without a fault nobody commits to, check_single_chain accepts *)
(* all the manifests, with or without a readable head.hash.                *)
LEMMA CleanChain ==
    ASSUME AtRest, Quiet, faults = 0, NEW h \in {head, Nothing}
    PROVE  CheckSingleChain(sidecars, h)
<1>1. Orphans = {}
  BY CleanHost
<1>2. CASE head = Genesis
  <2>1. spine = <<>>
    BY <1>2, SpineUpTo, SpineIsHistory, HistoryHashes DEF AtRest
  <2>2. sidecars = {}
    BY <1>1, <2>1 DEF Orphans, OnSpine
  <2> QED
    BY <1>2, <2>2 DEF CheckSingleChain
<1>3. CASE head # Genesis
  BY <1>1, <1>3, ChainVerdict, HistoryWithoutHead
<1> QED
  BY <1>2, <1>3

LEMMA ConcludeStep ==
    ASSUME AtRest, AuditInv, FilesInv', Conclude
    PROVE  AuditInv'
<1> USE DEF AuditInv, Conclude, Exit, disk_seen
<1>1. /\ UNCHANGED <<files, sidecars, head, log, spine, faults, pc, part, lock>>
      /\ HashesOf(sidecars') = HashesOf(sidecars)
      /\ Published' = Published
      /\ \A r \in Recorders : Mine(r)' = Mine(r) /\ InProgress(r)' = InProgress(r)
  BY SameHost
<1>2. at' = "over" /\ unchecked = {} /\ (target = Nothing => unlisted = {})
  BY DEF SeenInv
<1>3. verdict' = "verified" /\ target = Nothing => ChainOK /\ UnsignedRecordings = {}
  OBVIOUS
<1>4. SeenInv'
  BY <1>1, <1>2 DEF SeenInv, HashesOf
<1>5. HeadSeenInv'
  BY <1>2 DEF HeadSeenInv, Walking
<1>6. VerifiedInv'
  BY <1>2, <1>3 DEF VerifiedInv, ChainOK, UnsignedRecordings
<1>7. ComparedInv'
  BY <1>1, <1>2 DEF ComparedInv, Walking
<1>8. UnsignedInv'
  BY <1>1 DEF UnsignedInv, Walking, Ahead
<1>9. ASSUME faults = 0, ~disturbed, target = Nothing
      PROVE  ChainOK /\ UnsignedRecordings = {}
  <2>1. UpToDate
    BY <1>9 DEF UndisturbedInv, Auditing
  <2>2. Quiet
    BY <2>1, NobodyCommits DEF UpToDate
  <2>3. entries = sidecars
    <3>1. Ahead = {}
      BY <1>2, <1>9 DEF Ahead
    <3> QED
      BY <1>9, <2>1, <3>1 DEF UpToDate, Walking, SeenInv
  <2>4. ChainOK
    BY <1>9, <2>1, <2>2, <2>3, CleanChain DEF ChainOK, UpToDate
  <2>5. ASSUME NEW f \in recordings PROVE f \in signed
    <3>1. f \in files
      BY <2>1 DEF UpToDate
    <3>2. f \in HashesOf(sidecars)
      <4>1. SUFFICES ASSUME f \notin HashesOf(sidecars) PROVE FALSE
        OBVIOUS
      <4>2. PICK r \in Recorders : f = Mine(r) /\ pc[r] \in Unwritten
        BY <1>9, <3>1, <4>1 DEF FilesInv
      <4>3. InProgress(r)
        BY <3>1, <4>2 DEF InProgress, Unwritten, Stopped
      <4> QED
        BY <2>1, <4>3 DEF UpToDate
    <3>3. PICK m \in entries \ unchecked : m.this = f
      BY <1>2, <2>3, <3>2 DEF HashesOf
    <3> QED
      BY <3>1, <3>3 DEF ComparedInv, Walking
  <2> QED
    BY <2>4, <2>5 DEF UnsignedRecordings
<1>10. UndisturbedInv'
  BY <1>1, <1>2, <1>9 DEF UndisturbedInv, Auditing
<1> QED
  BY <1>4, <1>5, <1>6, <1>7, <1>8, <1>10
-----------------------------------------------------------------------------
(* The theorems ************************************************************)

LEMMA AuditInvStep ==
    ASSUME AtRest, AuditInv, [AuditNext]_auditVars
    PROVE  AuditInv'
<1>1. FilesInv'
  BY FilesStep DEF AuditInv
<1>2. [Next]_vars
  BY HostNext
<1>3. CASE HostStep
  BY <1>1, <1>2, <1>3, HostSeen, HostUnsigned, HostUndisturbed DEF AuditInv
<1>4. CASE Auditor
  BY <1>1, <1>4, StartAuditStep, ReadExpectedHeadStep, ListStep, LoadSingleStep,
     LookBehindStep, HashRecordingStep, ConcludeStep DEF Auditor
<1>5. CASE UNCHANGED auditVars
  <2>1. UNCHANGED <<vars, files>>
    BY <1>5 DEF auditVars
  <2>2. /\ UNCHANGED <<files, sidecars, head, log, spine, faults, pc, part, lock>>
        /\ HashesOf(sidecars') = HashesOf(sidecars)
        /\ Published' = Published
        /\ \A r \in Recorders : Mine(r)' = Mine(r) /\ InProgress(r)' = InProgress(r)
    BY <2>1, SameHost
  <2> USE <1>5, <2>2 DEF auditVars, auditor, progress, disk_seen, AuditInv
  <2>3. SeenInv' /\ HeadSeenInv' /\ ComparedInv' /\ VerifiedInv'
    BY DEF SeenInv, HeadSeenInv, ComparedInv, VerifiedInv, Walking, Ahead, HashesOf
  <2>4. UnsignedInv'
    BY DEF UnsignedInv, Walking, Ahead
  <2>5. UndisturbedInv'
    BY DEF UndisturbedInv, UpToDate, Auditing, Walking, Ahead
  <2> QED
    BY <1>1, <2>3, <2>4, <2>5
<1> QED
  BY <1>3, <1>4, <1>5 DEF AuditNext, AllOver, HostStep

(* What holds of the host and what the auditor has seen of it, together.   *)
THEOREM AuditInvariance == AuditSpec => [](AtRest /\ AuditInv)
<1>1. AuditInit => AuditInv
  BY AuditInvInit
<1>2. AtRest /\ AuditInv /\ [AuditNext]_auditVars => AuditInv'
  BY AuditInvStep
<1>3. AuditSpec => []AtRest
  BY AuditKeepsChain, RestInvariance, PTL
<1> QED
  BY <1>1, <1>2, <1>3, PTL DEF AuditSpec

(* An audit of a host without a fault, during which nothing was written or *)
(* deleted, ends with "verified".                                          *)
THEOREM UndisturbedAuditAlwaysVerifies == AuditSpec => []UndisturbedAuditVerifies
<1>1. AuditInv => UndisturbedAuditVerifies
  BY DEF AuditInv, UndisturbedInv, UndisturbedAuditVerifies
<1> QED
  BY <1>1, AuditInvariance, PTL

(* The walk never misses the manifest of the head it read, whatever is     *)
(* committed or pruned meanwhile.                                          *)
THEOREM NeverFalseTruncation == AuditSpec => []NoFalseTruncation
<1>1. AuditInv => NoFalseTruncation
  BY DEF AuditInv, SeenInv, HeadSeenInv, NoFalseTruncation, Walking, Ahead
<1> QED
  BY <1>1, AuditInvariance, PTL

(* What was verified as one chain is the history up to the head that was   *)
(* read, and the content of each recording of it still there was compared. *)
THEOREM VerifiedAlwaysHistory == AuditSpec => []VerifiedIsHistory
<1>1. AtRest /\ AuditInv => VerifiedIsHistory
  <2> SUFFICES ASSUME AtRest, AuditInv,
                      verdict = "verified", check_chain, target = Nothing
               PROVE  /\ expected_head \notin {Genesis, Nothing} =>
                            \E k \in DOMAIN spine :
                                /\ spine[k].this = expected_head
                                /\ entries = {spine[i] : i \in 1 .. k}
                      /\ HashesOf(entries) \cap files \subseteq signed
    BY DEF VerifiedIsHistory
  <2> USE DEF AuditInv
  <2>1. CheckSingleChain(entries, expected_head) /\ unchecked = {} /\ at = "over"
    BY DEF VerifiedInv, SeenInv
  <2>2. ASSUME expected_head \notin {Genesis, Nothing}
        PROVE  \E k \in DOMAIN spine :
                  spine[k].this = expected_head /\ entries = {spine[i] : i \in 1 .. k}
    <3>1. PICK k \in DOMAIN spine : spine[k].this = expected_head
      BY <2>2 DEF SeenInv, Published
    <3>2. entries = UpTo(spine, k)
      BY <2>1, <3>1, ChainSound DEF SeenInv
    <3> QED
      BY <3>1, <3>2 DEF UpTo
  <2>3. HashesOf(entries) \cap files \subseteq signed
    BY <2>1 DEF ComparedInv, HashesOf
  <2> QED
    BY <2>2, <2>3
<1> QED
  BY <1>1, AuditInvariance, PTL

(* A recording left without a manifest before the audit is not passed by   *)
(* it as long as it is there.                                              *)
THEOREM UnsignedAlwaysFound == AuditSpec => []UnsignedFound
<1>1. AuditInv => UnsignedFound
  <2> SUFFICES ASSUME AuditInv, verdict = "verified", target = Nothing,
                      NEW f \in unsigned \cap files
               PROVE  FALSE
    BY DEF UnsignedFound
  <2> USE DEF AuditInv
  <2>1. recordings \subseteq signed /\ Ahead = {}
    BY DEF VerifiedInv, Ahead
  <2>2. f \in HashesOf(entries)
    BY <2>1 DEF UnsignedInv, SeenInv
  <2>3. f \in HashesOf(sidecars)
    BY <2>2 DEF SeenInv, HashesOf
  <2> QED
    BY <2>3 DEF UnsignedInv
<1> QED
  BY <1>1, AuditInvariance, PTL
=============================================================================
