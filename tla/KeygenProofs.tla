---------------------------- MODULE KeygenProofs ----------------------------
(***************************************************************************)
(* What TLAPS proves of the signing key, in Keygen: of keygen and the      *)
(* recorders that use its files, for every number of crashes, power        *)
(* losses, failing calls and interventions of the operator.                *)
(***************************************************************************)
EXTENDS Keygen, TLAPS

Modes == {"0400", "0444"}
Files == {NoFile} \cup [id : Nat \ {NoKey}, mode : Modes, owner : Accounts \cup {"root"}]
Dirs == [key : Files, pub : Files, tmp : Files]

(* One version of the directory.  The last part is what lets the two files *)
(* share a temporary name: a tmp left by a run that wrote a key is met     *)
(* only by runs that write one, and likewise for the public half.          *)
Sound(d) ==
    /\ d.key # NoFile => d.key.mode = "0400"
    /\ d.pub # NoFile => d.pub.mode = "0444" /\ d.key # NoFile /\ d.pub.id = d.key.id
    /\ d.tmp # NoFile => d.tmp.mode = IF d.key = NoFile THEN "0400" ELSE "0444"

(* A key, once it is there, is there in every later version.               *)
SameKey ==
    \A i, j \in DOMAIN versions :
        i <= j /\ versions[i].key # NoFile => versions[j].key.id = versions[i].key.id

VersionsInv ==
    /\ versions \in Seq(Dirs) /\ versions # <<>>
    /\ \A i \in DOMAIN versions : Sound(versions[i])
    /\ SameKey

(* What the run of keygen knows of the directory it sees.                  *)
RunInv ==
    /\ made \in Nat
    /\ account \in Accounts /\ owner_user \in Accounts
    /\ pc # "off" => exit = "none"
    /\ pc \in {"generate", "rename key"} => dir.key = NoFile
    /\ pc \in {"write pub", "rename pub", "chown key", "chown pub"} => dir.key # NoFile
    /\ pc \in {"write pub", "rename pub"} => kp = dir.key.id
    /\ pc \in {"rename key", "rename pub"} => dir.tmp # NoFile /\ dir.tmp.id = kp
    /\ pc = "chown pub" => dir.key.owner = owner_user
    /\ exit = "0" =>
        dir.key # NoFile /\ dir.key.owner = owner_user /\ dir.pub # NoFile

(* What a recorder holds is the key that is there.                         *)
RecorderInv ==
    /\ loaded # NoKey => loaded = dir.key.id
    /\ NoKey \notin signed
    /\ SignedKeySurvives

KInv == VersionsInv /\ RunInv /\ RecorderInv
-----------------------------------------------------------------------------
(* The directory ***********************************************************)

LEMMA Kinds == /\ NoFile \in Files /\ NoFile.id = NoKey /\ NoFile.mode = "none"
               /\ \A f \in Files : f # NoFile <=> f.id # NoKey
               /\ \A f \in Files : f.id \in Nat
BY DEF Files, NoFile, NoKey, Modes

LEMMA DirIs ==
    ASSUME VersionsInv
    PROVE  /\ dir \in Dirs /\ Sound(dir) /\ Len(versions) \in Nat \ {0}
           /\ DOMAIN versions = 1 .. Len(versions) /\ dir = versions[Len(versions)]
           /\ dir.key \in Files /\ dir.pub \in Files /\ dir.tmp \in Files
<1>1. /\ versions \in Seq(Dirs) /\ Len(versions) \in Nat \ {0}
      /\ DOMAIN versions = 1 .. Len(versions) /\ dir = versions[Len(versions)]
  BY DEF VersionsInv, dir, Last
<1>2. dir \in Dirs /\ Sound(dir)
  BY <1>1 DEF VersionsInv
<1> QED
  BY <1>1, <1>2 DEF Dirs

(* A call of keygen's that changes the directory keeps it sound, and the   *)
(* oldest version of it.                                                   *)
LEMMA Changed ==
    ASSUME VersionsInv, NEW new \in Dirs, Sound(new), Change(new),
           dir.key # NoFile => new.key.id = dir.key.id
    PROVE  VersionsInv' /\ dir' = new /\ versions'[1] = versions[1]
<1>1. /\ versions \in Seq(Dirs) /\ Len(versions) \in Nat \ {0}
      /\ DOMAIN versions = 1 .. Len(versions) /\ dir = versions[Len(versions)]
      /\ dir.key \in Files
  BY DirIs DEF VersionsInv
<1>2. CASE new = dir
  <2>1. versions' = versions
    BY <1>2 DEF Change
  <2> QED
    BY <1>2, <2>1 DEF VersionsInv, SameKey, dir
<1>3. CASE new # dir
  <2> DEFINE n == Len(versions)
  <2>1. /\ versions' \in Seq(Dirs) /\ versions' # <<>> /\ Len(versions') = n + 1
        /\ DOMAIN versions' = 1 .. n + 1 /\ versions'[n + 1] = new
        /\ \A i \in 1 .. n : versions'[i] = versions[i]
    BY <1>1, <1>3 DEF Change
  <2>2. dir' = new /\ versions'[1] = versions[1]
    BY <1>1, <2>1 DEF dir, Last
  <2>3. \A i \in DOMAIN versions' : Sound(versions[i])'
    <3> SUFFICES ASSUME NEW i \in DOMAIN versions' PROVE Sound(versions'[i])
      BY DEF Sound
    <3>1. i = n + 1 \/ i \in DOMAIN versions
      BY <1>1, <2>1
    <3> QED
      BY <1>1, <2>1, <3>1 DEF VersionsInv
  <2>4. SameKey'
    <3> SUFFICES ASSUME NEW i \in DOMAIN versions', NEW j \in DOMAIN versions',
                        i <= j, versions'[i].key # NoFile
                 PROVE  versions'[j].key.id = versions'[i].key.id
      BY DEF SameKey
    <3>1. CASE j \in 1 .. n
      BY <1>1, <2>1, <3>1 DEF VersionsInv, SameKey
    <3>2. CASE i = n + 1
      BY <1>1, <2>1, <3>2
    <3>3. CASE j = n + 1 /\ i \in 1 .. n
      <4>1. n \in DOMAIN versions /\ i \in DOMAIN versions /\ i <= n
        BY <1>1, <3>3
      <4>2. versions[i].key # NoFile /\ versions[i].key \in Files
        <5>1. versions[i] \in Dirs /\ versions'[i] = versions[i]
          BY <1>1, <2>1, <3>3, <4>1
        <5> QED
          BY <5>1 DEF Dirs
      <4>3. versions[n].key.id = versions[i].key.id
        BY <4>1, <4>2 DEF VersionsInv, SameKey
      <4>4. dir.key # NoFile
        BY <1>1, <4>2, <4>3, Kinds
      <4> QED
        BY <1>1, <2>1, <3>3, <4>3, <4>4
    <3> QED
      BY <2>1, <1>1, <3>1, <3>2, <3>3
  <2> QED
    BY <2>1, <2>2, <2>3, <2>4 DEF VersionsInv
<1> QED
  BY <1>2, <1>3

(* What keygen does to it: a file under the temporary name ...             *)
LEMMA WithTmp ==
    ASSUME NEW d \in Dirs, NEW f \in Files
    PROVE  LET new == [d EXCEPT !.tmp = f]
           IN  new \in Dirs /\ new.key = d.key /\ new.pub = d.pub /\ new.tmp = f
BY DEF Dirs

(* ... that is renamed ...                                                 *)
LEMMA KeyRenamed ==
    ASSUME NEW d \in Dirs
    PROVE  LET new == [d EXCEPT !.key = d.tmp, !.tmp = NoFile]
           IN  /\ new \in Dirs /\ new.key = d.tmp /\ new.pub = d.pub /\ new.tmp = NoFile
BY DEF Dirs, Files

LEMMA PubRenamed ==
    ASSUME NEW d \in Dirs
    PROVE  LET new == [d EXCEPT !.pub = d.tmp, !.tmp = NoFile]
           IN  /\ new \in Dirs /\ new.key = d.key /\ new.pub = d.tmp /\ new.tmp = NoFile
BY DEF Dirs, Files

LEMMA WithoutPub ==
    ASSUME NEW d \in Dirs
    PROVE  LET new == [d EXCEPT !.pub = NoFile]
           IN  /\ new \in Dirs /\ new.key = d.key /\ new.pub = NoFile /\ new.tmp = d.tmp
BY DEF Dirs, Files

(* ... and given to the recorder's account.                                *)
LEMMA Chowned ==
    ASSUME NEW d \in Dirs, NEW user \in Accounts
    PROVE  /\ d.key # NoFile =>
                LET new == [d EXCEPT !.key.owner = user]
                IN  /\ new \in Dirs /\ new.pub = d.pub /\ new.tmp = d.tmp
                    /\ new.key # NoFile /\ new.key.id = d.key.id
                    /\ new.key.mode = d.key.mode /\ new.key.owner = user
           /\ d.pub # NoFile =>
                LET new == [d EXCEPT !.pub.owner = user]
                IN  /\ new \in Dirs /\ new.key = d.key /\ new.tmp = d.tmp
                    /\ new.pub # NoFile /\ new.pub.id = d.pub.id
                    /\ new.pub.mode = d.pub.mode
<1>1. ASSUME NEW f \in Files, f # NoFile
      PROVE  LET g == [f EXCEPT !.owner = user]
             IN  g \in Files /\ g # NoFile /\ g.id = f.id /\ g.mode = f.mode /\ g.owner = user
  <2>1. f \in [id : Nat \ {NoKey}, mode : Modes, owner : Accounts \cup {"root"}]
    BY <1>1 DEF Files
  <2> QED
    BY <2>1 DEF Files, NoFile, Modes
<1>2. d = [key |-> d.key, pub |-> d.pub, tmp |-> d.tmp]
      /\ d.key \in Files /\ d.pub \in Files /\ d.tmp \in Files
  BY DEF Dirs
<1>3. ASSUME d.key # NoFile
      PROVE  LET new == [d EXCEPT !.key.owner = user]
             IN  /\ new \in Dirs /\ new.pub = d.pub /\ new.tmp = d.tmp
                 /\ new.key # NoFile /\ new.key.id = d.key.id
                 /\ new.key.mode = d.key.mode /\ new.key.owner = user
  <2> DEFINE g == [d.key EXCEPT !.owner = user]
  <2>1. g \in Files /\ g # NoFile /\ g.id = d.key.id /\ g.mode = d.key.mode /\ g.owner = user
    BY <1>1, <1>2, <1>3
  <2>2. [d EXCEPT !.key.owner = user] = [d EXCEPT !.key = g]
    BY <1>2
  <2> HIDE DEF g
  <2>3. LET new == [d EXCEPT !.key = g]
        IN  new \in Dirs /\ new.key = g /\ new.pub = d.pub /\ new.tmp = d.tmp
    BY <1>2, <2>1 DEF Dirs
  <2> QED
    BY <2>1, <2>2, <2>3
<1>4. ASSUME d.pub # NoFile
      PROVE  LET new == [d EXCEPT !.pub.owner = user]
             IN  /\ new \in Dirs /\ new.key = d.key /\ new.tmp = d.tmp
                 /\ new.pub # NoFile /\ new.pub.id = d.pub.id
                 /\ new.pub.mode = d.pub.mode
  <2> DEFINE g == [d.pub EXCEPT !.owner = user]
  <2>1. g \in Files /\ g # NoFile /\ g.id = d.pub.id /\ g.mode = d.pub.mode
    BY <1>1, <1>2, <1>4
  <2>2. [d EXCEPT !.pub.owner = user] = [d EXCEPT !.pub = g]
    BY <1>2
  <2> HIDE DEF g
  <2>3. LET new == [d EXCEPT !.pub = g]
        IN  new \in Dirs /\ new.pub = g /\ new.key = d.key /\ new.tmp = d.tmp
    BY <1>2, <2>1 DEF Dirs
  <2> QED
    BY <2>1, <2>2, <2>3
<1> QED
  BY <1>3, <1>4
-----------------------------------------------------------------------------
(* The steps ***************************************************************)

LEMMA KInit == Init => KInv
<1> SUFFICES ASSUME Init PROVE KInv
  OBVIOUS
<1>1. EmptyDir \in Dirs /\ EmptyDir.key = NoFile /\ EmptyDir.pub = NoFile
      /\ EmptyDir.tmp = NoFile
  BY DEF EmptyDir, Dirs, Files
<1> HIDE DEF EmptyDir
<1>2. /\ versions = <<EmptyDir>> /\ Len(versions) = 1 /\ DOMAIN versions = {1}
      /\ versions[1] = EmptyDir /\ versions \in Seq(Dirs) /\ versions # <<>>
  BY <1>1 DEF Init
<1>3. VersionsInv
  BY <1>1, <1>2 DEF VersionsInv, Sound, SameKey
<1>4. RunInv
  BY KeygenAssumption DEF Init, RunInv
<1>5. RecorderInv
  BY DEF Init, RecorderInv, SignedKeySurvives
<1> QED
  BY <1>3, <1>4, <1>5 DEF KInv

(* A step that leaves the directory as it is, to keygen and to the disk.   *)
LEMMA SameDir ==
    ASSUME VersionsInv, UNCHANGED versions
    PROVE  VersionsInv' /\ dir' = dir
BY DEF VersionsInv, SameKey, Sound, dir

(* The recorder's key is the one that is there as long as that one stays.  *)
LEMMA SameRecorder ==
    ASSUME RecorderInv, UNCHANGED recorder, UNCHANGED moved,
           versions'[1] = versions[1],
           dir'.key.id = dir.key.id \/ dir.key.id = NoKey
    PROVE  RecorderInv'
BY DEF RecorderInv, recorder, SignedKeySurvives

LEMMA KStartKeygen == KInv /\ StartKeygen => KInv'
<1> SUFFICES ASSUME KInv, StartKeygen PROVE KInv'
  OBVIOUS
<1>1. /\ pc = "off" /\ owner_user' = account /\ UNCHANGED versions
      /\ UNCHANGED <<account, moved, made, kp>> /\ UNCHANGED recorder
      /\ (pc' = "off" /\ exit' = "78") \/ (pc' = "look" /\ exit' = "none")
  BY DEF StartKeygen, Exit, env
<1>2. VersionsInv' /\ dir' = dir
  BY <1>1, SameDir DEF KInv
<1>3. RunInv'
  BY <1>1, <1>2 DEF KInv, RunInv
<1>4. RecorderInv'
  BY <1>1, <1>2, SameRecorder DEF KInv
<1> QED
  BY <1>2, <1>3, <1>4 DEF KInv

LEMMA KLook == KInv /\ Look => KInv'
<1> SUFFICES ASSUME KInv, Look PROVE KInv'
  OBVIOUS
<1>1. /\ pc = "look" /\ pc' = WhatToDo /\ kp' = dir.key.id /\ UNCHANGED versions
      /\ UNCHANGED <<account, moved, made, owner_user, exit>> /\ UNCHANGED recorder
  BY DEF Look, Goto, env
<1>2. VersionsInv' /\ dir' = dir
  BY <1>1, SameDir DEF KInv
<1>3. RunInv'
  BY <1>1, <1>2 DEF KInv, RunInv, WhatToDo
<1>4. RecorderInv'
  BY <1>1, <1>2, SameRecorder DEF KInv
<1> QED
  BY <1>2, <1>3, <1>4 DEF KInv

(* The temporary file has the mode it was first given.                     *)
LEMMA TmpIs ==
    ASSUME VersionsInv, NEW id \in Nat \ {NoKey}, NEW mode \in Modes,
           mode = IF dir.key = NoFile THEN "0400" ELSE "0444"
    PROVE  /\ TmpFile(id, mode) \in Files /\ TmpFile(id, mode) # NoFile
           /\ TmpFile(id, mode).id = id /\ TmpFile(id, mode).mode = mode
<1>1. dir.tmp \in Files /\ (dir.tmp # NoFile => dir.tmp.mode = mode)
  BY DirIs DEF Sound
<1>2. CASE dir.tmp = NoFile
  BY <1>2 DEF TmpFile, Files, NoFile, Modes
<1>3. CASE dir.tmp # NoFile
  <2> DEFINE f == [dir.tmp EXCEPT !.id = id]
  <2>1. dir.tmp \in [id : Nat \ {NoKey}, mode : Modes, owner : Accounts \cup {"root"}]
    BY <1>1, <1>3 DEF Files
  <2>2. f \in [id : Nat \ {NoKey}, mode : Modes, owner : Accounts \cup {"root"}]
        /\ f.id = id /\ f.mode = dir.tmp.mode
    BY <2>1
  <2>3. f # NoFile
    BY <2>2 DEF NoFile, NoKey
  <2>4. TmpFile(id, mode) = f
    BY <1>3 DEF TmpFile
  <2> QED
    BY <1>1, <1>3, <2>2, <2>3, <2>4 DEF Files
<1> QED
  BY <1>2, <1>3

LEMMA KWriteKey == KInv /\ WriteKey => KInv'
<1> SUFFICES ASSUME KInv, WriteKey PROVE KInv'
  OBVIOUS
<1> DEFINE f == TmpFile(made', "0400")
           new == [dir EXCEPT !.tmp = f]
<1>1. /\ pc = "generate" /\ pc' = "rename key" /\ made' = made + 1 /\ Change(new)
      /\ UNCHANGED <<account, moved, owner_user, exit>> /\ UNCHANGED recorder
      /\ kp' = made'
  BY DEF WriteKey, Goto, env
<1>2. dir.key = NoFile /\ made' \in Nat \ {NoKey} /\ "0400" \in Modes
  <2>1. dir.key = NoFile /\ made \in Nat
    BY <1>1 DEF KInv, RunInv
  <2>2. made' = made + 1
    BY <1>1
  <2> QED
    BY <2>1, <2>2 DEF NoKey, Modes
<1>3. f \in Files /\ f # NoFile /\ f.mode = "0400" /\ f.id = made'
  BY <1>2, TmpIs DEF KInv
<1> HIDE DEF f
<1>4. new \in Dirs /\ new.key = dir.key /\ new.pub = dir.pub /\ new.tmp = f
  BY <1>3, DirIs, WithTmp DEF KInv
<1> HIDE DEF new
<1>5. Sound(new)
  BY <1>2, <1>3, <1>4, DirIs DEF Sound, KInv
<1>6. VersionsInv' /\ dir' = new /\ versions'[1] = versions[1]
  BY <1>1, <1>4, <1>5, Changed DEF KInv
<1>7. RunInv'
  BY <1>1, <1>2, <1>3, <1>4, <1>6 DEF KInv, RunInv
<1>8. RecorderInv'
  BY <1>1, <1>4, <1>6, SameRecorder DEF KInv
<1> QED
  BY <1>6, <1>7, <1>8 DEF KInv

LEMMA KRenameKey == KInv /\ RenameKey => KInv'
<1> SUFFICES ASSUME KInv, RenameKey PROVE KInv'
  OBVIOUS
<1> DEFINE new == [dir EXCEPT !.key = dir.tmp, !.tmp = NoFile]
<1>1. /\ pc = "rename key" /\ pc' = "write pub" /\ Change(new)
      /\ UNCHANGED <<account, moved, made, owner_user, exit, kp>> /\ UNCHANGED recorder
  BY DEF RenameKey, Goto, env
<1>2. dir.key = NoFile /\ dir.tmp # NoFile /\ Sound(dir) /\ dir.key.id = NoKey
  BY <1>1, DirIs, Kinds DEF KInv, RunInv
<1>3. new \in Dirs /\ new.key = dir.tmp /\ new.pub = dir.pub /\ new.tmp = NoFile
  BY DirIs, KeyRenamed DEF KInv
<1> HIDE DEF new
<1>4. Sound(new)
  BY <1>2, <1>3 DEF Sound
<1>5. VersionsInv' /\ dir' = new /\ versions'[1] = versions[1]
  BY <1>1, <1>2, <1>3, <1>4, Changed DEF KInv
<1>6. kp' = new.key.id
  BY <1>1, <1>3 DEF KInv, RunInv
<1>7. RunInv'
  BY <1>1, <1>2, <1>3, <1>5, <1>6 DEF KInv, RunInv
<1>8. RecorderInv'
  BY <1>1, <1>2, <1>5, SameRecorder DEF KInv
<1> QED
  BY <1>5, <1>7, <1>8 DEF KInv

LEMMA KWritePub == KInv /\ WritePub => KInv'
<1> SUFFICES ASSUME KInv, WritePub PROVE KInv'
  OBVIOUS
<1> DEFINE f == TmpFile(kp, "0444")
           new == [dir EXCEPT !.tmp = f]
<1>1. /\ pc = "write pub" /\ pc' = "rename pub" /\ Change(new) /\ kp' = kp
      /\ UNCHANGED <<account, moved, made, owner_user, exit>> /\ UNCHANGED recorder
  BY DEF WritePub, Goto, env
<1>2. dir.key # NoFile /\ kp = dir.key.id /\ kp \in Nat \ {NoKey} /\ "0444" \in Modes
  <2>1. dir.key # NoFile /\ kp = dir.key.id /\ dir.key \in Files
    BY <1>1, DirIs DEF KInv, RunInv
  <2> QED
    BY <2>1, Kinds DEF Modes
<1>3. f \in Files /\ f # NoFile /\ f.mode = "0444" /\ f.id = kp
  BY <1>2, TmpIs DEF KInv
<1> HIDE DEF f
<1>4. new \in Dirs /\ new.key = dir.key /\ new.pub = dir.pub /\ new.tmp = f
  BY <1>3, DirIs, WithTmp DEF KInv
<1> HIDE DEF new
<1>5. Sound(new)
  BY <1>2, <1>3, <1>4, DirIs DEF Sound, KInv
<1>6. VersionsInv' /\ dir' = new /\ versions'[1] = versions[1]
  BY <1>1, <1>4, <1>5, Changed DEF KInv
<1>7. RunInv'
  BY <1>1, <1>2, <1>3, <1>4, <1>6 DEF KInv, RunInv
<1>8. RecorderInv'
  BY <1>1, <1>4, <1>6, SameRecorder DEF KInv
<1> QED
  BY <1>6, <1>7, <1>8 DEF KInv

LEMMA KRenamePub == KInv /\ RenamePub => KInv'
<1> SUFFICES ASSUME KInv, RenamePub PROVE KInv'
  OBVIOUS
<1> DEFINE new == [dir EXCEPT !.pub = dir.tmp, !.tmp = NoFile]
<1>1. /\ pc = "rename pub" /\ pc' = "chown key" /\ Change(new) /\ kp' = kp
      /\ UNCHANGED <<account, moved, made, owner_user, exit>> /\ UNCHANGED recorder
  BY DEF RenamePub, Goto, env
<1>2. /\ dir.key # NoFile /\ dir.tmp # NoFile /\ Sound(dir)
      /\ dir.tmp.id = kp /\ kp = dir.key.id
  BY <1>1, DirIs DEF KInv, RunInv
<1>3. new \in Dirs /\ new.key = dir.key /\ new.pub = dir.tmp /\ new.tmp = NoFile
  BY DirIs, PubRenamed DEF KInv
<1> HIDE DEF new
<1>4. Sound(new)
  BY <1>2, <1>3 DEF Sound
<1>5. VersionsInv' /\ dir' = new /\ versions'[1] = versions[1]
  BY <1>1, <1>3, <1>4, Changed DEF KInv
<1>6. RunInv'
  BY <1>1, <1>2, <1>3, <1>5 DEF KInv, RunInv
<1>7. RecorderInv'
  BY <1>1, <1>3, <1>5, SameRecorder DEF KInv
<1> QED
  BY <1>5, <1>6, <1>7 DEF KInv

LEMMA KChownKey == KInv /\ ChownKey => KInv'
<1> SUFFICES ASSUME KInv, ChownKey PROVE KInv'
  OBVIOUS
<1> DEFINE new == [dir EXCEPT !.key.owner = owner_user]
<1>1. /\ pc = "chown key" /\ kp' = kp
      /\ UNCHANGED <<account, moved, made, owner_user>> /\ UNCHANGED recorder
      /\ \/ pc' = "chown pub" /\ Change(new) /\ UNCHANGED exit
         \/ pc' = "off" /\ exit' = "73" /\ UNCHANGED versions
  BY DEF ChownKey, Exit, env
<1>2. dir.key # NoFile /\ Sound(dir) /\ exit = "none" /\ owner_user \in Accounts
  BY <1>1, DirIs DEF KInv, RunInv
<1>3. /\ new \in Dirs /\ new.pub = dir.pub /\ new.tmp = dir.tmp
      /\ new.key # NoFile /\ new.key.id = dir.key.id
      /\ new.key.mode = dir.key.mode /\ new.key.owner = owner_user
  BY <1>2, DirIs, Chowned DEF KInv
<1> HIDE DEF new
<1>4. Sound(new)
  BY <1>2, <1>3 DEF Sound
<1>5. CASE pc' = "chown pub" /\ Change(new) /\ UNCHANGED exit
  <2>1. VersionsInv' /\ dir' = new /\ versions'[1] = versions[1]
    BY <1>3, <1>4, <1>5, Changed DEF KInv
  <2>2. RunInv'
    BY <1>1, <1>2, <1>3, <1>5, <2>1 DEF KInv, RunInv
  <2>3. RecorderInv'
    BY <1>1, <1>3, <2>1, SameRecorder DEF KInv
  <2> QED
    BY <2>1, <2>2, <2>3 DEF KInv
<1>6. CASE pc' = "off" /\ exit' = "73" /\ UNCHANGED versions
  <2>1. VersionsInv' /\ dir' = dir
    BY <1>6, SameDir DEF KInv
  <2>2. RunInv'
    BY <1>1, <1>6, <2>1 DEF KInv, RunInv
  <2>3. RecorderInv'
    BY <1>1, <1>6, <2>1, SameRecorder DEF KInv
  <2> QED
    BY <2>1, <2>2, <2>3 DEF KInv
<1> QED
  BY <1>1, <1>5, <1>6

(* The public half changes hands.                                          *)
LEMMA PubChowned ==
    ASSUME VersionsInv, NEW user \in Accounts, dir.pub # NoFile,
           Change([dir EXCEPT !.pub.owner = user])
    PROVE  /\ VersionsInv' /\ versions'[1] = versions[1]
           /\ dir'.key = dir.key /\ dir'.pub # NoFile /\ dir'.tmp = dir.tmp
<1> DEFINE new == [dir EXCEPT !.pub.owner = user]
<1>1. /\ new \in Dirs /\ new.key = dir.key /\ new.tmp = dir.tmp
      /\ new.pub # NoFile /\ new.pub.id = dir.pub.id
      /\ new.pub.mode = dir.pub.mode
  BY DirIs, Chowned
<1> HIDE DEF new
<1>2. Sound(new)
  BY <1>1, DirIs DEF Sound
<1>3. Change(new)
  BY DEF new
<1> QED
  BY <1>1, <1>2, <1>3, Changed

LEMMA KChownPub == KInv /\ ChownPub => KInv'
<1> SUFFICES ASSUME KInv, ChownPub PROVE KInv'
  OBVIOUS
<1>1. /\ pc = "chown pub" /\ pc' = "off" /\ kp' = kp
      /\ UNCHANGED <<account, moved, made, owner_user>> /\ UNCHANGED recorder
      /\ \/ dir.pub = NoFile /\ exit' = "73" /\ UNCHANGED versions
         \/ /\ dir.pub # NoFile /\ exit' = "0"
            /\ Change([dir EXCEPT !.pub.owner = owner_user])
  BY DEF ChownPub, Exit, env
<1>2. dir.key # NoFile /\ dir.key.owner = owner_user /\ owner_user \in Accounts
  BY <1>1 DEF KInv, RunInv
<1>3. CASE dir.pub # NoFile /\ exit' = "0" /\ Change([dir EXCEPT !.pub.owner = owner_user])
  <2>1. /\ VersionsInv' /\ versions'[1] = versions[1]
        /\ dir'.key = dir.key /\ dir'.pub # NoFile
    BY <1>2, <1>3, PubChowned DEF KInv
  <2>2. RunInv'
    BY <1>1, <1>2, <1>3, <2>1 DEF KInv, RunInv
  <2>3. RecorderInv'
    BY <1>1, <2>1, SameRecorder DEF KInv
  <2> QED
    BY <2>1, <2>2, <2>3 DEF KInv
<1>4. CASE dir.pub = NoFile /\ exit' = "73" /\ UNCHANGED versions
  <2>1. VersionsInv' /\ dir' = dir
    BY <1>4, SameDir DEF KInv
  <2>2. RunInv'
    BY <1>1, <1>4, <2>1 DEF KInv, RunInv
  <2>3. RecorderInv'
    BY <1>1, <1>4, <2>1, SameRecorder DEF KInv
  <2> QED
    BY <2>1, <2>2, <2>3 DEF KInv
<1> QED
  BY <1>1, <1>3, <1>4

LEMMA KStartSession == KInv /\ StartSession => KInv'
<1> SUFFICES ASSUME KInv, StartSession PROVE KInv'
  OBVIOUS
<1>1. /\ loaded' \in {dir.key.id, NoKey} /\ UNCHANGED signed /\ UNCHANGED versions
      /\ UNCHANGED <<account, moved, made, pc, owner_user, kp, exit>>
  BY DEF StartSession, env, run
<1>2. VersionsInv' /\ dir' = dir
  BY <1>1, SameDir DEF KInv
<1>3. RunInv'
  BY <1>1, <1>2 DEF KInv, RunInv
<1>4. RecorderInv'
  BY <1>1, <1>2 DEF KInv, RecorderInv, SignedKeySurvives
<1> QED
  BY <1>2, <1>3, <1>4 DEF KInv

(* One version is left, of those that were there.                          *)
LEMMA OneVersion ==
    ASSUME VersionsInv, NEW k \in DOMAIN versions, versions' = <<versions[k]>>
    PROVE  VersionsInv' /\ dir' = versions[k] /\ versions'[1] = versions[k]
<1>1. versions[k] \in Dirs /\ Sound(versions[k])
  BY DEF VersionsInv
<1>2. /\ DOMAIN versions' = {1} /\ versions'[1] = versions[k] /\ Len(versions') = 1
      /\ versions' # <<>> /\ versions' \in Seq(Dirs)
  BY <1>1
<1>3. dir' = versions[k]
  BY <1>2 DEF dir, Last
<1> QED
  BY <1>1, <1>2, <1>3 DEF VersionsInv, SameKey, Sound

LEMMA KSignPart == KInv /\ SignPart => KInv'
<1> SUFFICES ASSUME KInv, SignPart PROVE KInv'
  OBVIOUS
<1>1. /\ loaded # NoKey /\ signed' = signed \cup {loaded}
      /\ versions' = (IF moved THEN versions ELSE <<dir>>)
      /\ UNCHANGED <<account, moved, made, pc, owner_user, kp, exit, loaded>>
  BY DEF SignPart, ChainDirSynced, env, run
<1>2. loaded = dir.key.id
  BY <1>1 DEF KInv, RecorderInv
<1>3. VersionsInv' /\ dir' = dir /\ (~moved => versions'[1] = dir)
  <2>1. CASE moved
    BY <1>1, <2>1, SameDir DEF KInv
  <2>2. CASE ~moved
    <3>1. Len(versions) \in DOMAIN versions /\ dir = versions[Len(versions)]
      BY DirIs DEF KInv
    <3> QED
      BY <1>1, <2>2, <3>1, OneVersion DEF KInv
  <2> QED
    BY <2>1, <2>2
<1>4. RunInv'
  BY <1>1, <1>3 DEF KInv, RunInv
<1>5. ASSUME ~moved PROVE signed \subseteq {dir.key.id}
  <2> SUFFICES ASSUME NEW id \in signed PROVE id = dir.key.id
    OBVIOUS
  <2>1. id = versions[1].key.id /\ id # NoKey
    BY <1>5 DEF KInv, RecorderInv, SignedKeySurvives
  <2>2. /\ 1 \in DOMAIN versions /\ Len(versions) \in DOMAIN versions /\ 1 <= Len(versions)
        /\ dir = versions[Len(versions)]
    BY DirIs DEF KInv
  <2>3. versions[1].key # NoFile
    BY <2>1, Kinds
  <2> QED
    BY <2>1, <2>2, <2>3 DEF KInv, VersionsInv, SameKey
<1>6. RecorderInv'
  BY <1>1, <1>2, <1>3, <1>5 DEF KInv, RecorderInv, SignedKeySurvives
<1> QED
  BY <1>3, <1>4, <1>6 DEF KInv

LEMMA KWriteback == KInv /\ Writeback => KInv'
<1> SUFFICES ASSUME KInv, Writeback PROVE KInv'
  OBVIOUS
<1>1. /\ Len(versions) > 1 /\ versions' = Tail(versions) /\ UNCHANGED recorder
      /\ UNCHANGED <<account, moved, made, pc, owner_user, kp, exit>>
  BY DEF Writeback, env, run
<1>2. /\ versions \in Seq(Dirs) /\ Len(versions) \in Nat \ {0}
      /\ DOMAIN versions = 1 .. Len(versions) /\ dir = versions[Len(versions)]
  BY DirIs DEF KInv, VersionsInv
<1>3. /\ versions' \in Seq(Dirs) /\ versions' # <<>> /\ Len(versions') = Len(versions) - 1
      /\ DOMAIN versions' = 1 .. Len(versions')
      /\ \A i \in DOMAIN versions' : versions'[i] = versions[i + 1] /\ i + 1 \in DOMAIN versions
  BY <1>1, <1>2
<1>4. dir' = dir /\ versions'[1] = versions[2] /\ 2 \in DOMAIN versions /\ 1 \in DOMAIN versions
  BY <1>1, <1>2, <1>3 DEF dir, Last
<1>5. VersionsInv'
  <2>1. ASSUME NEW i \in DOMAIN versions' PROVE Sound(versions[i])'
    BY <1>3, <2>1 DEF KInv, VersionsInv, Sound
  <2>2. SameKey'
    <3> SUFFICES ASSUME NEW i \in DOMAIN versions', NEW j \in DOMAIN versions',
                        i <= j, versions'[i].key # NoFile
                 PROVE  versions'[j].key.id = versions'[i].key.id
      BY DEF SameKey
    <3>1. /\ i + 1 \in DOMAIN versions /\ j + 1 \in DOMAIN versions /\ i + 1 <= j + 1
          /\ versions'[i] = versions[i + 1] /\ versions'[j] = versions[j + 1]
      BY <1>3
    <3> QED
      BY <3>1 DEF KInv, VersionsInv, SameKey
  <2> QED
    BY <1>3, <2>1, <2>2 DEF VersionsInv
<1>6. RunInv'
  BY <1>1, <1>4 DEF KInv, RunInv
<1>7. RecorderInv'
  <2>1. ASSUME ~moved PROVE signed \subseteq {versions[2].key.id}
    <3> SUFFICES ASSUME NEW id \in signed PROVE id = versions[2].key.id
      OBVIOUS
    <3>1. id = versions[1].key.id /\ id # NoKey
      BY <2>1 DEF KInv, RecorderInv, SignedKeySurvives
    <3>2. versions[1].key # NoFile
      BY <3>1, Kinds
    <3> QED
      BY <1>4, <3>1, <3>2 DEF KInv, VersionsInv, SameKey
  <2> QED
    BY <1>1, <1>4, <2>1 DEF KInv, RecorderInv, SignedKeySurvives, recorder
<1> QED
  BY <1>5, <1>6, <1>7 DEF KInv

LEMMA KHostSteps ==
    KInv /\ (CreateAccount \/ FixConfig \/ Crash \/ RenameAccount \/ UNCHANGED vars) => KInv'
<1> SUFFICES ASSUME KInv, CreateAccount \/ FixConfig \/ Crash \/ RenameAccount \/ UNCHANGED vars
             PROVE  KInv'
  OBVIOUS
<1>1. /\ UNCHANGED <<moved, versions, made, owner_user, kp, exit>> /\ UNCHANGED recorder
      /\ account' \in Accounts /\ pc' \in {pc, "off"}
  BY DEF CreateAccount, FixConfig, Crash, RenameAccount, vars, env, run, KInv, RunInv
<1>2. VersionsInv' /\ dir' = dir
  BY <1>1, SameDir DEF KInv
<1>3. RunInv'
  BY <1>1, <1>2 DEF KInv, RunInv
<1>4. RecorderInv'
  BY <1>1, <1>2, SameRecorder DEF KInv
<1> QED
  BY <1>2, <1>3, <1>4 DEF KInv

LEMMA KCallFails == KInv /\ CallFails => KInv'
<1> SUFFICES ASSUME KInv, CallFails PROVE KInv'
  OBVIOUS
<1>1. /\ pc' = "off" /\ exit' \in {"73", "70"} /\ UNCHANGED recorder
      /\ UNCHANGED <<account, moved, made, owner_user, kp>>
      /\ \/ UNCHANGED versions
         \/ dir.pub # NoFile /\ Change([dir EXCEPT !.pub.owner = owner_user])
  BY DEF CallFails, Exit, env
<1>2. VersionsInv' /\ versions'[1] = versions[1] /\ dir'.key = dir.key
  <2>1. CASE UNCHANGED versions
    BY <2>1, SameDir DEF KInv
  <2>2. CASE dir.pub # NoFile /\ Change([dir EXCEPT !.pub.owner = owner_user])
    BY <2>2, PubChowned DEF KInv, RunInv
  <2> QED
    BY <1>1, <2>1, <2>2
<1>3. RunInv'
  BY <1>1, <1>2 DEF KInv, RunInv
<1>4. RecorderInv'
  BY <1>1, <1>2, SameRecorder DEF KInv
<1> QED
  BY <1>2, <1>3, <1>4 DEF KInv

LEMMA KPowerLoss == KInv /\ PowerLoss => KInv'
<1> SUFFICES ASSUME KInv, PowerLoss PROVE KInv'
  OBVIOUS
<1>1. /\ versions' = <<versions[1]>> /\ pc' = "off" /\ exit' = "none" /\ loaded' = NoKey
      /\ UNCHANGED <<account, moved, made, owner_user, kp, signed>>
  BY DEF PowerLoss, env
<1>2. 1 \in DOMAIN versions
  BY DirIs DEF KInv
<1>3. VersionsInv' /\ versions'[1] = versions[1]
  BY <1>1, <1>2, OneVersion DEF KInv
<1>4. RunInv'
  BY <1>1 DEF KInv, RunInv
<1>5. RecorderInv'
  BY <1>1, <1>3 DEF KInv, RecorderInv, SignedKeySurvives
<1> QED
  BY <1>3, <1>4, <1>5 DEF KInv

LEMMA KRemovePub == KInv /\ RemovePub => KInv'
<1> SUFFICES ASSUME KInv, RemovePub PROVE KInv'
  OBVIOUS
<1> DEFINE new == [dir EXCEPT !.pub = NoFile]
<1>1. /\ Change(new) /\ exit' = "none" /\ UNCHANGED recorder
      /\ UNCHANGED <<account, moved, made, pc, owner_user, kp>>
  BY DEF RemovePub, env
<1>2. new \in Dirs /\ new.key = dir.key /\ new.pub = NoFile /\ new.tmp = dir.tmp
  BY DirIs, WithoutPub DEF KInv
<1> HIDE DEF new
<1>3. Sound(new)
  BY <1>2, DirIs DEF Sound, KInv
<1>4. VersionsInv' /\ dir' = new /\ versions'[1] = versions[1]
  BY <1>1, <1>2, <1>3, Changed DEF KInv
<1>5. RunInv'
  BY <1>1, <1>2, <1>4 DEF KInv, RunInv
<1>6. RecorderInv'
  BY <1>1, <1>2, <1>4, SameRecorder DEF KInv
<1> QED
  BY <1>4, <1>5, <1>6 DEF KInv
-----------------------------------------------------------------------------
(* The theorems ************************************************************)

LEMMA KNext == KInv /\ [Next]_vars => KInv'
<1> SUFFICES ASSUME KInv, [Next]_vars PROVE KInv'
  OBVIOUS
<1>1. CASE StartKeygen
  BY <1>1, KStartKeygen
<1>2. CASE KeygenStep
  BY <1>2, KLook, KWriteKey, KRenameKey, KWritePub, KRenamePub, KChownKey, KChownPub
     DEF KeygenStep
<1>3. CASE StartSession \/ SignPart
  BY <1>3, KStartSession, KSignPart
<1>4. CASE Writeback
  BY <1>4, KWriteback
<1>5. CASE CreateAccount \/ FixConfig \/ Crash \/ RenameAccount \/ UNCHANGED vars
  BY <1>5, KHostSteps
<1>6. CASE CallFails
  BY <1>6, KCallFails
<1>7. CASE PowerLoss \/ RemovePub
  BY <1>7, KPowerLoss, KRemovePub
<1> QED
  BY <1>1, <1>2, <1>3, <1>4, <1>5, <1>6, <1>7 DEF Next

(* The inductive invariant: every version of the directory is sound, and   *)
(* what keygen is about to do fits what is there.                          *)
THEOREM KeygenInvariance == Spec => []KInv
<1>1. Init => KInv
  BY KInit
<1>2. KInv /\ [Next]_vars => KInv'
  BY KNext
<1> QED
  BY <1>1, <1>2, PTL DEF Spec

(* In every version of the directory a power loss may come back to, the    *)
(* two halves belong together and have their modes: generate_to and        *)
(* write_public_to may be cut short anywhere and share a temporary name.   *)
THEOREM KeyFilesAlwaysSound == Spec => []KeyFilesSound
<1>1. KInv => KeyFilesSound
  BY DEF KInv, VersionsInv, Sound, KeyFilesSound
<1> QED
  BY <1>1, KeygenInvariance, PTL

(* Exit status 0 of keygen leaves a pair that the account it was run for   *)
(* can sign with.                                                          *)
THEOREM ReadyAlwaysAfterSuccess == Spec => []ReadyAfterSuccess
<1>1. KInv => ReadyAfterSuccess
  <2> SUFFICES ASSUME KInv, exit = "0", owner_user = account PROVE Ready
    BY DEF ReadyAfterSuccess
  <2>1. dir.key # NoFile /\ dir.key.owner = owner_user /\ dir.pub # NoFile
    BY DEF KInv, RunInv
  <2>2. Sound(dir)
    BY DirIs DEF KInv
  <2> QED
    BY <2>1, <2>2 DEF Ready, Loadable, Sound
<1> QED
  BY <1>1, KeygenInvariance, PTL

(* With the key beside head.hash, where a commit syncs the directory, no   *)
(* power loss takes away the key of a manifest whose commit returned Ok,   *)
(* and keygen never replaces it.                                           *)
THEOREM SignedKeyAlwaysSurvives == Spec => []SignedKeySurvives
<1>1. KInv => SignedKeySurvives
  BY DEF KInv, RecorderInv
<1> QED
  BY <1>1, KeygenInvariance, PTL
=============================================================================
