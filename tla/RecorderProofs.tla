--------------------------- MODULE RecorderProofs ---------------------------
(***************************************************************************)
(* What TLAPS proves of one recorder, in Recorder, for every length of the *)
(* stream and of its records, every accepted config, every inherited limit *)
(* and every place where a call fails, a signal comes or it is killed.     *)
(***************************************************************************)
EXTENDS Recorder, TLAPS

Reasons == {"signal", "session_size_limit", "rotated"} \cup ProxyReasons
Lasts == [kind : Kinds \cup {"none"}, len : Nat, id : 0 .. MaxRecords]
Files ==
    [ids : Seq(0 .. MaxRecords), bytes : Nat, last : Lasts, header : BOOLEAN,
     link : {None} \cup Nat, stream : {"open", "plain", "final", "broken"},
     manifest : {"none"} \cup Reasons]

Typed ==
    /\ TypeOK
    /\ parts \in Seq(Files)
    /\ storage \in Configs
    /\ inherited \in Inherited

InPart == pc \in {"read", "finish", "sign"}

(* A part that another one may follow, and the link this one then has.     *)
Good == IF encrypt THEN "final" ELSE "plain"
Rotatable(file) ==
    /\ file.stream = Good
    /\ file.bytes >= MaxFile
    /\ file.manifest \in {"none", "rotated"}
LinkTo(file, i) == IF file.manifest = "rotated" THEN i - 1 ELSE None

(* A part that may be signed.                                              *)
Signable(file) == file.stream = Good /\ file.header

(* Where the process is, and what its parts look like then.                *)
ShapeInv ==
    /\ pc = "start" => parts = <<>>
    /\ pc = "open" \/ InPart \/ parts # <<>> => ConfigAccepted
    /\ InPart => parts # <<>> /\ Current.manifest = "none"
    /\ pc \in {"read", "finish"} => Current.stream = "open"
    /\ pc = "sign" => Current.stream = Good /\ header_info
    /\ InPart /\ header_info => Current.header
    /\ \A i \in DOMAIN parts : i < Len(parts) \/ pc = "open" => Rotatable(parts[i])
    /\ \A i \in 2 .. Len(parts) : parts[i].link = LinkTo(parts[i - 1], i - 1)
    /\ \A i \in DOMAIN parts : parts[i].manifest # "none" => Signable(parts[i])
    /\ pc = "open" /\ parts # <<>> =>
        prev_manifest_hash_link = LinkTo(Current, Len(parts))
    /\ pc \in {"finish", "sign"} /\ next = "Rotated" =>
        end_reason = "rotated" /\ Current.bytes >= MaxFile
    /\ pc \in {"finish", "sign"} /\ end_reason = "rotated" => next = "Rotated"
    /\ pc \in {"start", "open", "read"} => next = "EndOfStream"

(* What was written fits under the limit, and between two records there is *)
(* room for one more.                                                      *)
SizeInv ==
    /\ pc \in {"read", "finish"} => OnDisk(Current.bytes) <= FileLimit
    /\ pc = "sign" => FullSize(Current.bytes) <= FileLimit
    /\ \A i \in DOMAIN parts :
        parts[i].manifest # "none" => FullSize(parts[i].bytes) <= FileLimit
    /\ pc = "read" =>
        \/ Current.bytes < MaxFile
        \/ /\ Len(parts) > 1 /\ Len(Current.ids) = 1
           /\ Current.bytes = HeaderLength
    /\ pc = "start" => session_bytes = 0
    /\ pc = "open" \/ (InPart /\ next = "Rotated") => session_bytes < MaxSession
    /\ pc = "read" => session_bytes < MaxSession + HeaderLength
    /\ OvershootOneRecord
    /\ LimitNeedsLongRecord

(* The pipe holds what was sent last, in order; the files hold the rest.   *)
PlaceInv ==
    /\ Len(pipe) <= sent
    /\ \A j \in DOMAIN pipe : pipe[j].id = sent - Len(pipe) + j
    /\ NoRecordLost

(* Why a part may say "eof".                                               *)
EofInv ==
    /\ pc \in {"finish", "sign"} /\ end_reason = "eof" =>
        (closed /\ pipe = <<>>) \/ Current.last.kind = "end"
    /\ EofIsComplete

RInv == Typed /\ ShapeInv /\ SizeInv /\ PlaceInv /\ EofInv
-----------------------------------------------------------------------------
(* The operators ***********************************************************)

LEMMA TimesGrows ==
    ASSUME NEW c \in Nat, NEW m \in Nat, NEW n \in Nat, m <= n
    PROVE  c * m \in Nat /\ c * n \in Nat /\ c * m <= c * n
<1>1. PICK d \in Nat : n = m + d
  <2>1. n - m \in Nat /\ n = m + (n - m)
    OBVIOUS
  <2> QED
    BY <2>1
<1>2. c * m \in Nat /\ c * d \in Nat /\ c * (m + d) = c * m + c * d
  OBVIOUS
<1> QED
  BY <1>1, <1>2

(* A longer file has no fewer blocks.                                      *)
LEMMA SealedGrows ==
    ASSUME NEW m \in Nat, NEW n \in Nat, m <= n
    PROVE  Sealed(m) \in Nat /\ Sealed(n) \in Nat /\ Sealed(m) <= Sealed(n)
<1> DEFINE blocks(k) == (k - 1) \div Chunk
<1>1. Chunk \in Nat \ {0}
  BY RecorderAssumption
<1>2. ASSUME NEW k \in Nat, k # 0
      PROVE  /\ blocks(k) \in Nat /\ Chunk * blocks(k) <= k - 1
             /\ k - 1 < Chunk * (blocks(k) + 1)
  BY <1>1, <1>2, Z3
<1>3. ASSUME NEW k \in Nat PROVE Sealed(k) \in Nat
  BY <1>2, <1>3 DEF Sealed
<1>4. CASE m = 0
  BY <1>3, <1>4 DEF Sealed
<1>5. CASE m # 0
  <2> DEFINE a == blocks(m)
             b == blocks(n)
  <2>1. /\ a \in Nat /\ Chunk * a <= m - 1
        /\ b \in Nat /\ n - 1 < Chunk * (b + 1)
    BY <1>2, <1>5
  <2>2. a = Sealed(m) /\ b = Sealed(n)
    BY <1>5 DEF Sealed
  <2> HIDE DEF a, b
  <2>3. ASSUME b + 1 <= a PROVE FALSE
    <3>1. Chunk * (b + 1) \in Nat /\ Chunk * a \in Nat /\ Chunk * (b + 1) <= Chunk * a
      BY <1>1, <2>1, <2>3, TimesGrows
    <3> QED
      BY <2>1, <3>1
  <2>4. a <= b
    BY <2>1, <2>3
  <2> QED
    BY <2>1, <2>2, <2>4
<1> QED
  BY <1>4, <1>5

(* ... and so age adds no less to it.                                      *)
LEMMA OverheadGrows ==
    ASSUME NEW m \in Nat, NEW n \in Nat, m <= n
    PROVE  /\ Overhead(m) \in Nat /\ Overhead(n) \in Nat
           /\ Overhead(m) <= Overhead(n) /\ FullSize(m) = m + Overhead(m)
<1>1. Sealed(m) \in Nat /\ Sealed(n) \in Nat /\ Sealed(m) + 1 <= Sealed(n) + 1
  BY SealedGrows
<1>2. AgeHeader \in Nat /\ Tag \in Nat
  BY RecorderAssumption
<1> DEFINE a == Tag * (Sealed(m) + 1)
           b == Tag * (Sealed(n) + 1)
<1>3. a \in Nat /\ b \in Nat /\ a <= b
  BY <1>1, <1>2, TimesGrows
<1>4. /\ FullSize(m) = IF encrypt THEN AgeHeader + m + a ELSE m
      /\ FullSize(n) = IF encrypt THEN AgeHeader + n + b ELSE n
  BY DEF FullSize
<1> HIDE DEF a, b
<1>5. /\ Overhead(m) = IF encrypt THEN AgeHeader + a ELSE 0
      /\ Overhead(n) = IF encrypt THEN AgeHeader + b ELSE 0
  BY <1>2, <1>3, <1>4 DEF Overhead
<1> QED
  BY <1>2, <1>3, <1>4, <1>5

LEMMA FrontOf ==
    ASSUME NEW S, NEW s \in Seq(S), NEW x \in S
    PROVE  /\ Front(Append(s, x)) = s
           /\ s # <<>> => Append(Front(s), x) = [s EXCEPT ![Len(s)] = x]
<1>1. Front(Append(s, x)) = s
  BY DEF Front
<1>2. ASSUME s # <<>> PROVE Append(Front(s), x) = [s EXCEPT ![Len(s)] = x]
  <2> DEFINE n == Len(s)
             a == Append(Front(s), x)
  <2>1. n \in Nat \ {0} /\ DOMAIN s = 1 .. n
    BY <1>2
  <2>2. Front(s) \in Seq(S) /\ Len(Front(s)) = n - 1
        /\ \A i \in 1 .. n - 1 : Front(s)[i] = s[i]
    BY <2>1 DEF Front
  <2> HIDE DEF n
  <2>3. a \in Seq(S) /\ Len(a) = n /\ a[n] = x /\ \A i \in 1 .. n - 1 : a[i] = s[i]
    BY <2>1, <2>2
  <2>4. a = [i \in 1 .. n |-> a[i]]
    <3> HIDE DEF a
    <3> QED
      BY <2>1, <2>3
  <2>5. ASSUME NEW i \in 1 .. n PROVE a[i] = [s EXCEPT ![n] = x][i]
    BY <2>1, <2>3
  <2> HIDE DEF a
  <2>6. a = [s EXCEPT ![n] = x]
    BY <2>1, <2>4, <2>5
  <2> QED
    BY <2>6 DEF a, n
<1> QED
  BY <1>1, <1>2

LEMMA ElementOf ==
    ASSUME NEW S, NEW s \in Seq(S), NEW k \in DOMAIN s
    PROVE  s[k] \in S
OBVIOUS

LEMMA NewFileIs ==
    ASSUME NEW link \in {None} \cup Nat
    PROVE  /\ NewFile(link) \in Files
           /\ NewFile(link).ids = <<>>
           /\ NewFile(link).bytes = 0
           /\ NewFile(link).last = NoRecord
           /\ NewFile(link).link = link
           /\ NewFile(link).stream = "open"
           /\ NewFile(link).manifest = "none"
BY RecorderAssumption DEF NewFile, NoRecord, Files, Lasts, Synthetic

LEMMA StoredIs ==
    ASSUME NEW file \in Files, NEW rec \in Lasts
    PROVE  /\ Stored(file, rec) \in Files
           /\ Stored(file, rec).ids = Append(file.ids, rec.id)
           /\ Stored(file, rec).bytes = file.bytes + rec.len
           /\ Stored(file, rec).last = rec
           /\ Stored(file, rec).header <=> (file.header \/ rec.kind = "header")
           /\ Stored(file, rec).link = file.link
           /\ Stored(file, rec).stream = file.stream
           /\ Stored(file, rec).manifest = file.manifest
<1>1. /\ file.ids \in Seq(0 .. MaxRecords) /\ rec.id \in 0 .. MaxRecords
      /\ file.bytes \in Nat /\ rec.len \in Nat
  BY DEF Files, Lasts
<1>2. Append(file.ids, rec.id) \in Seq(0 .. MaxRecords) /\ file.bytes + rec.len \in Nat
  BY <1>1
<1> QED
  BY <1>2 DEF Stored, Files

(* A write that failed leaves the records that were there before it.       *)
LEMMA BrokenIs ==
    ASSUME NEW file \in Files, NEW rec \in Lasts
    PROVE  LET broken == Broken(Stored(file, rec))
           IN  /\ broken \in Files
               /\ broken.ids = file.ids
               /\ broken.bytes = file.bytes + rec.len
               /\ broken.last = rec
               /\ broken.link = file.link
               /\ broken.stream = "broken"
               /\ broken.manifest = file.manifest
<1>1. Front(Append(file.ids, rec.id)) = file.ids /\ file.ids \in Seq(0 .. MaxRecords)
  <2>1. file.ids \in Seq(0 .. MaxRecords) /\ rec.id \in 0 .. MaxRecords
    BY DEF Files, Lasts
  <2> QED
    BY <2>1, FrontOf
<1> DEFINE stored == Stored(file, rec)
<1>2. /\ stored \in Files /\ Front(stored.ids) = file.ids
      /\ stored.bytes = file.bytes + rec.len /\ stored.last = rec
      /\ stored.link = file.link /\ stored.manifest = file.manifest
  BY <1>1, StoredIs
<1> HIDE DEF stored
<1>3. Broken(stored) = [stored EXCEPT !.ids = file.ids, !.stream = "broken"]
  BY <1>2 DEF Broken
<1> QED
  BY <1>1, <1>2, <1>3 DEF Files, stored

(* finish() changes what becomes of the stream, and nothing else.          *)
LEMMA FinishedIs ==
    ASSUME NEW file \in Files, NEW fits
    PROVE  LET done == Finished(file, fits)
           IN  /\ done \in Files
               /\ done.ids = file.ids /\ done.bytes = file.bytes
               /\ done.last = file.last /\ done.link = file.link
               /\ done.manifest = file.manifest
               /\ done.header = file.header
               /\ done.stream # "broken" /\ file.stream = "open" => done.stream = Good
BY DEF Finished, Files, Good

LEMMA SynthHeaderType == SynthHeader \in Lasts /\ NoRecord \in Lasts /\ HeaderLength \in Nat \ {0}
BY RecorderAssumption DEF SynthHeader, NoRecord, Lasts, Kinds, Synthetic

LEMMA LimitsType ==
    ASSUME Typed
    PROVE  /\ MaxFile \in Nat /\ MaxSession \in Nat /\ FileLimit \in Nat
           /\ MAX_FILE_SIZE \in Nat /\ Slack \in Nat /\ inherited \in Nat
BY RecorderAssumption DEF Typed, MaxFile, MaxSession, FileLimit

LEMMA CurrentType ==
    ASSUME Typed, parts # <<>>
    PROVE  Current \in Files /\ Len(parts) \in DOMAIN parts
BY DEF Typed, Current
-----------------------------------------------------------------------------
(* What a step does to the files *******************************************)

Adds(file) == parts' = Append(parts, file)
SetsLast(file) == parts # <<>> /\ parts' = [parts EXCEPT ![Len(parts)] = file]

LEMMA AddsIs ==
    ASSUME parts \in Seq(Files), NEW file \in Files, Adds(file)
    PROVE  /\ parts' \in Seq(Files) /\ parts' # <<>>
           /\ Len(parts) \in Nat /\ Len(parts') = Len(parts) + 1
           /\ DOMAIN parts = 1 .. Len(parts) /\ DOMAIN parts' = 1 .. Len(parts')
           /\ Current' = file
           /\ \A i \in DOMAIN parts : parts'[i] = parts[i] /\ parts[i] \in Files
           /\ \A i \in DOMAIN parts' : i \in DOMAIN parts \/ i = Len(parts')
           /\ parts'[Len(parts')] = file
BY DEF Adds, Current

LEMMA SetsLastIs ==
    ASSUME parts \in Seq(Files), NEW file \in Files, SetsLast(file)
    PROVE  /\ parts' \in Seq(Files) /\ parts' # <<>>
           /\ Len(parts) \in Nat \ {0} /\ Len(parts') = Len(parts)
           /\ DOMAIN parts = 1 .. Len(parts) /\ DOMAIN parts' = DOMAIN parts
           /\ Current \in Files /\ Current' = file
           /\ Len(parts) \in DOMAIN parts /\ parts[Len(parts)] = Current
           /\ \A i \in DOMAIN parts : i # Len(parts) =>
                parts'[i] = parts[i] /\ parts[i] \in Files
           /\ parts'[Len(parts)] = file
BY DEF SetsLast, Current

(* The places in the files, when no record comes in ...                    *)
LEMMA PlacesSame ==
    ASSUME DOMAIN parts' = DOMAIN parts,
           \A i \in DOMAIN parts : parts'[i].ids = parts[i].ids
    PROVE  Kept' = Kept /\ (InOrder => InOrder')
<1>1. Kept' = Kept
  BY DEF Kept
<1>2. InOrder => InOrder'
  BY DEF InOrder
<1> QED
  BY <1>1, <1>2

(* ... a new file, with a header of the recorder's own at most ...         *)
LEMMA PlacesAdded ==
    ASSUME parts \in Seq(Files), NEW file \in Files, Adds(file),
           file.ids \in {<<>>, <<Synthetic>>}
    PROVE  Kept' = Kept /\ (InOrder => InOrder')
<1>1. /\ DOMAIN parts' = DOMAIN parts \cup {Len(parts')}
      /\ \A i \in DOMAIN parts : parts'[i] = parts[i]
      /\ parts'[Len(parts')].ids = file.ids
      /\ \A i \in DOMAIN parts : i < Len(parts') /\ Len(parts') \in Nat
  <2>1. DOMAIN parts' \subseteq DOMAIN parts \cup {Len(parts')}
    BY AddsIs
  <2>2. Len(parts') \in DOMAIN parts' /\ Len(parts') \in Nat
        /\ \A i \in DOMAIN parts : i \in DOMAIN parts' /\ i < Len(parts')
    BY AddsIs
  <2> QED
    BY <2>1, <2>2, AddsIs
<1>2. \A k \in DOMAIN file.ids : file.ids[k] = Synthetic
  OBVIOUS
<1>3. Kept' = Kept
  <2>1. ToSet(file.ids) \subseteq {Synthetic} /\ Synthetic \notin 1 .. MaxRecords
    BY <1>2, RecorderAssumption DEF ToSet, Synthetic
  <2>2. \A i \in DOMAIN parts : ToSet(parts'[i].ids) = ToSet(parts[i].ids)
    BY <1>1
  <2>3. ToSet(parts'[Len(parts')].ids) = ToSet(file.ids)
    BY <1>1
  <2>4. \A x : x \in Kept <=>
            x \in 1 .. MaxRecords /\ \E i \in DOMAIN parts : x \in ToSet(parts[i].ids)
    BY DEF Kept
  <2>5. \A x : x \in Kept' <=>
            x \in 1 .. MaxRecords /\ \E i \in DOMAIN parts' : x \in ToSet(parts'[i].ids)
    BY DEF Kept
  <2> HIDE DEF ToSet
  <2>6. ASSUME NEW x \in Kept PROVE x \in Kept'
    BY <1>1, <2>2, <2>4, <2>5, <2>6
  <2>7. ASSUME NEW x \in Kept' PROVE x \in Kept
    <3>1. PICK i \in DOMAIN parts' : x \in ToSet(parts'[i].ids)
      BY <2>5, <2>7
    <3>2. x \in 1 .. MaxRecords /\ i # Len(parts')
      BY <2>1, <2>3, <2>5, <2>7, <3>1
    <3> QED
      BY <1>1, <2>2, <2>4, <3>1, <3>2
  <2> QED
    BY <2>6, <2>7
<1>4. ASSUME InOrder PROVE InOrder'
  <2> SUFFICES ASSUME NEW i \in DOMAIN parts', NEW j \in DOMAIN parts',
                      NEW k \in DOMAIN parts'[i].ids, NEW l \in DOMAIN parts'[j].ids,
                      i < j \/ (i = j /\ k < l),
                      Synthetic \notin {parts'[i].ids[k], parts'[j].ids[l]}
               PROVE  parts'[i].ids[k] < parts'[j].ids[l]
    BY DEF InOrder
  <2>1. i \in DOMAIN parts /\ j \in DOMAIN parts
    BY <1>1, <1>2
  <2> QED
    BY <1>1, <1>4, <2>1 DEF InOrder
<1> QED
  BY <1>3, <1>4

(* ... and one more record at the end of the last file.                    *)
LEMMA PlacesAppended ==
    ASSUME parts \in Seq(Files), NEW file \in Files, SetsLast(file),
           NEW place \in 1 .. MaxRecords, file.ids = Append(Current.ids, place),
           \A other \in Kept : other < place
    PROVE  Kept' = Kept \cup {place} /\ (InOrder => InOrder')
<1> DEFINE n == Len(parts)
           ids == Current.ids
<1>1. /\ n \in DOMAIN parts /\ DOMAIN parts' = DOMAIN parts /\ DOMAIN parts = 1 .. n
      /\ parts[n].ids = ids /\ parts'[n].ids = file.ids
      /\ \A i \in DOMAIN parts : i # n => parts'[i].ids = parts[i].ids
      /\ n \in Nat
  BY SetsLastIs
<1>2. ids \in Seq(0 .. MaxRecords)
  BY SetsLastIs DEF Files
<1>3. /\ DOMAIN file.ids = DOMAIN ids \cup {Len(ids) + 1}
      /\ file.ids[Len(ids) + 1] = place
      /\ \A k \in DOMAIN ids : file.ids[k] = ids[k] /\ k < Len(ids) + 1 /\ k \in Nat
      /\ Len(ids) \in Nat
  BY <1>2
<1> HIDE DEF n, ids
<1>4. ToSet(file.ids) = ToSet(ids) \cup {place}
  <2>1. \A x : x \in ToSet(file.ids) <=> x \in ToSet(ids) \/ x = place
    BY <1>3 DEF ToSet
  <2> QED
    BY <2>1
<1>5. Kept' = Kept \cup {place}
  <2>1. \A x : x \in Kept <=>
            x \in 1 .. MaxRecords /\ \E i \in DOMAIN parts : x \in ToSet(parts[i].ids)
    BY DEF Kept
  <2>2. \A x : x \in Kept' <=>
            x \in 1 .. MaxRecords /\ \E i \in DOMAIN parts' : x \in ToSet(parts'[i].ids)
    BY DEF Kept
  <2>3. \A i \in DOMAIN parts : i # n => ToSet(parts'[i].ids) = ToSet(parts[i].ids)
    BY <1>1
  <2>4. ToSet(parts'[n].ids) = ToSet(parts[n].ids) \cup {place}
    BY <1>1, <1>4
  <2>5. \A x : x \in Kept' <=> x \in Kept \/ x = place
    BY <1>1, <2>1, <2>2, <2>3, <2>4, Zenon
  <2> QED
    BY <2>5
<1>6. ASSUME InOrder PROVE InOrder'
  <2> SUFFICES ASSUME NEW i \in DOMAIN parts, NEW j \in DOMAIN parts,
                      NEW k \in DOMAIN parts'[i].ids, NEW l \in DOMAIN parts'[j].ids,
                      i < j \/ (i = j /\ k < l),
                      Synthetic \notin {parts'[i].ids[k], parts'[j].ids[l]}
               PROVE  parts'[i].ids[k] < parts'[j].ids[l]
    BY <1>1 DEF InOrder
  <2>1. ~(i = n /\ k = Len(ids) + 1)
    <3>1. SUFFICES ASSUME i = n, k = Len(ids) + 1 PROVE FALSE
      OBVIOUS
    <3>2. j = n /\ k < l
      BY <1>1, <3>1
    <3>3. l \in DOMAIN ids \/ l = Len(ids) + 1
      BY <1>1, <1>3, <3>2
    <3> QED
      BY <1>3, <3>1, <3>2, <3>3
  <2>2. /\ k \in DOMAIN parts[i].ids /\ parts'[i].ids[k] = parts[i].ids[k]
    BY <1>1, <1>3, <2>1
  <2>3. CASE j = n /\ l = Len(ids) + 1
    <3>1. parts'[j].ids[l] = place
      BY <1>1, <1>3, <2>3
    <3>2. parts[i].ids[k] \in Kept
      <4>1. parts[i].ids[k] \in ToSet(parts[i].ids) /\ parts[i].ids[k] # Synthetic
        BY <2>2 DEF ToSet
      <4>2. parts[i].ids[k] \in 0 .. MaxRecords
        <5>1. parts[i] \in Files
          OBVIOUS
        <5>2. parts[i].ids \in Seq(0 .. MaxRecords)
          BY <5>1 DEF Files
        <5> QED
          BY <2>2, <5>2, ElementOf
      <4> QED
        BY <4>1, <4>2, RecorderAssumption DEF Kept, Synthetic
    <3> QED
      BY <2>2, <3>1, <3>2
  <2>4. CASE ~(j = n /\ l = Len(ids) + 1)
    <3>1. l \in DOMAIN parts[j].ids /\ parts'[j].ids[l] = parts[j].ids[l]
      BY <1>1, <1>3, <2>4
    <3> QED
      BY <1>6, <2>2, <3>1 DEF InOrder
  <2> QED
    BY <2>3, <2>4
<1> QED
  BY <1>5, <1>6

(* The record that is read next.                                           *)
LEMMA HeadRecord ==
    ASSUME Typed, PlaceInv, pipe # <<>>
    PROVE  LET rec == Head(pipe)
               rest == Tail(pipe)
           IN  /\ rec \in Lasts /\ rec.kind \in Kinds /\ rec.len \in Nat \ {0}
               /\ rec.id = sent - Len(pipe) + 1 /\ rec.id \in 1 .. MaxRecords
               /\ rest \in Seq(Records) /\ Len(rest) = Len(pipe) - 1
               /\ \A j \in DOMAIN rest : rest[j].id = sent - Len(rest) + j
               /\ Len(rest) <= sent
<1>1. pipe \in Seq(Records) /\ Len(pipe) \in Nat \ {0} /\ sent \in Nat
  BY DEF Typed, TypeOK
<1>2. pipe[1] \in Records /\ Head(pipe) = pipe[1] /\ 1 \in DOMAIN pipe
  BY <1>1
<1>3. /\ pipe[1] \in Lasts /\ pipe[1].kind \in Kinds /\ pipe[1].len \in Nat \ {0}
      /\ pipe[1].id \in 1 .. MaxRecords
  <2>1. pipe[1].kind \in Kinds /\ pipe[1].len \in Lengths /\ pipe[1].id \in 1 .. MaxRecords
        /\ pipe[1] = [kind |-> pipe[1].kind, len |-> pipe[1].len, id |-> pipe[1].id]
    BY <1>2 DEF Records
  <2>2. pipe[1].len \in Nat \ {0}
    BY <2>1, RecorderAssumption
  <2> QED
    BY <2>1, <2>2, RecorderAssumption DEF Lasts
<1>4. pipe[1].id = sent - Len(pipe) + 1
  BY <1>2 DEF PlaceInv
<1>5. /\ Tail(pipe) \in Seq(Records) /\ Len(Tail(pipe)) = Len(pipe) - 1
      /\ \A j \in DOMAIN Tail(pipe) : j + 1 \in DOMAIN pipe /\ Tail(pipe)[j] = pipe[j + 1]
                                      /\ j \in Nat
  BY <1>1
<1>6. ASSUME NEW j \in DOMAIN Tail(pipe)
      PROVE  Tail(pipe)[j].id = sent - Len(Tail(pipe)) + j
  BY <1>1, <1>5 DEF PlaceInv
<1> QED
  BY <1>1, <1>2, <1>3, <1>4, <1>5, <1>6, RecorderAssumption DEF PlaceInv, Synthetic
-----------------------------------------------------------------------------
(* Nothing changes the options of a run.                                   *)
LEMMA SameOptions ==
    ASSUME UNCHANGED opts
    PROVE  /\ MaxFile' = MaxFile /\ MaxSession' = MaxSession
           /\ FileLimit' = FileLimit /\ Good' = Good
           /\ ConfigAccepted' = ConfigAccepted
           /\ UNCHANGED <<storage, inherited, encrypt, signing_key>>
BY DEF opts, MaxFile, MaxSession, FileLimit, Good, ConfigAccepted

(* The chain of parts, with a new last one or another state of it.         *)
Chained ==
    /\ \A i \in DOMAIN parts : i < Len(parts) => Rotatable(parts[i])
    /\ \A i \in 2 .. Len(parts) : parts[i].link = LinkTo(parts[i - 1], i - 1)
    /\ \A i \in DOMAIN parts : parts[i].manifest # "none" => Signable(parts[i])

LEMMA ChainedAdds ==
    ASSUME Typed, ShapeInv, pc = "open", UNCHANGED opts,
           NEW file \in Files, Adds(file), file.link = prev_manifest_hash_link,
           file.manifest = "none"
    PROVE  Chained'
<1>1. MaxFile' = MaxFile /\ Good' = Good
  BY SameOptions
<1>2. /\ Len(parts) \in Nat /\ Len(parts') = Len(parts) + 1
      /\ DOMAIN parts = 1 .. Len(parts) /\ DOMAIN parts' = 1 .. Len(parts')
      /\ \A i \in DOMAIN parts : parts'[i] = parts[i]
      /\ parts'[Len(parts) + 1].link = prev_manifest_hash_link
  BY AddsIs DEF Typed
<1>3. ASSUME NEW i \in DOMAIN parts', i < Len(parts') PROVE Rotatable(parts[i])'
  <2>1. i \in DOMAIN parts /\ Rotatable(parts[i])
    BY <1>2, <1>3 DEF ShapeInv
  <2> QED
    BY <1>1, <1>2, <2>1 DEF Rotatable
<1>4. ASSUME NEW i \in 2 .. Len(parts')
      PROVE  parts'[i].link = LinkTo(parts'[i - 1], i - 1)
  <2>1. CASE i = Len(parts')
    <3>1. i - 1 = Len(parts) /\ parts # <<>> /\ i - 1 \in DOMAIN parts
      BY <1>2, <1>4, <2>1
    <3> QED
      BY <1>2, <2>1, <3>1 DEF ShapeInv, Current
  <2>2. CASE i # Len(parts')
    <3>1. i \in 2 .. Len(parts) /\ i \in DOMAIN parts /\ i - 1 \in DOMAIN parts
      BY <1>2, <1>4, <2>2
    <3> QED
      BY <1>2, <3>1 DEF ShapeInv
  <2> QED
    BY <2>1, <2>2
<1>5. ASSUME NEW i \in DOMAIN parts', parts'[i].manifest # "none"
      PROVE  Signable(parts[i])'
  <2>1. i \in DOMAIN parts
    BY <1>5, AddsIs DEF Typed
  <2> QED
    BY <1>1, <1>2, <1>5, <2>1 DEF ShapeInv, Signable
<1> QED
  BY <1>1, <1>3, <1>4, <1>5 DEF Chained, LinkTo

LEMMA ChainedSets ==
    ASSUME Typed, ShapeInv, UNCHANGED opts,
           NEW file \in Files, SetsLast(file), file.link = Current.link,
           file.manifest # "none" => Signable(file)
    PROVE  Chained'
<1>1. MaxFile' = MaxFile /\ Good' = Good
  BY SameOptions
<1>2. /\ Len(parts) \in Nat /\ Len(parts') = Len(parts)
      /\ DOMAIN parts = 1 .. Len(parts) /\ DOMAIN parts' = DOMAIN parts
      /\ \A i \in DOMAIN parts : i # Len(parts) => parts'[i] = parts[i]
      /\ parts'[Len(parts)].link = parts[Len(parts)].link
  BY SetsLastIs DEF Typed
<1>3. ASSUME NEW i \in DOMAIN parts', i < Len(parts') PROVE Rotatable(parts[i])'
  BY <1>1, <1>2, <1>3 DEF ShapeInv, Rotatable
<1>4. ASSUME NEW i \in 2 .. Len(parts')
      PROVE  parts'[i].link = LinkTo(parts'[i - 1], i - 1)
  <2>1. i \in 2 .. Len(parts) /\ i - 1 \in DOMAIN parts /\ i - 1 # Len(parts)
        /\ i \in DOMAIN parts
    BY <1>2, <1>4
  <2>2. parts'[i].link = parts[i].link /\ parts'[i - 1] = parts[i - 1]
    BY <1>2, <2>1
  <2> QED
    BY <2>1, <2>2 DEF ShapeInv
<1>5. ASSUME NEW i \in DOMAIN parts', parts'[i].manifest # "none"
      PROVE  Signable(parts[i])'
  <2>1. CASE i = Len(parts)
    BY <1>1, <1>5, <2>1, SetsLastIs DEF Typed, Signable
  <2>2. CASE i # Len(parts)
    BY <1>1, <1>2, <1>5, <2>2 DEF ShapeInv, Signable
  <2> QED
    BY <2>1, <2>2
<1> QED
  BY <1>1, <1>3, <1>4, <1>5 DEF Chained, LinkTo

(* The sizes of the files, likewise.                                       *)
Overshot(file, i) ==
    \/ file.bytes - file.last.len < MaxFile
    \/ i > 1 /\ Len(file.ids) <= 2
PastLimit(file) ==
    \/ FullSize(file.bytes) <= FileLimit
    \/ file.last.len > Room
    \/ inherited < MAX_FILE_SIZE + Slack

Sized ==
    /\ \A i \in DOMAIN parts :
        parts[i].manifest # "none" => FullSize(parts[i].bytes) <= FileLimit
    /\ OvershootOneRecord
    /\ LimitNeedsLongRecord

LEMMA SizedAdds ==
    ASSUME Typed, SizeInv, UNCHANGED opts, NEW file \in Files, Adds(file),
           file.manifest = "none", Overshot(file, Len(parts) + 1), PastLimit(file),
           session_bytes' - file.last.len < MaxSession + HeaderLength
    PROVE  Sized'
<1> USE DEF Overshot, PastLimit
<1>1. /\ MaxFile' = MaxFile /\ MaxSession' = MaxSession /\ FileLimit' = FileLimit
      /\ UNCHANGED <<inherited, encrypt>>
  BY SameOptions
<1>2. /\ Len(parts') = Len(parts) + 1 /\ parts'[Len(parts')] = file
      /\ \A i \in DOMAIN parts : parts'[i] = parts[i]
      /\ \A i \in DOMAIN parts' : i \in DOMAIN parts \/ i = Len(parts')
      /\ Current' = file
  BY AddsIs DEF Typed
<1>3. \A i \in DOMAIN parts' :
          parts'[i].manifest # "none" => FullSize(parts[i].bytes)' <= FileLimit'
  BY <1>1, <1>2 DEF SizeInv, FullSize
<1>4. OvershootOneRecord'
  BY <1>1, <1>2 DEF SizeInv, OvershootOneRecord
<1>5. LimitNeedsLongRecord'
  BY <1>1, <1>2 DEF SizeInv, LimitNeedsLongRecord, FullSize, Room, Overhead
<1> QED
  BY <1>3, <1>4, <1>5 DEF Sized

LEMMA SizedSets ==
    ASSUME Typed, SizeInv, UNCHANGED opts, NEW file \in Files, SetsLast(file),
           file.manifest # "none" => FullSize(file.bytes) <= FileLimit,
           Overshot(file, Len(parts)), PastLimit(file),
           session_bytes' - file.last.len < MaxSession + HeaderLength
    PROVE  Sized'
<1> USE DEF Overshot, PastLimit
<1>1. /\ MaxFile' = MaxFile /\ MaxSession' = MaxSession /\ FileLimit' = FileLimit
      /\ UNCHANGED <<inherited, encrypt>>
  BY SameOptions
<1>2. /\ Len(parts') = Len(parts) /\ parts'[Len(parts)] = file
      /\ DOMAIN parts' = DOMAIN parts
      /\ \A i \in DOMAIN parts : i # Len(parts) => parts'[i] = parts[i]
      /\ Current' = file
  BY SetsLastIs DEF Typed
<1>3. \A i \in DOMAIN parts' :
          parts'[i].manifest # "none" => FullSize(parts[i].bytes)' <= FileLimit'
  BY <1>1, <1>2 DEF SizeInv, FullSize
<1>4. OvershootOneRecord'
  BY <1>1, <1>2 DEF SizeInv, OvershootOneRecord
<1>5. LimitNeedsLongRecord'
  BY <1>1, <1>2 DEF SizeInv, LimitNeedsLongRecord, FullSize, Room, Overhead
<1> QED
  BY <1>3, <1>4, <1>5 DEF Sized
-----------------------------------------------------------------------------
(* The steps that leave the files alone ************************************)

LEMMA RInit == Init => RInv
<1> SUFFICES ASSUME Init PROVE RInv
  OBVIOUS
<1> USE DEF Init
<1>1. Typed
  <2>1. parts \in Seq(Files) /\ pipe \in Seq(Records) /\ 0 \in 0 .. MaxRecords
    BY RecorderAssumption
  <2>2. {closed, SHUTDOWN, header_info, FINALIZE_FAILED, reported, encrypt,
         signing_key} \subseteq BOOLEAN
    OBVIOUS
  <2>3. prev_manifest_hash_link \in {None} \cup 0 .. Len(parts) - 1
    OBVIOUS
  <2>4. \A i \in DOMAIN parts : FALSE
    OBVIOUS
  <2>5. /\ pc \in Stopped \cup {"start", "open", "read", "finish", "sign"}
        /\ end_reason \in {"none", "signal", "session_size_limit", "rotated"} \cup ProxyReasons
        /\ next \in {"EndOfStream", "Rotated", "SessionSizeLimit"}
        /\ storage \in Configs /\ inherited \in Inherited
        /\ sent = 0 /\ session_bytes = 0
    OBVIOUS
  <2> QED
    BY <2>1, <2>2, <2>3, <2>4, <2>5 DEF Typed, TypeOK
<1>2. ShapeInv
  BY DEF ShapeInv, InPart
<1>3. SizeInv
  BY RecorderAssumption DEF SizeInv, InPart, OvershootOneRecord, LimitNeedsLongRecord
<1>4. PlaceInv
  <2>1. Kept = {} /\ InOrder
    BY DEF Kept, InOrder
  <2>2. 1 .. 0 = {} /\ 0 \in 0 .. 0
    OBVIOUS
  <2> QED
    BY <2>1, <2>2 DEF PlaceInv, NoRecordLost
<1>5. EofInv
  BY DEF EofInv, EofIsComplete
<1> QED
  BY <1>1, <1>2, <1>3, <1>4, <1>5 DEF RInv

LEMMA RProxyWrites == RInv /\ ProxyWrites => RInv'
<1> SUFFICES ASSUME RInv, ProxyWrites PROVE RInv'
  OBVIOUS
<1>1. /\ UNCHANGED <<closed, SHUTDOWN, pc, session_bytes, header_info, end_reason,
                     next, prev_manifest_hash_link, FINALIZE_FAILED, reported, parts>>
      /\ UNCHANGED <<storage, inherited, encrypt, signing_key>> /\ UNCHANGED opts
      /\ ~closed /\ sent' = sent + 1 /\ sent < MaxRecords /\ sent \in Nat
      /\ pipe \in Seq(Records) /\ parts \in Seq(Files)
  BY DEF ProxyWrites, RInv, Typed, TypeOK, ending, outcome, opts
<1>2. PICK k \in Kinds, n \in Lengths :
          pipe' = Append(pipe, [kind |-> k, len |-> n, id |-> sent + 1])
  BY DEF ProxyWrites
<1> DEFINE rec == [kind |-> k, len |-> n, id |-> sent + 1]
<1>3. rec \in Records
  BY <1>1, RecorderAssumption DEF Records
<1>4. /\ pipe' \in Seq(Records) /\ Len(pipe') = Len(pipe) + 1 /\ pipe' # <<>>
      /\ pipe'[Len(pipe')].id = sent + 1 /\ Len(pipe) \in Nat
      /\ \A j \in DOMAIN pipe : pipe'[j] = pipe[j]
      /\ \A j \in DOMAIN pipe' : j \in DOMAIN pipe \/ j = Len(pipe')
  <2>1. rec.id = sent + 1
    OBVIOUS
  <2> HIDE DEF rec
  <2> QED
    BY <1>1, <1>2, <1>3, <2>1 DEF rec
<1>5. Typed'
  BY <1>1, <1>4, RecorderAssumption DEF RInv, Typed, TypeOK
<1>6. ShapeInv'
  BY <1>1 DEF RInv, ShapeInv, InPart, Current, ConfigAccepted, MaxFile, MaxSession,
              Good, Signable, Rotatable, LinkTo
<1>7. SizeInv'
  BY <1>1 DEF RInv, SizeInv, InPart, Current, MaxFile, MaxSession, FileLimit, OnDisk,
              FullSize, Room, Overhead,
              OvershootOneRecord, LimitNeedsLongRecord
<1>8. PlaceInv'
  <2>1. Kept' = Kept /\ (InOrder => InOrder')
    BY <1>1, PlacesSame
  <2>2. NoRecordLost'
    <3>1. PICK m \in 0 .. sent :
              Kept = 1 .. m /\ (pc \notin {"failed", "killed"} => m + Len(pipe) = sent)
      BY DEF RInv, PlaceInv, NoRecordLost
    <3>2. m \in 0 .. sent' /\ Kept' = 1 .. m
      BY <1>1, <2>1, <3>1
    <3>3. pc' \notin {"failed", "killed"} => m + Len(pipe') = sent'
      <4>1. /\ pc' = pc /\ sent' = sent + 1 /\ Len(pipe') = Len(pipe) + 1
            /\ sent \in Nat /\ Len(pipe) \in Nat /\ m \in Int
        BY <1>1, <1>4, <3>1
      <4> QED
        BY <3>1, <4>1
    <3> QED
      BY <2>1, <3>2, <3>3 DEF NoRecordLost, RInv, PlaceInv
  <2>3. /\ Len(pipe') <= sent'
        /\ \A j \in DOMAIN pipe' : pipe'[j].id = sent' - Len(pipe') + j
    <3>1. /\ sent' = sent + 1 /\ Len(pipe') = Len(pipe) + 1
          /\ sent \in Nat /\ Len(pipe) \in Nat /\ DOMAIN pipe = 1 .. Len(pipe)
      BY <1>1, <1>4
    <3>2. Len(pipe) <= sent /\ \A j \in DOMAIN pipe : pipe[j].id = sent - Len(pipe) + j
      BY DEF RInv, PlaceInv
    <3> QED
      BY <1>4, <3>1, <3>2
  <2> QED
    BY <2>2, <2>3 DEF PlaceInv
<1>9. EofInv'
  <2>1. Current' = Current
    BY <1>1 DEF Current
  <2> QED
    BY <1>1, <1>4, <2>1 DEF RInv, EofInv, EofIsComplete
<1> QED
  BY <1>5, <1>6, <1>7, <1>8, <1>9 DEF RInv

(* The pipe and the files stay as they are.                                *)
StandStill ==
    /\ UNCHANGED <<pipe, sent, session_bytes, prev_manifest_hash_link, parts>>
    /\ UNCHANGED <<storage, inherited, encrypt, signing_key>>

LEMMA PlacesStill ==
    ASSUME PlaceInv, StandStill, pc \in {"failed", "killed"} => pc' \in {"failed", "killed"}
    PROVE  PlaceInv'
<1>1. Kept' = Kept /\ (InOrder => InOrder')
  BY PlacesSame DEF StandStill
<1> QED
  BY <1>1 DEF PlaceInv, NoRecordLost, StandStill

(* ... and the process stops, or goes on as before.                        *)
LEMMA RStill ==
    ASSUME RInv, StandStill, UNCHANGED <<end_reason, next>>,
           pc' = pc \/ pc' \in {"failed", "killed"},
           closed => closed', {closed', SHUTDOWN'} \subseteq BOOLEAN,
           UNCHANGED <<header_info, FINALIZE_FAILED, reported>>,
           parts # <<>> => ConfigAccepted
    PROVE  RInv'
<1> USE DEF StandStill
<1>1. Typed'
  BY DEF RInv, Typed, TypeOK, Stopped
<1>2. ShapeInv'
  BY DEF RInv, ShapeInv, InPart, Current, ConfigAccepted, MaxFile, MaxSession,
         Good, Signable, Rotatable, LinkTo
<1>3. SizeInv'
  BY DEF RInv, SizeInv, InPart, Current, MaxFile, MaxSession, FileLimit, OnDisk,
              FullSize, Room, Overhead,
         OvershootOneRecord, LimitNeedsLongRecord, Stopped
<1>4. PlaceInv'
  BY PlacesStill DEF RInv
<1>5. EofInv'
  <2>1. Current' = Current /\ Kept' = Kept
    BY DEF Current, Kept
  <2> QED
    BY <2>1 DEF RInv, EofInv, EofIsComplete
<1> QED
  BY <1>1, <1>2, <1>3, <1>4, <1>5 DEF RInv

LEMMA RProxyCloses == RInv /\ ProxyCloses => RInv'
BY RStill DEF ProxyCloses, StandStill, ending, outcome, opts, RInv, Typed, TypeOK, ShapeInv

LEMMA RSignal == RInv /\ Signal => RInv'
BY RStill DEF Signal, StandStill, ending, outcome, opts, RInv, Typed, TypeOK, ShapeInv

LEMMA RKill == RInv /\ Kill => RInv'
BY RStill DEF Kill, StandStill, env, ending, outcome, opts, RInv, Typed, TypeOK, ShapeInv

LEMMA ROpenFails == RInv /\ OpenFails => RInv'
BY RStill DEF OpenFails, StandStill, env, ending, outcome, opts, RInv, Typed, TypeOK, ShapeInv

LEMMA RUnchanged == RInv /\ UNCHANGED vars => RInv'
BY RStill DEF vars, StandStill, env, ending, outcome, opts, RInv, Typed, TypeOK, ShapeInv
LEMMA RStart == RInv /\ Start => RInv'
<1> SUFFICES ASSUME RInv, Start PROVE RInv'
  OBVIOUS
<1>1. /\ StandStill /\ pc = "start" /\ parts = <<>> /\ session_bytes = 0
      /\ UNCHANGED <<end_reason, next, closed, SHUTDOWN, header_info, FINALIZE_FAILED, reported>>
      /\ (pc' = "open" /\ ConfigAccepted) \/ pc' = "failed"
      /\ next = "EndOfStream"
  <2>1. (pc' = "open" /\ ConfigAccepted) \/ pc' = "failed"
    <3>1. PICK ok \in {ConfigAccepted, ConfigAccepted /\ ~IoErrors} :
              pc' = IF ok THEN "open" ELSE "failed"
      BY DEF Start
    <3> QED
      BY <3>1
  <2>2. pc = "start" /\ UNCHANGED <<env, session_bytes, header_info, ending,
                                    prev_manifest_hash_link, outcome, parts, opts>>
    BY DEF Start
  <2> QED
    BY <2>1, <2>2 DEF StandStill, env, ending, outcome, opts, RInv, ShapeInv, SizeInv
<1>2. CASE pc' = "failed"
  BY <1>1, <1>2, RStill DEF RInv, Typed, TypeOK
<1>3. CASE pc' = "open" /\ ConfigAccepted
  <2> USE DEF StandStill
  <2>1. Typed'
    BY <1>1, <1>3 DEF RInv, Typed, TypeOK
  <2>2. ShapeInv'
    BY <1>1, <1>3 DEF RInv, ShapeInv, InPart, ConfigAccepted, MaxFile, MaxSession
  <2>3. SizeInv'
    <3>1. MaxSession \in Nat \ {0}
      BY <1>3, LimitsType, RecorderAssumption DEF ConfigAccepted, RInv
    <3>2. parts' = <<>> /\ session_bytes' = 0 /\ MaxSession' = MaxSession
      BY <1>1 DEF MaxSession
    <3> QED
      BY <1>3, <3>1, <3>2 DEF SizeInv, InPart, OvershootOneRecord, LimitNeedsLongRecord
  <2>4. PlaceInv'
    BY <1>1, PlacesStill DEF RInv
  <2>5. EofInv'
    BY <1>1, <1>3 DEF EofInv, EofIsComplete
  <2> QED
    BY <2>1, <2>2, <2>3, <2>4, <2>5 DEF RInv
<1> QED
  BY <1>1, <1>2, <1>3

LEMMA RReadEof == RInv /\ ReadEof => RInv'
<1> SUFFICES ASSUME RInv, ReadEof PROVE RInv'
  OBVIOUS
<1>1. /\ StandStill /\ pc = "read" /\ pc' = "finish" /\ pipe = <<>> /\ closed
      /\ UNCHANGED <<closed, SHUTDOWN, header_info, FINALIZE_FAILED, reported>>
      /\ end_reason' = "eof" /\ next' = "EndOfStream"
  BY DEF ReadEof, StandStill, env, outcome, opts
<1> USE DEF StandStill
<1>2. Typed'
  BY <1>1 DEF RInv, Typed, TypeOK, ProxyReasons
<1>3. ShapeInv'
  BY <1>1 DEF RInv, ShapeInv, InPart, Current, ConfigAccepted, MaxFile, MaxSession,
              Good, Signable, Rotatable, LinkTo
<1>4. SizeInv'
  BY <1>1 DEF RInv, SizeInv, InPart, Current, MaxFile, MaxSession, FileLimit, OnDisk,
              FullSize, Room, Overhead,
              OvershootOneRecord, LimitNeedsLongRecord, Stopped
<1>5. PlaceInv'
  BY <1>1, PlacesStill DEF RInv
<1>6. EofInv'
  <2>1. Current' = Current /\ Kept' = Kept
    BY <1>1 DEF Current, Kept
  <2> QED
    BY <1>1, <2>1 DEF RInv, EofInv, EofIsComplete
<1> QED
  BY <1>2, <1>3, <1>4, <1>5, <1>6 DEF RInv
-----------------------------------------------------------------------------
(* The conjuncts of the invariant after the other steps ********************)

Modes == Stopped \cup {"start", "open", "read", "finish", "sign"}
EndReasons == {"none"} \cup Reasons
PartNexts == {"EndOfStream", "Rotated", "SessionSizeLimit"}

LEMMA TypedNext ==
    ASSUME Typed, UNCHANGED opts, UNCHANGED <<sent, closed, SHUTDOWN>>,
           pipe' \in Seq(Records), parts' \in Seq(Files),
           pc' \in Modes, session_bytes' \in Nat, end_reason' \in EndReasons,
           next' \in PartNexts, prev_manifest_hash_link' \in {None} \cup 0 .. Len(parts') - 1,
           {header_info', FINALIZE_FAILED', reported'} \subseteq BOOLEAN
    PROVE  Typed'
<1>1. \A i \in DOMAIN parts' :
          /\ parts'[i].ids \in Seq(0 .. MaxRecords)
          /\ parts'[i].stream \in {"open", "plain", "final", "broken"}
  <2> SUFFICES ASSUME NEW i \in DOMAIN parts'
               PROVE  /\ parts'[i].ids \in Seq(0 .. MaxRecords)
                      /\ parts'[i].stream \in {"open", "plain", "final", "broken"}
    OBVIOUS
  <2>1. parts'[i] \in Files
    BY ElementOf
  <2> QED
    BY <2>1 DEF Files
<1>2. UNCHANGED <<storage, inherited, encrypt, signing_key>>
  BY SameOptions
<1>3. {closed, SHUTDOWN, header_info, FINALIZE_FAILED, reported, encrypt,
       signing_key}' \subseteq BOOLEAN
  BY <1>2 DEF Typed, TypeOK
<1>4. /\ sent' \in 0 .. MaxRecords /\ storage' \in Configs /\ inherited' \in Inherited
      /\ end_reason' \in {"none", "signal", "session_size_limit", "rotated"} \cup ProxyReasons
  BY <1>2 DEF Typed, TypeOK, EndReasons, Reasons
<1> QED
  BY <1>1, <1>3, <1>4 DEF Typed, TypeOK, Modes, PartNexts

(* A session that has failed owes no more than what is in its files.       *)
LEMMA ShapeFailed ==
    ASSUME pc' = "failed", Chained', ConfigAccepted'
    PROVE  ShapeInv'
BY DEF ShapeInv, Chained, InPart

LEMMA SizeFailed ==
    ASSUME pc' = "failed", Sized'
    PROVE  SizeInv'
BY DEF SizeInv, Sized, InPart, Stopped

(* No part says "eof" while there may be another step.                     *)
LEMMA EofAdds ==
    ASSUME Typed, ShapeInv, pc = "open", NEW file \in Files, Adds(file),
           file.manifest # "eof"
    PROVE  EofIsComplete'
<1> SUFFICES ASSUME NEW i \in DOMAIN parts' PROVE parts'[i].manifest # "eof"
  BY DEF EofIsComplete
<1>1. CASE i = Len(parts')
  BY <1>1, AddsIs DEF Typed
<1>2. CASE i # Len(parts')
  <2>1. i \in DOMAIN parts /\ parts'[i] = parts[i]
    BY <1>2, AddsIs DEF Typed
  <2> QED
    BY <2>1 DEF ShapeInv, Rotatable
<1> QED
  BY <1>1, <1>2

LEMMA EofSets ==
    ASSUME Typed, ShapeInv, NEW file \in Files, SetsLast(file),
           file.manifest = "eof" =>
                \/ closed' /\ Kept' = 1 .. sent'
                \/ file.last.kind = "end"
    PROVE  EofIsComplete'
<1> SUFFICES ASSUME NEW i \in DOMAIN parts', parts'[i].manifest = "eof"
             PROVE  (closed' /\ Kept' = 1 .. sent') \/ parts'[i].last.kind = "end"
  BY DEF EofIsComplete
<1>1. CASE i = Len(parts)
  BY <1>1, SetsLastIs DEF Typed
<1>2. CASE i # Len(parts)
  <2>1. i \in DOMAIN parts /\ parts'[i] = parts[i] /\ i < Len(parts)
    BY <1>2, SetsLastIs DEF Typed
  <2> QED
    BY <2>1 DEF ShapeInv, Rotatable
<1> QED
  BY <1>1, <1>2

(* The record read is in the last file ...                                 *)
LEMMA PlacesRead ==
    ASSUME Typed, PlaceInv, pc = "read", pipe # <<>>, pipe' = Tail(pipe),
           UNCHANGED sent, NEW file \in Files, SetsLast(file),
           file.ids = Append(Current.ids, Head(pipe).id)
    PROVE  PlaceInv'
<1>1. PICK n \in 0 .. sent : Kept = 1 .. n /\ n + Len(pipe) = sent
  BY DEF PlaceInv, NoRecordLost
<1>2. sent \in Nat /\ Len(pipe) \in Nat /\ n \in Nat
  BY <1>1 DEF Typed, TypeOK
<1>3. Head(pipe).id = n + 1 /\ n + 1 \in 1 .. MaxRecords
  BY <1>1, <1>2, HeadRecord
<1>4. Kept' = Kept \cup {n + 1} /\ (InOrder => InOrder')
  <2>1. \A other \in Kept : other < n + 1
    BY <1>1, <1>2
  <2>2. parts \in Seq(Files) /\ file.ids = Append(Current.ids, n + 1)
    BY <1>3 DEF Typed
  <2> QED
    BY <1>3, <2>1, <2>2, PlacesAppended
<1>5. Kept' = 1 .. n + 1
  BY <1>1, <1>2, <1>4
<1>6. /\ Len(pipe') = Len(pipe) - 1 /\ Len(pipe') <= sent'
      /\ \A j \in DOMAIN pipe' : pipe'[j].id = sent' - Len(pipe') + j
  BY HeadRecord
<1>7. n + 1 \in 0 .. sent' /\ n + 1 + Len(pipe') = sent'
  <2>1. Len(pipe') \in Nat
    BY HeadRecord
  <2> QED
    BY <1>1, <1>2, <1>6, <2>1
<1> QED
  BY <1>4, <1>5, <1>6, <1>7 DEF PlaceInv, NoRecordLost

(* ... or lost, as those after it, with the session.                       *)
LEMMA PlacesFailed ==
    ASSUME Typed, PlaceInv, pc' = "failed", UNCHANGED sent,
           pipe' = pipe \/ (pipe # <<>> /\ pipe' = Tail(pipe)),
           Kept' = Kept, InOrder => InOrder'
    PROVE  PlaceInv'
<1>1. /\ Len(pipe') <= sent'
      /\ \A j \in DOMAIN pipe' : pipe'[j].id = sent' - Len(pipe') + j
  <2>1. CASE pipe' = pipe
    BY <2>1 DEF PlaceInv
  <2>2. CASE pipe # <<>> /\ pipe' = Tail(pipe)
    BY <2>2, HeadRecord
  <2> QED
    BY <2>1, <2>2
<1> QED
  BY <1>1 DEF PlaceInv, NoRecordLost
-----------------------------------------------------------------------------
(* What each kind of step comes to *****************************************)

LEMMA WritesFit ==
    ASSUME NEW n, TRUE \in WriteSucceeds(n)
    PROVE  n <= FileLimit
<1>1. Fits(n) = TRUE
  BY Zenon DEF WriteSucceeds
<1> QED
  BY <1>1 DEF Fits

LEMMA ErrorIs ==
    ASSUME NEW done, NEW file \in Files, ReturnError(done, file), Typed
    PROVE  \E closing \in Files :
               /\ parts' = Append(done, closing)
               /\ closing.ids = file.ids /\ closing.bytes = file.bytes
               /\ closing.last = file.last /\ closing.link = file.link
               /\ closing.manifest = file.manifest
               /\ pc' = "failed" /\ UNCHANGED reported /\ FINALIZE_FAILED' \in BOOLEAN
<1>1. PICK fits \in WriteSucceeds(FullSize(file.bytes)) :
          /\ parts' = Append(done, Finished(file, fits))
          /\ FINALIZE_FAILED' = (encrypt /\ ~fits)
          /\ pc' = "failed" /\ UNCHANGED reported
  BY DEF ReturnError
<1>2. FINALIZE_FAILED' \in BOOLEAN
  BY <1>1
<1> QED
  BY <1>1, <1>2, FinishedIs

LEMMA Roomy ==
    ASSUME RInv, ConfigAccepted
    PROVE  /\ MaxFile \in Nat \ {0} /\ MaxSession \in Nat \ {0}
           /\ MaxFile <= MAX_FILE_SIZE /\ MaxFile <= MaxSession
BY LimitsType, RecorderAssumption DEF ConfigAccepted, RInv

(* A part that was not past MAX_FILE_SIZE before its last record.          *)
LEMMA RoomSuffices ==
    ASSUME Typed, NEW file \in Files, file.bytes - file.last.len <= MAX_FILE_SIZE
    PROVE  PastLimit(file)
<1> DEFINE n == file.bytes
           len == file.last.len
           most == MAX_FILE_SIZE + Slack
<1>1. /\ n \in Nat /\ len \in Nat /\ MAX_FILE_SIZE \in Nat /\ Slack \in Nat
      /\ inherited \in Nat /\ most \in Nat
  BY LimitsType DEF Files, Lasts
<1> SUFFICES ASSUME ~(len > Room), ~(inherited < most)
             PROVE  FullSize(n) <= FileLimit
  BY DEF PastLimit
<1>2. Overhead(most) \in Nat /\ Room = Slack - Overhead(most)
  BY <1>1, OverheadGrows DEF Room
<1>3. len <= Slack - Overhead(most) /\ n <= most
  BY <1>1, <1>2
<1>4. Overhead(n) \in Nat /\ Overhead(n) <= Overhead(most) /\ FullSize(n) = n + Overhead(n)
  BY <1>1, <1>3, OverheadGrows
<1>5. FileLimit = most
  BY <1>1 DEF FileLimit
<1> HIDE DEF n, len, most
<1>6. n - len <= MAX_FILE_SIZE /\ most = MAX_FILE_SIZE + Slack
  BY DEF n, len, most
<1> QED
  BY <1>1, <1>2, <1>3, <1>4, <1>5, <1>6

(* A session that fails as it opens a part ...                             *)
LEMMA FailAdds ==
    ASSUME RInv, pc = "open", pc' = "failed",
           UNCHANGED <<env, ending, prev_manifest_hash_link, opts, session_bytes>>,
           {header_info', FINALIZE_FAILED', reported'} \subseteq BOOLEAN,
           NEW file \in Files, Adds(file), file.link = prev_manifest_hash_link,
           file.manifest = "none", file.ids \in {<<>>, <<Synthetic>>},
           Overshot(file, Len(parts) + 1), PastLimit(file)
    PROVE  RInv'
<1>1. /\ UNCHANGED <<pipe, sent, closed, SHUTDOWN, end_reason, next>> /\ UNCHANGED opts
      /\ Typed /\ ShapeInv /\ SizeInv /\ PlaceInv /\ pipe \in Seq(Records)
      /\ parts \in Seq(Files)
  BY DEF env, ending, RInv, Typed, TypeOK
<1>2. Typed'
  <2>1. parts' \in Seq(Files) /\ Len(parts') = Len(parts) + 1 /\ Len(parts) \in Nat
    BY <1>1, AddsIs
  <2>2. /\ session_bytes' \in Nat /\ end_reason' \in EndReasons /\ next' \in PartNexts
        /\ prev_manifest_hash_link' \in {None} \cup 0 .. Len(parts') - 1
        /\ pc' \in Modes
    BY <1>1, <2>1 DEF Typed, TypeOK, EndReasons, Reasons, PartNexts, Modes, Stopped
  <2> QED
    BY <1>1, <2>1, <2>2, TypedNext
<1>3. ShapeInv'
  <2>1. Chained'
    BY <1>1, ChainedAdds
  <2>2. ConfigAccepted'
    BY <1>1, SameOptions DEF ShapeInv
  <2> QED
    BY <2>1, <2>2, ShapeFailed
<1>4. SizeInv'
  <2>1. session_bytes' - file.last.len < MaxSession + HeaderLength
    <3>1. /\ session_bytes' = session_bytes /\ session_bytes < MaxSession
          /\ session_bytes \in Nat /\ MaxSession \in Nat /\ HeaderLength \in Nat
      BY <1>1, LimitsType, SynthHeaderType DEF SizeInv, Typed, TypeOK
    <3>2. file.last.len \in Nat
      BY DEF Files, Lasts
    <3> QED
      BY <3>1, <3>2
  <2> QED
    BY <1>1, <2>1, SizedAdds, SizeFailed
<1>5. PlaceInv'
  BY <1>1, PlacesAdded, PlacesFailed
<1>6. EofInv'
  BY <1>1, EofAdds DEF EofInv
<1> QED
  BY <1>2, <1>3, <1>4, <1>5, <1>6 DEF RInv

(* ... or in the middle of one.                                            *)
LEMMA FailSets ==
    ASSUME RInv, pc \in {"read", "finish"}, pc' = "failed", PlaceInv',
           pipe' \in Seq(Records), session_bytes' \in Nat,
           UNCHANGED <<sent, closed, SHUTDOWN, ending, prev_manifest_hash_link>>,
           UNCHANGED opts, {header_info', FINALIZE_FAILED', reported'} \subseteq BOOLEAN,
           NEW file \in Files, SetsLast(file), file.link = Current.link,
           file.manifest = "none", Overshot(file, Len(parts)), PastLimit(file),
           session_bytes' - file.last.len < MaxSession + HeaderLength
    PROVE  RInv'
<1>1. /\ Typed /\ ShapeInv /\ SizeInv /\ parts \in Seq(Files)
      /\ UNCHANGED <<sent, closed, SHUTDOWN, end_reason, next>>
  BY DEF RInv, ending, Typed
<1>2. Typed'
  <2>1. parts' \in Seq(Files) /\ Len(parts') = Len(parts)
    BY <1>1, SetsLastIs
  <2>2. /\ end_reason' \in EndReasons /\ next' \in PartNexts
        /\ prev_manifest_hash_link' \in {None} \cup 0 .. Len(parts') - 1
        /\ pc' \in Modes
    BY <1>1, <2>1 DEF Typed, TypeOK, EndReasons, Reasons, PartNexts, Modes, Stopped
  <2> QED
    BY <1>1, <2>1, <2>2, TypedNext
<1>3. ShapeInv'
  <2>1. Chained'
    BY <1>1, ChainedSets
  <2>2. ConfigAccepted'
    BY <1>1, SameOptions DEF ShapeInv, InPart, SetsLast
  <2> QED
    BY <2>1, <2>2, ShapeFailed
<1>4. SizeInv'
  BY <1>1, SizedSets, SizeFailed
<1>5. EofInv'
  BY <1>1, EofSets DEF EofInv
<1> QED
  BY <1>2, <1>3, <1>4, <1>5 DEF RInv

(* A part that is opened and awaits its first record.                      *)
LEMMA OpenAdds ==
    ASSUME RInv, pc = "open", pc' = "read",
           UNCHANGED <<env, ending, prev_manifest_hash_link, outcome>>,
           UNCHANGED opts, session_bytes' \in Nat, header_info' \in BOOLEAN,
           NEW file \in Files, Adds(file), file.link = prev_manifest_hash_link,
           file.manifest = "none", file.stream = "open",
           file.ids \in {<<>>, <<Synthetic>>},
           file.bytes - file.last.len < MaxFile, OnDisk(file.bytes) <= FileLimit,
           PastLimit(file), header_info' => file.header,
           \/ file.bytes < MaxFile
           \/ parts # <<>> /\ Len(file.ids) = 1 /\ file.bytes = HeaderLength,
           session_bytes' < MaxSession + HeaderLength
    PROVE  RInv'
<1>1. /\ UNCHANGED <<pipe, sent, closed, SHUTDOWN, end_reason, next>>
      /\ UNCHANGED <<FINALIZE_FAILED, reported>>
      /\ Typed /\ ShapeInv /\ SizeInv /\ PlaceInv /\ pipe \in Seq(Records)
      /\ parts \in Seq(Files) /\ {header_info', FINALIZE_FAILED', reported'} \subseteq BOOLEAN
  BY DEF env, ending, outcome, RInv, Typed, TypeOK
<1>2. /\ parts' \in Seq(Files) /\ Len(parts') = Len(parts) + 1 /\ Len(parts) \in Nat
      /\ Current' = file /\ parts' # <<>> /\ parts'[Len(parts')] = file
      /\ \A i \in DOMAIN parts : parts'[i] = parts[i]
      /\ \A i \in DOMAIN parts' : i \in DOMAIN parts \/ i = Len(parts')
  BY <1>1, AddsIs
<1>3. /\ MaxFile' = MaxFile /\ MaxSession' = MaxSession /\ FileLimit' = FileLimit
      /\ ConfigAccepted' /\ encrypt' = encrypt
  BY <1>1, SameOptions DEF ShapeInv
<1>4. Typed'
  <2>1. /\ end_reason' \in EndReasons /\ next' \in PartNexts
        /\ prev_manifest_hash_link' \in {None} \cup 0 .. Len(parts') - 1
        /\ pc' \in Modes
    BY <1>1, <1>2 DEF Typed, TypeOK, EndReasons, Reasons, PartNexts, Modes, Stopped, ending
  <2> QED
    BY <1>1, <1>2, <2>1, TypedNext
<1>5. ShapeInv'
  <2>1. Chained'
    BY <1>1, ChainedAdds
  <2> QED
    BY <1>1, <1>2, <1>3, <2>1 DEF ShapeInv, Chained, InPart
<1>6. SizeInv'
  <2>1. Sized'
    <3>1. file.last.len \in Nat
      BY DEF Files, Lasts
    <3>2. session_bytes' - file.last.len < MaxSession + HeaderLength
      BY <1>1, <3>1, LimitsType, SynthHeaderType
    <3> QED
      BY <1>1, <3>2, SizedAdds DEF Overshot
  <2>2. OnDisk(Current.bytes)' <= FileLimit'
    BY <1>2, <1>3 DEF OnDisk
  <2>3. \/ Current'.bytes < MaxFile'
        \/ /\ Len(parts') > 1 /\ Len(Current'.ids) = 1
           /\ Current'.bytes = HeaderLength
    BY <1>1, <1>2, <1>3
  <2>4. next' = "EndOfStream"
    BY <1>1 DEF ShapeInv
  <2> QED
    BY <1>3, <2>1, <2>2, <2>3, <2>4 DEF SizeInv, Sized, InPart
<1>7. PlaceInv'
  <2>1. Kept' = Kept /\ (InOrder => InOrder')
    BY <1>1, PlacesAdded
  <2> QED
    BY <1>1, <2>1 DEF PlaceInv, NoRecordLost
<1>8. EofInv'
  BY <1>1, EofAdds DEF EofInv
<1> QED
  BY <1>4, <1>5, <1>6, <1>7, <1>8 DEF RInv

LEMMA NewLink ==
    ASSUME Typed
    PROVE  prev_manifest_hash_link \in {None} \cup Nat
BY DEF Typed, TypeOK

(* A file of one synthesized header.                                       *)
LEMMA HeaderFile ==
    ASSUME NEW link \in {None} \cup Nat
    PROVE  LET file == Stored(NewFile(link), SynthHeader)
               broken == Broken(file)
           IN  /\ file \in Files /\ broken \in Files
               /\ file.ids = <<Synthetic>> /\ broken.ids = <<>>
               /\ file.bytes = HeaderLength /\ broken.bytes = HeaderLength
               /\ file.last = SynthHeader /\ broken.last = SynthHeader
               /\ file.link = link /\ broken.link = link
               /\ file.stream = "open" /\ file.header
               /\ file.manifest = "none" /\ broken.manifest = "none"
<1> DEFINE empty == NewFile(link)
<1>1. /\ empty \in Files /\ empty.ids = <<>> /\ empty.bytes = 0 /\ empty.link = link
      /\ empty.stream = "open" /\ empty.manifest = "none"
  BY NewFileIs
<1>2. SynthHeader \in Lasts /\ SynthHeader.kind = "header" /\ SynthHeader.id = Synthetic /\ SynthHeader.len = HeaderLength
      /\ HeaderLength \in Nat
  BY SynthHeaderType DEF SynthHeader
<1> HIDE DEF empty
<1>3. 0 + HeaderLength = HeaderLength /\ Append(<<>>, Synthetic) = <<Synthetic>>
  BY <1>2
<1>4. LET file == Stored(empty, SynthHeader)
      IN  /\ file \in Files /\ file.ids = <<Synthetic>> /\ file.bytes = HeaderLength
          /\ file.last = SynthHeader /\ file.link = link /\ file.stream = "open"
          /\ file.manifest = "none" /\ file.header
  <2> DEFINE file == Stored(empty, SynthHeader)
  <2>1. /\ file \in Files /\ file.ids = Append(empty.ids, SynthHeader.id)
        /\ file.bytes = empty.bytes + SynthHeader.len /\ file.last = SynthHeader
        /\ file.link = empty.link /\ file.stream = empty.stream
        /\ file.manifest = empty.manifest /\ file.header
    BY <1>1, <1>2, StoredIs
  <2> HIDE DEF file
  <2>2. file.ids = <<Synthetic>> /\ file.bytes = HeaderLength
    BY <1>1, <1>2, <1>3, <2>1
  <2> QED
    BY <1>1, <2>1, <2>2 DEF file
<1>5. LET broken == Broken(Stored(empty, SynthHeader))
      IN  /\ broken \in Files /\ broken.ids = <<>> /\ broken.bytes = HeaderLength
          /\ broken.last = SynthHeader /\ broken.link = link
          /\ broken.manifest = "none"
  BY <1>1, <1>2, <1>3, BrokenIs
<1> QED
  BY <1>4, <1>5 DEF empty

LEMMA RSetupFails == RInv /\ SetupFails => RInv'
<1> SUFFICES ASSUME RInv, SetupFails PROVE RInv'
  OBVIOUS
<1> DEFINE file == NewFile(prev_manifest_hash_link)
<1>1. /\ file \in Files /\ file.ids = <<>> /\ file.bytes = 0 /\ file.last = NoRecord
      /\ file.link = prev_manifest_hash_link /\ file.manifest = "none"
  BY NewLink, NewFileIs DEF RInv
<1>2. /\ pc = "open" /\ pc' = "failed" /\ Adds(file)
      /\ UNCHANGED <<env, ending, prev_manifest_hash_link, opts, session_bytes>>
      /\ {header_info', FINALIZE_FAILED', reported'} \subseteq BOOLEAN
      /\ ConfigAccepted
  BY DEF SetupFails, Adds, outcome, RInv, Typed, TypeOK, ShapeInv
<1> HIDE DEF file
<1>3. Overshot(file, Len(parts) + 1)
  BY <1>1, <1>2, Roomy DEF Overshot, NoRecord
<1>4. PastLimit(file)
  <2>1. file.bytes - file.last.len <= MAX_FILE_SIZE
    BY <1>1, LimitsType DEF NoRecord, RInv
  <2> QED
    BY <1>1, <2>1, RoomSuffices DEF RInv
<1> QED
  BY <1>1, <1>2, <1>3, <1>4, FailAdds

LEMMA ROpenFirst == RInv /\ OpenFirst => RInv'
<1> SUFFICES ASSUME RInv, OpenFirst PROVE RInv'
  OBVIOUS
<1> DEFINE file == NewFile(prev_manifest_hash_link)
<1>1. /\ file \in Files /\ file.ids = <<>> /\ file.bytes = 0 /\ file.last = NoRecord
      /\ file.link = prev_manifest_hash_link /\ file.manifest = "none"
      /\ file.stream = "open"
  BY NewLink, NewFileIs DEF RInv
<1>2. /\ pc = "open" /\ pc' = "read" /\ Adds(file)
      /\ UNCHANGED <<env, ending, prev_manifest_hash_link, outcome>>
      /\ UNCHANGED opts /\ session_bytes' = session_bytes /\ header_info' \in BOOLEAN
      /\ ConfigAccepted /\ session_bytes \in Nat /\ session_bytes < MaxSession
      /\ TRUE \in WriteSucceeds(OnDisk(0)) /\ header_info' = FALSE
  BY DEF OpenFirst, Adds, RInv, Typed, TypeOK, ShapeInv, SizeInv
<1> HIDE DEF file
<1>3. 0 - file.last.len < MaxFile /\ 0 < MaxFile
  BY <1>1, <1>2, Roomy DEF NoRecord
<1>4. OnDisk(file.bytes) <= FileLimit /\ PastLimit(file)
  <2>1. file.bytes - file.last.len <= MAX_FILE_SIZE
    BY <1>1, LimitsType DEF NoRecord, RInv
  <2> QED
    BY <1>1, <1>2, <2>1, RoomSuffices, WritesFit DEF RInv
<1>5. session_bytes' < MaxSession + HeaderLength
  BY <1>2, LimitsType, SynthHeaderType DEF RInv
<1> QED
  BY <1>1, <1>2, <1>3, <1>4, <1>5, OpenAdds

LEMMA ROpenNext == RInv /\ OpenNext => RInv'
<1> SUFFICES ASSUME RInv, OpenNext PROVE RInv'
  OBVIOUS
<1> DEFINE file == Stored(NewFile(prev_manifest_hash_link), SynthHeader)
           broken == Broken(file)
<1>1. /\ file \in Files /\ broken \in Files
      /\ file.ids = <<Synthetic>> /\ broken.ids = <<>>
      /\ file.bytes = HeaderLength /\ broken.bytes = HeaderLength
      /\ file.last = SynthHeader /\ broken.last = SynthHeader
      /\ file.link = prev_manifest_hash_link /\ broken.link = prev_manifest_hash_link
      /\ file.stream = "open" /\ file.header
      /\ file.manifest = "none" /\ broken.manifest = "none"
  BY NewLink, HeaderFile DEF RInv
<1>2. /\ pc = "open" /\ parts # <<>> /\ ConfigAccepted /\ Typed
      /\ UNCHANGED <<env, ending, prev_manifest_hash_link>> /\ UNCHANGED opts
      /\ session_bytes \in Nat /\ session_bytes < MaxSession
      /\ {header_info, FINALIZE_FAILED, reported} \subseteq BOOLEAN
  BY DEF OpenNext, RInv, Typed, TypeOK, ShapeInv, SizeInv
<1>3. \/ /\ TRUE \in WriteSucceeds(OnDisk(HeaderLength)) /\ Adds(file)
         /\ session_bytes' = session_bytes + HeaderLength
         /\ header_info' = TRUE /\ pc' = "read" /\ UNCHANGED outcome
      \/ /\ ReturnError(parts, broken) /\ UNCHANGED <<session_bytes, header_info>>
  BY DEF OpenNext, Adds
<1> HIDE DEF file, broken
<1>4. HeaderLength \in Nat \ {0} /\ SynthHeader.len = HeaderLength
      /\ HeaderLength - HeaderLength = 0 /\ Len(<<Synthetic>>) = 1
  BY SynthHeaderType DEF SynthHeader
<1>5. MaxFile \in Nat \ {0} /\ MaxSession \in Nat
  BY <1>2, Roomy
<1>6. CASE /\ TRUE \in WriteSucceeds(OnDisk(HeaderLength)) /\ Adds(file)
           /\ session_bytes' = session_bytes + HeaderLength
           /\ header_info' = TRUE /\ pc' = "read" /\ UNCHANGED outcome
  <2>1. OnDisk(file.bytes) <= FileLimit /\ PastLimit(file)
    <3>1. file.bytes - file.last.len <= MAX_FILE_SIZE
      BY <1>1, <1>2, <1>4, LimitsType
    <3> QED
      BY <1>1, <1>2, <1>6, <3>1, RoomSuffices, WritesFit
  <2>2. session_bytes' \in Nat /\ session_bytes' < MaxSession + HeaderLength
    BY <1>2, <1>4, <1>5, <1>6
  <2>3. file.bytes - file.last.len < MaxFile
    BY <1>1, <1>4, <1>5
  <2> QED
    BY <1>1, <1>2, <1>4, <1>6, <2>1, <2>2, <2>3, OpenAdds
<1>7. CASE ReturnError(parts, broken) /\ UNCHANGED <<session_bytes, header_info>>
  <2>1. PICK closing \in Files :
            /\ parts' = Append(parts, closing)
            /\ closing.ids = broken.ids /\ closing.bytes = broken.bytes
            /\ closing.last = broken.last /\ closing.link = broken.link
            /\ closing.manifest = broken.manifest
            /\ pc' = "failed" /\ UNCHANGED reported /\ FINALIZE_FAILED' \in BOOLEAN
    BY <1>1, <1>2, <1>7, ErrorIs
  <2>2. Overshot(closing, Len(parts) + 1)
    BY <1>1, <1>4, <1>5, <2>1 DEF Overshot
  <2>3. PastLimit(closing)
    <3>1. closing.bytes - closing.last.len <= MAX_FILE_SIZE
      BY <1>1, <1>2, <1>4, <2>1, LimitsType
    <3> QED
      BY <1>2, <3>1, RoomSuffices
  <2> QED
    BY <1>1, <1>2, <1>7, <2>1, <2>2, <2>3, FailAdds DEF Adds
<1> QED
  BY <1>3, <1>6, <1>7

(* Replacing the last file.                                                *)
LEMMA ReplacesLast ==
    ASSUME parts \in Seq(Files), parts # <<>>, NEW file \in Files,
           parts' = Append(Front(parts), file)
    PROVE  SetsLast(file)
BY FrontOf DEF SetsLast

(* The first of the tests of the loop that holds.                          *)
LEMMA StopsIs ==
    ASSUME NEW rec, NEW file, NEW total, NEW stop \in Stops(rec, file, total)
    PROVE  /\ stop[1] \in EndReasons /\ stop[2] \in PartNexts
           /\ stop[1] = "none" =>
                /\ ~(total >= MaxSession) /\ ~(file.bytes >= MaxFile)
                /\ stop[2] = "EndOfStream"
           /\ stop[1] = "eof" => rec.kind = "end"
           /\ stop[2] = "Rotated" =>
                ~(total >= MaxSession) /\ file.bytes >= MaxFile /\ stop[1] = "rotated"
           /\ stop[1] = "rotated" => stop[2] = "Rotated"
<1> USE DEF EndReasons, Reasons, PartNexts, ProxyReasons
<1>1. CASE rec.kind = "end"
  <2>1. Stops(rec, file, total) = ProxyReasons \X {"EndOfStream"}
    BY <1>1, Zenon DEF Stops
  <2>2. stop[1] \in ProxyReasons /\ stop[2] = "EndOfStream"
    BY <2>1
  <2> QED
    BY <1>1, <2>2
<1>2. CASE rec.kind # "end" /\ SHUTDOWN
  <2>1. Stops(rec, file, total) = {<<"signal", "EndOfStream">>}
    BY <1>2, Zenon DEF Stops
  <2> QED
    BY <2>1
<1>3. CASE rec.kind # "end" /\ ~SHUTDOWN /\ total >= MaxSession
  <2>1. Stops(rec, file, total) = {<<"session_size_limit", "SessionSizeLimit">>}
    BY <1>3, Zenon DEF Stops
  <2> QED
    BY <2>1
<1>4. CASE rec.kind # "end" /\ ~SHUTDOWN /\ ~(total >= MaxSession) /\ file.bytes >= MaxFile
  <2>1. Stops(rec, file, total) = {<<"rotated", "Rotated">>}
    BY <1>4, Zenon DEF Stops
  <2> QED
    BY <1>4, <2>1
<1>5. CASE rec.kind # "end" /\ ~SHUTDOWN /\ ~(total >= MaxSession) /\ ~(file.bytes >= MaxFile)
  <2>1. Stops(rec, file, total) = {<<"none", "EndOfStream">>}
    BY <1>5, Zenon DEF Stops
  <2> QED
    BY <1>5, <2>1
<1> QED
  BY <1>1, <1>2, <1>3, <1>4, <1>5

(* The part that a record is read into.                                    *)
LEMMA Reading ==
    ASSUME RInv, pc = "read"
    PROVE  /\ Typed /\ ShapeInv /\ SizeInv /\ PlaceInv /\ ConfigAccepted
           /\ parts \in Seq(Files) /\ parts # <<>> /\ Current \in Files
           /\ Len(parts) \in DOMAIN parts /\ Len(parts) \in Nat
           /\ Current.bytes \in Nat /\ Current.ids \in Seq(0 .. MaxRecords)
           /\ Current.last.len \in Nat
           /\ Current.manifest = "none" /\ Current.stream = "open"
           /\ Overshot(Current, Len(parts)) /\ PastLimit(Current)
           /\ Current.bytes <= MAX_FILE_SIZE
           /\ session_bytes - Current.last.len < MaxSession + HeaderLength
           /\ session_bytes < MaxSession + HeaderLength /\ session_bytes \in Nat
           /\ {header_info, FINALIZE_FAILED, reported} \subseteq BOOLEAN
<1>1. /\ Typed /\ ShapeInv /\ SizeInv /\ PlaceInv
      /\ parts \in Seq(Files) /\ parts # <<>> /\ ConfigAccepted
      /\ Current.manifest = "none" /\ Current.stream = "open"
      /\ session_bytes < MaxSession + HeaderLength /\ session_bytes \in Nat
      /\ {header_info, FINALIZE_FAILED, reported} \subseteq BOOLEAN
  BY DEF RInv, Typed, TypeOK, ShapeInv, SizeInv, InPart
<1>2. Current \in Files /\ Len(parts) \in DOMAIN parts /\ Len(parts) \in Nat
  BY <1>1, CurrentType
<1>3. Current.bytes \in Nat /\ Current.ids \in Seq(0 .. MaxRecords) /\ Current.last \in Lasts
  BY <1>2 DEF Files
<1>4. Current.last.len \in Nat
  BY <1>3 DEF Lasts
<1>5. Overshot(Current, Len(parts)) /\ PastLimit(Current)
  BY <1>1, <1>2 DEF SizeInv, OvershootOneRecord, LimitNeedsLongRecord, Overshot,
                    PastLimit, Current
<1>6. Current.bytes <= MAX_FILE_SIZE
  <2>1. Current.bytes < MaxFile \/ Current.bytes = HeaderLength
    BY <1>1 DEF SizeInv
  <2> QED
    BY <1>1, <1>3, <2>1, Roomy, RecorderAssumption
<1>7. session_bytes - Current.last.len < MaxSession + HeaderLength
  BY <1>1 DEF SizeInv, OvershootOneRecord
<1> QED
  BY <1>1, <1>2, <1>3, <1>4, <1>5, <1>6, <1>7

(* A record more: the part passes its limit by less than the record.       *)
LEMMA OneMore ==
    ASSUME RInv, pc = "read", NEW rec \in Lasts, NEW file \in Files,
           file.bytes = Current.bytes + rec.len, file.last = rec,
           file.ids \in {Current.ids, Append(Current.ids, rec.id)}
    PROVE  /\ Overshot(file, Len(parts)) /\ PastLimit(file)
           /\ session_bytes - rec.len < MaxSession + HeaderLength
           /\ session_bytes + rec.len \in Nat
<1>1. rec.len \in Nat /\ rec.id \in 0 .. MaxRecords
  BY DEF Lasts
<1>2. MaxFile \in Nat /\ MaxSession \in Nat /\ HeaderLength \in Nat
      /\ MAX_FILE_SIZE \in Nat /\ Slack \in Nat /\ inherited \in Nat /\ FileLimit \in Nat
  BY Reading, LimitsType, SynthHeaderType
<1>3. Len(file.ids) <= Len(Current.ids) + 1 /\ Len(Current.ids) \in Nat
      /\ Len(file.ids) \in Nat
  <2>1. Current.ids \in Seq(0 .. MaxRecords)
    BY Reading
  <2> QED
    BY <1>1, <2>1
<1>4. \/ Current.bytes < MaxFile
      \/ Len(parts) > 1 /\ Len(Current.ids) = 1
  BY DEF RInv, SizeInv
<1>5. Overshot(file, Len(parts))
  <2>1. Current.bytes \in Nat /\ file.bytes - file.last.len = Current.bytes
    BY <1>1, Reading
  <2>2. Len(parts) > 1 /\ Len(Current.ids) = 1 => Len(file.ids) <= 2
    BY <1>3
  <2> QED
    BY <1>4, <2>1, <2>2 DEF Overshot
<1>6. PastLimit(file)
  <2>1. Current.bytes \in Nat /\ Current.bytes <= MAX_FILE_SIZE
    BY Reading
  <2>2. file.bytes - file.last.len <= MAX_FILE_SIZE
    BY <1>1, <2>1
  <2> QED
    BY <2>2, Reading, RoomSuffices
<1>7. session_bytes < MaxSession + HeaderLength /\ session_bytes \in Nat
  BY Reading
<1> QED
  BY <1>1, <1>2, <1>5, <1>6, <1>7

LEMMA RReadRecord == RInv /\ ReadRecord => RInv'
<1> SUFFICES ASSUME RInv, ReadRecord PROVE RInv'
  OBVIOUS
<1> DEFINE rec == Head(pipe)
           file == Stored(Current, rec)
           broken == Broken(file)
           total == session_bytes + rec.len
<1>1. /\ pc = "read" /\ pipe # <<>> /\ pipe' = Tail(pipe)
      /\ UNCHANGED <<sent, closed, SHUTDOWN, prev_manifest_hash_link>> /\ UNCHANGED opts
  BY DEF ReadRecord
<1>2. rec \in Lasts /\ rec.id \in 1 .. MaxRecords /\ pipe' \in Seq(Records)
  BY <1>1, Reading, HeadRecord
<1>3. /\ Typed /\ ShapeInv /\ SizeInv /\ PlaceInv /\ ConfigAccepted
      /\ parts \in Seq(Files) /\ parts # <<>> /\ Current \in Files
      /\ Current.manifest = "none" /\ Current.stream = "open"
      /\ Overshot(Current, Len(parts)) /\ PastLimit(Current)
      /\ session_bytes - Current.last.len < MaxSession + HeaderLength
      /\ session_bytes < MaxSession + HeaderLength /\ session_bytes \in Nat
      /\ {header_info, FINALIZE_FAILED, reported} \subseteq BOOLEAN
      /\ header_info => Current.header
  BY <1>1, Reading DEF ShapeInv, InPart
<1>4. /\ file \in Files /\ file.ids = Append(Current.ids, rec.id)
      /\ file.bytes = Current.bytes + rec.len /\ file.last = rec
      /\ file.link = Current.link /\ file.stream = "open" /\ file.manifest = "none"
      /\ file.header <=> (Current.header \/ rec.kind = "header")
  BY <1>2, <1>3, StoredIs
<1>5. /\ broken \in Files /\ broken.ids = Current.ids
      /\ broken.bytes = Current.bytes + rec.len /\ broken.last = rec
      /\ broken.link = Current.link /\ broken.manifest = "none"
  BY <1>2, <1>3, BrokenIs
<1>6. \/ /\ ReturnError(Front(parts), Current)
         /\ UNCHANGED <<session_bytes, header_info, ending>>
      \/ /\ ReturnError(Front(parts), broken)
         /\ UNCHANGED <<session_bytes, header_info, ending>>
      \/ /\ ReturnError(Front(parts), file)
         /\ session_bytes' = total
         /\ UNCHANGED <<header_info, ending>>
      \/ /\ TRUE \in WriteSucceeds(OnDisk(file.bytes))
         /\ parts' = [parts EXCEPT ![Len(parts)] = file]
         /\ session_bytes' = total
         /\ header_info' = (header_info \/ rec.kind = "header")
         /\ \E stop \in Stops(rec, file, total) :
             /\ end_reason' = stop[1]
             /\ next' = stop[2]
             /\ pc' = IF stop[1] = "none" THEN "read" ELSE "finish"
         /\ UNCHANGED outcome
  BY DEF ReadRecord
<1> HIDE DEF broken
<1>7. CASE /\ ReturnError(Front(parts), Current)
           /\ UNCHANGED <<session_bytes, header_info, ending>>
  <2>1. PICK closing \in Files :
            /\ parts' = Append(Front(parts), closing)
            /\ closing.ids = Current.ids /\ closing.bytes = Current.bytes
            /\ closing.last = Current.last /\ closing.link = Current.link
            /\ closing.manifest = Current.manifest
            /\ pc' = "failed" /\ UNCHANGED reported /\ FINALIZE_FAILED' \in BOOLEAN
    BY <1>3, <1>7, ErrorIs
  <2>2. SetsLast(closing)
    BY <1>3, <2>1, ReplacesLast
  <2>3. Overshot(closing, Len(parts)) /\ PastLimit(closing)
    BY <1>3, <2>1 DEF Overshot, PastLimit
  <2>4. PlaceInv'
    BY <1>1, <1>3, <2>1, <2>2, SetsLastIs, PlacesSame, PlacesFailed
  <2> QED
    BY <1>1, <1>2, <1>3, <1>7, <2>1, <2>2, <2>3, <2>4, FailSets
<1>8. CASE /\ ReturnError(Front(parts), broken)
           /\ UNCHANGED <<session_bytes, header_info, ending>>
  <2>1. PICK closing \in Files :
            /\ parts' = Append(Front(parts), closing)
            /\ closing.ids = broken.ids /\ closing.bytes = broken.bytes
            /\ closing.last = broken.last /\ closing.link = broken.link
            /\ closing.manifest = broken.manifest
            /\ pc' = "failed" /\ UNCHANGED reported /\ FINALIZE_FAILED' \in BOOLEAN
    BY <1>3, <1>5, <1>8, ErrorIs
  <2>2. SetsLast(closing)
    BY <1>3, <2>1, ReplacesLast
  <2>3. /\ Overshot(closing, Len(parts)) /\ PastLimit(closing)
        /\ session_bytes - closing.last.len < MaxSession + HeaderLength
    BY <1>1, <1>2, <1>5, <2>1, OneMore
  <2>4. PlaceInv'
    BY <1>1, <1>3, <1>5, <2>1, <2>2, SetsLastIs, PlacesSame, PlacesFailed
  <2> QED
    BY <1>1, <1>2, <1>3, <1>5, <1>8, <2>1, <2>2, <2>3, <2>4, FailSets
<1>9. CASE /\ ReturnError(Front(parts), file)
           /\ session_bytes' = total
           /\ UNCHANGED <<header_info, ending>>
  <2>1. PICK closing \in Files :
            /\ parts' = Append(Front(parts), closing)
            /\ closing.ids = file.ids /\ closing.bytes = file.bytes
            /\ closing.last = file.last /\ closing.link = file.link
            /\ closing.manifest = file.manifest
            /\ pc' = "failed" /\ UNCHANGED reported /\ FINALIZE_FAILED' \in BOOLEAN
    BY <1>3, <1>4, <1>9, ErrorIs
  <2>2. SetsLast(closing)
    BY <1>3, <2>1, ReplacesLast
  <2>3. /\ Overshot(closing, Len(parts)) /\ PastLimit(closing)
        /\ session_bytes' - closing.last.len < MaxSession + HeaderLength
        /\ session_bytes' \in Nat
    <3>1. session_bytes' = session_bytes + rec.len
      BY <1>9
    <3> HIDE DEF file, rec, total
    <3>2. closing.last = rec /\ closing.bytes = Current.bytes + rec.len
          /\ closing.ids = Append(Current.ids, rec.id)
      BY <1>4, <2>1
    <3>3. Overshot(closing, Len(parts)) /\ PastLimit(closing)
      BY <1>1, <1>2, <3>2, OneMore
    <3>4. rec.len \in Nat
      BY <1>2 DEF Lasts
    <3>5. session_bytes' - rec.len = session_bytes /\ session_bytes' \in Nat
      BY <1>3, <3>1, <3>4
    <3> QED
      BY <1>3, <3>2, <3>3, <3>5
  <2>4. PlaceInv'
    BY <1>1, <1>3, <1>4, <2>1, <2>2, PlacesRead
  <2> HIDE DEF file, total
  <2> QED
    BY <1>1, <1>2, <1>3, <1>4, <1>9, <2>1, <2>2, <2>3, <2>4, FailSets
<1>10. CASE /\ TRUE \in WriteSucceeds(OnDisk(file.bytes))
            /\ parts' = [parts EXCEPT ![Len(parts)] = file]
            /\ session_bytes' = total
            /\ header_info' = (header_info \/ rec.kind = "header")
            /\ \E stop \in Stops(rec, file, total) :
                /\ end_reason' = stop[1]
                /\ next' = stop[2]
                /\ pc' = IF stop[1] = "none" THEN "read" ELSE "finish"
            /\ UNCHANGED outcome
  <2>1. SetsLast(file) /\ OnDisk(file.bytes) <= FileLimit
    BY <1>3, <1>10, WritesFit DEF SetsLast
  <2>2. /\ Overshot(file, Len(parts)) /\ PastLimit(file)
        /\ session_bytes' - file.last.len < MaxSession + HeaderLength
        /\ session_bytes' \in Nat
    <3>1. session_bytes' = session_bytes + rec.len
      BY <1>10
    <3> HIDE DEF file, rec, total
    <3>2. Overshot(file, Len(parts)) /\ PastLimit(file)
      BY <1>1, <1>2, <1>4, OneMore
    <3>3. rec.len \in Nat
      BY <1>2 DEF Lasts
    <3>4. session_bytes' - rec.len = session_bytes /\ session_bytes' \in Nat
      BY <1>3, <3>1, <3>3
    <3> QED
      BY <1>3, <1>4, <3>2, <3>4
  <2>3. PICK stop \in Stops(rec, file, total) :
            /\ end_reason' = stop[1]
            /\ next' = stop[2]
            /\ pc' = IF stop[1] = "none" THEN "read" ELSE "finish"
    BY <1>10
  <2>4. /\ end_reason' \in EndReasons /\ next' \in PartNexts
        /\ end_reason' = "none" =>
            /\ ~(total >= MaxSession) /\ ~(file.bytes >= MaxFile)
            /\ next' = "EndOfStream"
        /\ end_reason' = "eof" => rec.kind = "end"
        /\ next' = "Rotated" =>
            ~(total >= MaxSession) /\ file.bytes >= MaxFile /\ end_reason' = "rotated"
        /\ end_reason' = "rotated" => next' = "Rotated"
    BY <2>3, StopsIs
  <2>5. /\ pc' \in {"read", "finish"} /\ (pc' = "read" => end_reason' = "none")
        /\ UNCHANGED <<FINALIZE_FAILED, reported>> /\ header_info' \in BOOLEAN
        /\ session_bytes' = total /\ (header_info' => file.header)
    BY <1>3, <1>4, <1>10, <2>3 DEF outcome
  <2>6. /\ parts' \in Seq(Files) /\ parts' # <<>> /\ Len(parts') = Len(parts)
        /\ DOMAIN parts' = DOMAIN parts /\ Current' = file
        /\ \A i \in DOMAIN parts : i # Len(parts) => parts'[i] = parts[i]
        /\ parts'[Len(parts)] = file
    BY <1>3, <1>4, <2>1, SetsLastIs
  <2>7. /\ MaxFile' = MaxFile /\ MaxSession' = MaxSession /\ FileLimit' = FileLimit
        /\ ConfigAccepted' /\ encrypt' = encrypt
    BY <1>1, <1>3, SameOptions
  <2> HIDE DEF file, total, rec
  <2>8. Typed'
    <3>1. /\ prev_manifest_hash_link' \in {None} \cup 0 .. Len(parts') - 1
          /\ pc' \in Modes
      BY <1>1, <1>3, <2>5, <2>6 DEF Typed, TypeOK, Modes
    <3>2. {header_info', FINALIZE_FAILED', reported'} \subseteq BOOLEAN
      BY <1>3, <2>5
    <3> QED
      BY <1>1, <1>2, <1>3, <2>2, <2>4, <2>6, <3>1, <3>2, TypedNext
  <2>9. ShapeInv'
    <3>1. Chained'
      BY <1>1, <1>3, <1>4, <2>1, ChainedSets
    <3> QED
      BY <1>4, <2>4, <2>5, <2>6, <2>7, <3>1 DEF ShapeInv, Chained, InPart
  <2>10. SizeInv'
    <3>1. Sized'
      BY <1>1, <1>3, <1>4, <2>1, <2>2, SizedSets
    <3>2. OnDisk(Current.bytes)' <= FileLimit'
      BY <2>1, <2>6, <2>7 DEF OnDisk
    <3>3. pc' = "read" => Current'.bytes < MaxFile' /\ session_bytes' < MaxSession' + HeaderLength
      <4>1. file.bytes \in Nat /\ MaxFile \in Nat /\ MaxSession \in Nat /\ HeaderLength \in Nat
            /\ total \in Nat
        BY <1>3, <1>4, <2>2, <2>5, LimitsType, SynthHeaderType DEF Files
      <4> QED
        BY <2>4, <2>5, <2>6, <2>7, <4>1
    <3>4. next' = "Rotated" => session_bytes' < MaxSession'
      BY <1>3, <2>2, <2>4, <2>5, <2>7, LimitsType
    <3> QED
      BY <2>5, <3>1, <3>2, <3>3, <3>4 DEF SizeInv, Sized, InPart
  <2>11. PlaceInv'
    BY <1>1, <1>3, <1>4, <2>1, PlacesRead DEF rec
  <2>12. EofInv'
    <3>1. EofIsComplete'
      BY <1>3, <1>4, <2>1, EofSets
    <3> QED
      BY <1>4, <2>4, <2>6, <3>1 DEF EofInv
  <2> QED
    BY <2>8, <2>9, <2>10, <2>11, <2>12 DEF RInv
<1> QED
  BY <1>6, <1>7, <1>8, <1>9, <1>10

LEMMA RFinish == RInv /\ Finish => RInv'
<1> SUFFICES ASSUME RInv, Finish PROVE RInv'
  OBVIOUS
<1>1. PICK fits \in WriteSucceeds(FullSize(Current.bytes)), synced \in {TRUE, ~IoErrors} :
          /\ parts' = [parts EXCEPT ![Len(parts)] = Finished(Current, fits)]
          /\ pc' = IF Finished(Current, fits).stream # "broken" /\ header_info /\ synced
                   THEN "sign" ELSE "failed"
  BY DEF Finish
<1> DEFINE file == Finished(Current, fits)
<1>2. /\ pc = "finish"
      /\ UNCHANGED <<pipe, sent, closed, SHUTDOWN, session_bytes, header_info,
                     end_reason, next, prev_manifest_hash_link, FINALIZE_FAILED, reported>>
      /\ UNCHANGED opts /\ UNCHANGED ending
  BY DEF Finish, env, ending, outcome
<1>3. /\ Typed /\ ShapeInv /\ SizeInv /\ PlaceInv /\ EofInv
      /\ parts \in Seq(Files) /\ parts # <<>> /\ ConfigAccepted
      /\ Current.manifest = "none" /\ Current.stream = "open"
      /\ session_bytes \in Nat /\ pipe \in Seq(Records)
      /\ {header_info, FINALIZE_FAILED, reported} \subseteq BOOLEAN
  BY <1>2 DEF RInv, Typed, TypeOK, ShapeInv, InPart
<1>4. Current \in Files /\ Len(parts) \in DOMAIN parts
  BY <1>3, CurrentType
<1>5. /\ file \in Files
      /\ file.ids = Current.ids /\ file.bytes = Current.bytes
      /\ file.last = Current.last /\ file.link = Current.link /\ file.manifest = "none"
      /\ file.header = Current.header
      /\ file.stream # "broken" => file.stream = Good
  BY <1>3, <1>4, FinishedIs
<1>6. /\ SetsLast(file)
      /\ pc' = "failed" \/ (pc' = "sign" /\ file.stream = Good /\ header_info)
  BY <1>1, <1>3, <1>5 DEF SetsLast
<1>6a. file.stream # "broken" => FullSize(file.bytes) <= FileLimit
  <2>1. ASSUME ~encrypt PROVE FullSize(file.bytes) <= FileLimit
    <3>1. FullSize(file.bytes) = OnDisk(Current.bytes)
      BY <1>5, <2>1 DEF FullSize, OnDisk
    <3> QED
      BY <1>2, <1>3, <3>1 DEF SizeInv
  <2>2. ASSUME encrypt, file.stream # "broken" PROVE FullSize(file.bytes) <= FileLimit
    <3>1. fits = TRUE
      BY <1>1, <2>2 DEF Finished, WriteSucceeds, Fits
    <3> QED
      BY <1>1, <1>5, <3>1, WritesFit
  <2> QED
    BY <2>1, <2>2
<1> HIDE DEF file
<1>7. /\ Overshot(file, Len(parts)) /\ PastLimit(file)
      /\ session_bytes' - file.last.len < MaxSession + HeaderLength
  BY <1>2, <1>3, <1>4, <1>5 DEF SizeInv, OvershootOneRecord, LimitNeedsLongRecord, Overshot,
     PastLimit, Current
<1>8. /\ parts' \in Seq(Files) /\ parts' # <<>> /\ Len(parts') = Len(parts)
      /\ DOMAIN parts' = DOMAIN parts /\ Current' = file
      /\ \A i \in DOMAIN parts : i # Len(parts) => parts'[i] = parts[i]
      /\ parts'[Len(parts)] = file /\ parts[Len(parts)] = Current
  BY <1>3, <1>5, <1>6, SetsLastIs
<1>9. Kept' = Kept /\ (InOrder => InOrder')
  BY <1>5, <1>8, PlacesSame
<1>10. CASE pc' = "failed"
  <2>1. PlaceInv'
    BY <1>2, <1>3, <1>9, <1>10, PlacesFailed
  <2> QED
    BY <1>2, <1>3, <1>5, <1>6, <1>7, <1>10, <2>1, FailSets
<1>11. CASE pc' = "sign" /\ file.stream = Good /\ header_info
  <2>1. /\ MaxFile' = MaxFile /\ MaxSession' = MaxSession /\ FileLimit' = FileLimit
        /\ ConfigAccepted' /\ encrypt' = encrypt /\ Good' = Good
    BY <1>2, <1>3, SameOptions
  <2>2. Typed'
    <3>1. /\ end_reason' \in EndReasons /\ next' \in PartNexts
          /\ prev_manifest_hash_link' \in {None} \cup 0 .. Len(parts') - 1
          /\ pc' \in Modes
      BY <1>2, <1>3, <1>8, <1>11
         DEF Typed, TypeOK, EndReasons, Reasons, PartNexts, Modes
    <3> QED
      BY <1>2, <1>3, <1>8, <3>1, TypedNext
  <2>3. ShapeInv'
    <3>1. Chained'
      BY <1>2, <1>3, <1>5, <1>6, ChainedSets
    <3> QED
      BY <1>2, <1>3, <1>5, <1>8, <1>11, <2>1, <3>1 DEF ShapeInv, Chained, InPart
  <2>4. SizeInv'
    <3>1. Sized'
      BY <1>2, <1>3, <1>5, <1>6, <1>7, SizedSets
    <3>2. FullSize(Current.bytes)' <= FileLimit'
      BY <1>6a, <1>8, <1>11, <2>1 DEF FullSize, Good
    <3> QED
      BY <1>2, <1>3, <1>11, <2>1, <3>1, <3>2 DEF SizeInv, Sized, InPart
  <2>5. PlaceInv'
    BY <1>2, <1>3, <1>9, <1>11 DEF PlaceInv, NoRecordLost
  <2>6. EofInv'
    <3>1. EofIsComplete'
      BY <1>3, <1>5, <1>6, EofSets
    <3> QED
      BY <1>2, <1>3, <1>5, <1>8, <3>1 DEF EofInv
  <2> QED
    BY <2>2, <2>3, <2>4, <2>5, <2>6 DEF RInv
<1> QED
  BY <1>6, <1>10, <1>11

LEMMA RSignPart == RInv /\ SignPart => RInv'
<1> SUFFICES ASSUME RInv, SignPart PROVE RInv'
  OBVIOUS
<1>1. PICK signed \in {signing_key, signing_key /\ ~IoErrors} :
          /\ parts' = [parts EXCEPT ![Len(parts)].manifest =
                          IF signed THEN end_reason ELSE "none"]
          /\ prev_manifest_hash_link' = LinkAfter(signed)
  BY DEF SignPart
<1> DEFINE mark == IF signed THEN end_reason ELSE "none"
           file == [Current EXCEPT !.manifest = mark]
<1>2. /\ pc = "sign"
      /\ UNCHANGED <<pipe, sent, closed, SHUTDOWN, session_bytes, header_info,
                     FINALIZE_FAILED>>
      /\ UNCHANGED opts
      /\ reported' = (pc' # "open" /\ FINALIZE_FAILED)
  BY DEF SignPart, env
<1>3. \/ next = "Rotated" /\ pc' = "open" /\ next' = "EndOfStream" /\ end_reason' = "none"
      \/ /\ next # "Rotated" /\ pc' \in {"ok", "failed"}
         /\ UNCHANGED <<next, end_reason>>
  <2>1. next \in {"EndOfStream", "Rotated", "SessionSizeLimit"}
    BY DEF RInv, Typed, TypeOK
  <2>2. CASE next = "Rotated"
    BY <2>2 DEF SignPart
  <2>3. CASE next = "EndOfStream"
    BY <2>3 DEF SignPart
  <2>4. CASE next = "SessionSizeLimit"
    BY <2>4 DEF SignPart
  <2> QED
    BY <2>1, <2>2, <2>3, <2>4
<1>4. /\ Typed /\ ShapeInv /\ SizeInv /\ PlaceInv /\ EofInv
      /\ parts \in Seq(Files) /\ parts # <<>> /\ ConfigAccepted
      /\ Signable(Current)
      /\ session_bytes \in Nat /\ pipe \in Seq(Records) /\ end_reason \in EndReasons
      /\ {header_info, FINALIZE_FAILED, reported} \subseteq BOOLEAN
  BY <1>2 DEF RInv, Typed, TypeOK, ShapeInv, InPart, EndReasons, Reasons, Signable
<1>5. Current \in Files /\ Len(parts) \in DOMAIN parts /\ Len(parts) \in Nat \ {0}
  BY <1>4, CurrentType
<1>6. /\ file \in Files
      /\ file.ids = Current.ids /\ file.bytes = Current.bytes
      /\ file.last = Current.last /\ file.link = Current.link
      /\ Signable(file) /\ file.manifest = mark
  <2>1. mark \in {"none"} \cup Reasons
    BY <1>4 DEF EndReasons
  <2> HIDE DEF mark
  <2> QED
    BY <1>4, <1>5, <2>1 DEF Files, Signable
<1>7. SetsLast(file)
  BY <1>1, <1>4, <1>5 DEF SetsLast, Current
<1> HIDE DEF file
<1>8. mark \in {"none", end_reason}
  OBVIOUS
<1>9. /\ parts' \in Seq(Files) /\ parts' # <<>> /\ Len(parts') = Len(parts)
      /\ DOMAIN parts' = DOMAIN parts /\ Current' = file
      /\ \A i \in DOMAIN parts : i # Len(parts) => parts'[i] = parts[i]
      /\ parts'[Len(parts)] = file /\ parts[Len(parts)] = Current
  BY <1>4, <1>6, <1>7, SetsLastIs
<1>10. Kept' = Kept /\ (InOrder => InOrder')
  BY <1>6, <1>9, PlacesSame
<1>11. /\ MaxFile' = MaxFile /\ MaxSession' = MaxSession /\ FileLimit' = FileLimit
       /\ ConfigAccepted' /\ encrypt' = encrypt /\ Good' = Good
  BY <1>2, <1>4, SameOptions
<1>12. next = "Rotated" =>
          /\ end_reason = "rotated" /\ Current.bytes >= MaxFile
          /\ prev_manifest_hash_link' = LinkTo(file, Len(parts))
  <2>1. next = "Rotated" => end_reason = "rotated" /\ Current.bytes >= MaxFile
    BY <1>2, <1>4 DEF ShapeInv
  <2>2. ASSUME next = "Rotated" PROVE prev_manifest_hash_link' = LinkTo(file, Len(parts))
    BY <1>1, <1>6, <2>1, <2>2 DEF LinkAfter, LinkTo, part_num
  <2> QED
    BY <2>1, <2>2
<1>13. Typed'
  <2>1. prev_manifest_hash_link' \in {None} \cup 0 .. Len(parts') - 1
    BY <1>1, <1>4, <1>5, <1>9 DEF LinkAfter, part_num, Typed, TypeOK
  <2>2. /\ end_reason' \in EndReasons /\ next' \in PartNexts /\ pc' \in Modes
    BY <1>3, <1>4 DEF Typed, TypeOK, EndReasons, PartNexts, Modes, Stopped
  <2>3. {header_info', FINALIZE_FAILED', reported'} \subseteq BOOLEAN
    <3>1. reported' \in BOOLEAN
      BY <1>2
    <3> QED
      BY <1>2, <1>4, <3>1
  <2> QED
    BY <1>2, <1>4, <1>9, <2>1, <2>2, <2>3, TypedNext
<1>14. Chained'
  BY <1>2, <1>4, <1>6, <1>7, ChainedSets
<1>15. ShapeInv'
  <2>1. CASE next = "Rotated" /\ pc' = "open" /\ next' = "EndOfStream"
    <3>1. Rotatable(Current)'
      BY <1>6, <1>8, <1>9, <1>11, <1>12, <2>1 DEF Rotatable, Signable
    <3>2. \A i \in DOMAIN parts' : Rotatable(parts[i])'
      <4> SUFFICES ASSUME NEW i \in DOMAIN parts' PROVE Rotatable(parts[i])'
        OBVIOUS
      <4>1. i < Len(parts') \/ i = Len(parts')
        BY <1>9
      <4> QED
        BY <1>14, <3>1, <4>1 DEF Chained, Current
    <3>3. prev_manifest_hash_link' = LinkTo(Current', Len(parts'))
      BY <1>9, <1>12, <2>1
    <3> QED
      BY <1>9, <1>11, <1>14, <2>1, <3>2, <3>3 DEF ShapeInv, Chained, InPart, LinkTo
  <2>2. CASE next # "Rotated" /\ pc' \in {"ok", "failed"}
    BY <1>11, <1>14, <2>2 DEF ShapeInv, Chained, InPart
  <2> QED
    BY <1>3, <2>1, <2>2
<1>16. SizeInv'
  <2>1. Overshot(file, Len(parts)) /\ PastLimit(file)
        /\ session_bytes' - file.last.len < MaxSession + HeaderLength
    BY <1>2, <1>4, <1>5, <1>6 DEF SizeInv, OvershootOneRecord, LimitNeedsLongRecord,
       Overshot, PastLimit, Current
  <2>3. FullSize(file.bytes) <= FileLimit
    BY <1>2, <1>4, <1>6 DEF SizeInv
  <2>4. Sized'
    BY <1>2, <1>4, <1>6, <1>7, <2>1, <2>3, SizedSets
  <2>6. next = "Rotated" => session_bytes' < MaxSession'
    BY <1>2, <1>4, <1>11 DEF SizeInv, InPart
  <2> QED
    BY <1>3, <2>4, <2>6 DEF SizeInv, Sized, InPart
<1>17. PlaceInv'
  BY <1>2, <1>3, <1>4, <1>10 DEF PlaceInv, NoRecordLost
<1>18. EofInv'
  <2>1. ASSUME file.manifest = "eof"
        PROVE  (closed' /\ Kept' = 1 .. sent') \/ file.last.kind = "end"
    <3>1. end_reason = "eof"
      BY <1>6, <1>8, <2>1
    <3>2. (closed /\ pipe = <<>>) \/ Current.last.kind = "end"
      BY <1>2, <1>4, <3>1 DEF EofInv
    <3>3. pipe = <<>> => Kept = 1 .. sent
      BY <1>2, <1>4 DEF PlaceInv, NoRecordLost, Typed, TypeOK
    <3> QED
      BY <1>2, <1>6, <1>10, <3>2, <3>3
  <2>2. EofIsComplete'
    BY <1>4, <1>6, <1>7, <2>1, EofSets
  <2> QED
    BY <1>3, <2>2 DEF EofInv
<1> QED
  BY <1>13, <1>15, <1>16, <1>17, <1>18 DEF RInv
-----------------------------------------------------------------------------
(* The theorems ************************************************************)

LEMMA RNext == RInv /\ [Next]_vars => RInv'
<1> SUFFICES ASSUME RInv, [Next]_vars PROVE RInv'
  OBVIOUS
<1>1. CASE ProxyWrites
  BY <1>1, RProxyWrites
<1>2. CASE ProxyCloses
  BY <1>2, RProxyCloses
<1>3. CASE Signal
  BY <1>3, RSignal
<1>4. CASE Kill
  BY <1>4, RKill
<1>5. CASE Process
  BY <1>5, RStart, ROpenFails, RSetupFails, ROpenFirst, ROpenNext, RReadRecord,
     RReadEof, RFinish, RSignPart DEF Process
<1>6. CASE Ended \/ UNCHANGED vars
  BY <1>6, RUnchanged DEF Ended
<1> QED
  BY <1>1, <1>2, <1>3, <1>4, <1>5, <1>6 DEF Next

(* The inductive invariant holds in every reachable state of a recorder:   *)
(* the loop of run() and of run_part_loop keeps its files, its counters    *)
(* and the pipe in step.                                                   *)
THEOREM RecorderInvariance == Spec => []RInv
<1>1. Init => RInv
  BY RInit
<1>2. RInv /\ [Next]_vars => RInv'
  BY RNext
<1> QED
  BY <1>1, <1>2, PTL DEF Spec

(* Every variable of the recorder keeps its type.                          *)
THEOREM RecorderTypeCorrect == Spec => []TypeOK
<1>1. RInv => TypeOK
  BY DEF RInv, Typed
<1> QED
  BY <1>1, RecorderInvariance, PTL

(* The files hold a prefix of what the proxy wrote, in order and once; a   *)
(* session that goes on or ends well has lost none of it, however its      *)
(* parts rotate and wherever a signal or a limit stops it.                 *)
THEOREM NoRecordEverLost == Spec => []NoRecordLost
<1>1. RInv => NoRecordLost
  BY DEF RInv, PlaceInv
<1> QED
  BY <1>1, RecorderInvariance, PTL

(* A signed "eof" is the end of the stream, or of what the proxy says is   *)
(* its end: a signal, a limit or an error never passes for one.            *)
THEOREM EofAlwaysComplete == Spec => []EofIsComplete
<1>1. RInv => EofIsComplete
  BY DEF RInv, EofInv
<1> QED
  BY <1>1, RecorderInvariance, PTL

(* What is signed holds a header and was finished under the size limit of  *)
(* the process.                                                            *)
THEOREM SignedAlwaysFinal == Spec => []SignedIsFinal
<1>1. RInv => SignedIsFinal
  <2> SUFFICES ASSUME RInv, NEW i \in DOMAIN parts, parts[i].manifest # "none"
               PROVE  Signable(parts[i]) /\ FullSize(parts[i].bytes) <= FileLimit
    BY DEF SignedIsFinal, Signable, Good
  <2> QED
    BY DEF RInv, ShapeInv, SizeInv
<1> QED
  BY <1>1, RecorderInvariance, PTL

(* Parts follow each other by rotation only, and a header names the part   *)
(* before it exactly when that one has a manifest.                         *)
THEOREM PartsAlwaysFollow == Spec => []PartsFollow
<1>1. RInv => PartsFollow
  <2> SUFFICES ASSUME RInv, NEW i \in 2 .. Len(parts)
               PROVE  /\ Rotatable(parts[i - 1])
                      /\ parts[i].link = LinkTo(parts[i - 1], i - 1)
    BY DEF PartsFollow, Rotatable, Good, LinkTo
  <2>1. i - 1 \in DOMAIN parts /\ i - 1 < Len(parts)
    BY DEF RInv, Typed
  <2> QED
    BY <2>1 DEF RInv, ShapeInv
<1> QED
  BY <1>1, RecorderInvariance, PTL

(* A part is past its limit by less than its last record, and a session by *)
(* less than that and one header.                                          *)
THEOREM OvershootAlwaysBounded == Spec => []OvershootOneRecord
<1>1. RInv => OvershootOneRecord
  BY DEF RInv, SizeInv
<1> QED
  BY <1>1, RecorderInvariance, PTL

(* With the limit the process wants, whatever age adds to a part, no       *)
(* accepted config takes one past it, but for a record longer than what    *)
(* age's header and tags leave of the slack.                               *)
THEOREM LimitAlwaysNeedsLongRecord == Spec => []LimitNeedsLongRecord
<1>1. RInv => LimitNeedsLongRecord
  BY DEF RInv, SizeInv
<1> QED
  BY <1>1, RecorderInvariance, PTL
=============================================================================
