------------------------------ MODULE Recorder ------------------------------
(***************************************************************************)
(* One recorder process: the loop of run() over the parts of a session,    *)
(* from the bytes the proxy writes on its stdin to files of limited size,  *)
(* each encrypted, finalized and signed.  Around it: the proxy, which      *)
(* writes records and closes the pipe when it likes, and SIGTERM.          *)
(*                                                                         *)
(* A record is its kind, its length and its place in the stream.  Lengths  *)
(* are in units; Chunk units make one block of age's STREAM encryption.    *)
(* What the chain does with a part is in Chain; here it signs, or not.     *)
(***************************************************************************)
EXTENDS Integers, Sequences, SequencesExt

CONSTANTS
    MaxRecords,     \* bound: how many records the proxy writes
    Lengths,        \* the lengths a record may have
    HeaderLength,   \* ... and the one of them of a record that holds no data
    Configs,        \* the [storage] sections a config file may hold
    MAX_FILE_SIZE,  \* the most max_file_bytes may be, 512 MiB
    MIN_PART_BYTES, \* and the least, 1 MiB
    Slack,          \* what RLIMIT_FSIZE leaves above MAX_FILE_SIZE, 1 MiB
    Inherited,      \* hard limits for RLIMIT_FSIZE the caller may pass down
    Chunk,          \* block size of the age stream, 64 KiB
    Tag,            \* what age adds to a block, 16 bytes
    AgeHeader,      \* ... and puts before the first one: header and nonce
    IoErrors        \* whether disk and setup calls may fail

ASSUME RecorderAssumption ==
    /\ MaxRecords \in Nat
    /\ Lengths \subseteq Nat \ {0}
    /\ HeaderLength \in Lengths
    /\ HeaderLength <= MAX_FILE_SIZE        \* a line is 16 MiB at most
    /\ Configs \subseteq [max_file_bytes : Nat, max_session_bytes : Nat]
    /\ {MAX_FILE_SIZE, Slack} \subseteq Nat
    /\ MIN_PART_BYTES \in Nat \ {0}
    /\ Inherited \subseteq Nat
    /\ Chunk \in Nat \ {0}
    /\ {Tag, AgeHeader} \subseteq Nat
    /\ IoErrors \in BOOLEAN

VARIABLES
    \* the environment
    pipe,           \* records written to stdin and not read yet
    sent,           \* how many records the proxy wrote
    closed,         \* the proxy closed its end
    SHUTDOWN,       \* the flag the handler of SIGTERM and SIGINT sets
    \* the process
    pc,             \* "start", "open", "read", "finish", "sign", or how it
                    \* ended
    session_bytes,
    header_info,    \* whether this part has its header
    end_reason,     \* why the part ended; "none" while it has not
    next,           \* PartNext: what run() does after the part
    prev_manifest_hash_link,    \* the part whose hash it holds, or None
    FINALIZE_FAILED,
    reported,       \* the LOG_CRIT line about a failed finalize was written
    \* the disk
    parts,          \* the files of this session, part 0 first
    \* fixed at start
    storage,        \* the [storage] section of the config
    inherited,      \* the hard limit the caller passed down
    encrypt,        \* --recipient-file rather than --no-encrypt
    signing_key     \* the signing key could be loaded

env == <<pipe, sent, closed, SHUTDOWN>>
opts == <<storage, inherited, encrypt, signing_key>>
outcome == <<FINALIZE_FAILED, reported>>
ending == <<end_reason, next>>
vars == <<env, pc, session_bytes, header_info, ending,
          prev_manifest_hash_link, outcome, parts, opts>>

None == -1
Synthetic == 0          \* the place of a header the recorder made itself

Kinds == {"header", "data", "end", "bad"}
Records == [kind : Kinds, len : Lengths, id : 1 .. MaxRecords]

NoRecord == [kind |-> "none", len |-> 0, id |-> Synthetic]
SynthHeader == [kind |-> "header", len |-> HeaderLength, id |-> Synthetic]

(* The reasons an end record gives: "eof" when it names none, or its own.  *)
ProxyReasons == {"eof", "exit"}

(* A file: the places of the records in it, the plaintext length of them,  *)
(* the last of them, whether there is a header among them, the predecessor *)
(* it names, what became of the stream, and the end_reason of its signed   *)
(* manifest, if it has one.                                                *)
NewFile(link) ==
    [ids |-> <<>>, bytes |-> 0, last |-> NoRecord, header |-> FALSE,
     link |-> link, stream |-> "open", manifest |-> "none"]

Current == parts[Len(parts)]

(* Bug: parts counted from 1.                                              *)
PartNumFromOne == Len(parts)

part_num == Len(parts) - 1
Stopped == {"ok", "failed", "killed"}

(* External: the blocks of age's stream that something follows.            *)
Sealed(n) == IF n = 0 THEN 0 ELSE (n - 1) \div Chunk

(* External: the size of a file that n bytes were written to.  age keeps   *)
(* the last block back, and an unencrypted file gets every byte at once.   *)
OnDisk(n) ==
    IF encrypt THEN AgeHeader + (Chunk + Tag) * Sealed(n) ELSE n

(* External: ... and its size after finish(), which writes the last block. *)
FullSize(n) ==
    IF encrypt THEN AgeHeader + n + Tag * (Sealed(n) + 1) ELSE n

(* reset_resource_limits: an unprivileged process cannot raise what it     *)
(* inherited.                                                              *)
FileLimit ==
    IF inherited < MAX_FILE_SIZE + Slack THEN inherited ELSE MAX_FILE_SIZE + Slack

MaxFile == storage.max_file_bytes
MaxSession == storage.max_session_bytes

(* Bug: max_file_bytes is not compared with the limit pinned before.       *)
ConfigUnlimited ==
    /\ MaxFile >= MIN_PART_BYTES
    /\ MaxSession >= MaxFile

(* The [storage] sections run() accepts.                                   *)
ConfigAccepted ==
    /\ MaxFile <= MAX_FILE_SIZE
    /\ MaxFile >= MIN_PART_BYTES
    /\ MaxSession >= MaxFile

(* External: RLIMIT_FSIZE with SIGXFSZ ignored; the write that crosses the *)
(* limit stops short with EFBIG.                                           *)
Fits(n) == n <= FileLimit

(* Any write may also fail for want of space.                              *)
WriteSucceeds(n) == IF IoErrors THEN {Fits(n), FALSE} ELSE {Fits(n)}

(* Bug: the flag is looked at before the record just read is written.      *)
StoredUnlessShutdown(file, rec) ==
    IF SHUTDOWN THEN file
    ELSE [file EXCEPT !.ids = Append(@, rec.id), !.bytes = @ + rec.len,
                      !.last = rec, !.header = @ \/ rec.kind = "header"]

(* write_all of a record, and its length added to the counters.            *)
Stored(file, rec) ==
    [file EXCEPT !.ids = Append(@, rec.id), !.bytes = @ + rec.len,
                 !.last = rec, !.header = @ \/ rec.kind = "header"]

(* A write that fails: what is on disk ends in half a block, which nothing *)
(* decrypts, and the record is not in it.                                  *)
Broken(file) == [file EXCEPT !.ids = Front(@), !.stream = "broken"]

(* What finish() makes of a file: its last block is written out.           *)
Finished(file, fits) ==
    [file EXCEPT !.stream =
        IF ~encrypt THEN "plain"
        ELSE IF fits /\ @ = "open" THEN "final" ELSE "broken"]
-----------------------------------------------------------------------------
Init ==
    /\ pipe = <<>>
    /\ sent = 0
    /\ closed = FALSE
    /\ SHUTDOWN = FALSE
    /\ pc = "start"
    /\ session_bytes = 0
    /\ header_info = FALSE
    /\ end_reason = "none"
    /\ next = "EndOfStream"
    /\ prev_manifest_hash_link = None
    /\ FINALIZE_FAILED = FALSE
    /\ reported = FALSE
    /\ parts = <<>>
    /\ storage \in Configs
    /\ inherited \in Inherited
    /\ encrypt \in BOOLEAN
    /\ signing_key \in BOOLEAN

(* The environment *********************************************************)

ProxyWrites ==
    /\ ~closed /\ sent < MaxRecords
    /\ \E k \in Kinds, n \in Lengths :
        /\ k # "data" => n = HeaderLength
        /\ pipe' = Append(pipe, [kind |-> k, len |-> n, id |-> sent + 1])
    /\ sent' = sent + 1
    /\ UNCHANGED <<closed, SHUTDOWN, pc, session_bytes, header_info, ending,
                   prev_manifest_hash_link, outcome, parts, opts>>

ProxyCloses ==
    /\ ~closed
    /\ closed' = TRUE
    /\ UNCHANGED <<pipe, sent, SHUTDOWN, pc, session_bytes, header_info,
                   ending, prev_manifest_hash_link, outcome, parts, opts>>

(* handle_signal; SA_RESTART, so a read that blocks goes on blocking.      *)
Signal ==
    /\ ~SHUTDOWN /\ pc \notin Stopped
    /\ SHUTDOWN' = TRUE
    /\ UNCHANGED <<pipe, sent, closed, pc, session_bytes, header_info,
                   ending, prev_manifest_hash_link, outcome, parts, opts>>

(* SIGKILL, the OOM killer.                                                *)
Kill ==
    /\ IoErrors
    /\ pc \notin Stopped
    /\ pc' = "killed"
    /\ UNCHANGED <<env, session_bytes, header_info, ending,
                   prev_manifest_hash_link, outcome, parts, opts>>

(* The process *************************************************************)

(* The ? that leaves process_part drops the finalizer, which tries to      *)
(* finish the file; run() returns the error, past the check of             *)
(* FINALIZE_FAILED.                                                        *)
ReturnError(done, file) ==
    \E fits \in WriteSucceeds(FullSize(file.bytes)) :
        /\ parts' = Append(done, Finished(file, fits))
        /\ FINALIZE_FAILED' = (encrypt /\ ~fits)
        /\ pc' = "failed"
        /\ UNCHANGED reported

(* The start of run(), which stops on a config it does not accept, and on  *)
(* failing setup calls.                                                    *)
Start ==
    /\ pc = "start"
    /\ \E ok \in {ConfigAccepted, ConfigAccepted /\ ~IoErrors} :
        pc' = IF ok THEN "open" ELSE "failed"
    /\ UNCHANGED <<env, session_bytes, header_info, ending,
                   prev_manifest_hash_link, outcome, parts, opts>>

(* openat(O_CREAT | O_EXCL) fails; there is no file.                       *)
OpenFails ==
    /\ pc = "open" /\ IoErrors
    /\ pc' = "failed"
    /\ UNCHANGED <<env, session_bytes, header_info, ending,
                   prev_manifest_hash_link, outcome, parts, opts>>

(* The recipients are read, the plugins started and age's header written   *)
(* for every part anew; a failure there leaves a file without a stream,    *)
(* and ends the session.                                                   *)
SetupFails ==
    /\ pc = "open" /\ encrypt
    /\ FALSE \in WriteSucceeds(OnDisk(0))
    /\ parts' = Append(parts, NewFile(prev_manifest_hash_link))
    /\ pc' = "failed"
    /\ UNCHANGED <<env, session_bytes, header_info, ending,
                   prev_manifest_hash_link, outcome, opts>>

(* Part 0 begins with what the proxy sends.                                *)
OpenFirst ==
    /\ pc = "open" /\ parts = <<>>
    /\ TRUE \in WriteSucceeds(OnDisk(0))
    /\ parts' = Append(parts, NewFile(prev_manifest_hash_link))
    /\ header_info' = FALSE
    /\ pc' = "read"
    /\ UNCHANGED <<env, session_bytes, ending, prev_manifest_hash_link,
                   outcome, opts>>

(* Later parts begin with part 0's header and the hash of the part before. *)
OpenNext ==
    /\ pc = "open" /\ parts # <<>>
    /\ TRUE \in WriteSucceeds(OnDisk(0))
    /\ LET file == Stored(NewFile(prev_manifest_hash_link), SynthHeader)
       IN  \/ /\ TRUE \in WriteSucceeds(OnDisk(HeaderLength))
              /\ parts' = Append(parts, file)
              /\ session_bytes' = session_bytes + HeaderLength
              /\ header_info' = TRUE
              /\ pc' = "read"
              /\ UNCHANGED outcome
           \/ /\ FALSE \in WriteSucceeds(OnDisk(HeaderLength))
              /\ ReturnError(parts, Broken(file))
              /\ UNCHANGED <<session_bytes, header_info>>
    /\ UNCHANGED <<env, ending, prev_manifest_hash_link, opts>>

(* Bug: the limits are passed, not reached, when the loop stops.           *)
StopsPast(rec, file, total) ==
    IF rec.kind = "end" THEN ProxyReasons \X {"EndOfStream"}
    ELSE IF SHUTDOWN THEN {<<"signal", "EndOfStream">>}
    ELSE IF total > MaxSession THEN {<<"session_size_limit", "SessionSizeLimit">>}
    ELSE IF file.bytes > MaxFile THEN {<<"rotated", "Rotated">>}
    ELSE {<<"none", "EndOfStream">>}

(* Bug: nothing looks at SHUTDOWN.                                         *)
StopsDeaf(rec, file, total) ==
    IF rec.kind = "end" THEN ProxyReasons \X {"EndOfStream"}
    ELSE IF total >= MaxSession THEN {<<"session_size_limit", "SessionSizeLimit">>}
    ELSE IF file.bytes >= MaxFile THEN {<<"rotated", "Rotated">>}
    ELSE {<<"none", "EndOfStream">>}

(* Whether the loop stops after a record it has stored, as end_reason and  *)
(* next: the first of the tests that holds.                                *)
Stops(rec, file, total) ==
    IF rec.kind = "end" THEN ProxyReasons \X {"EndOfStream"}
    ELSE IF SHUTDOWN THEN {<<"signal", "EndOfStream">>}
    ELSE IF total >= MaxSession THEN {<<"session_size_limit", "SessionSizeLimit">>}
    ELSE IF file.bytes >= MaxFile THEN {<<"rotated", "Rotated">>}
    ELSE {<<"none", "EndOfStream">>}

(* One turn of run_part_loop with a record: read, write, count, look at it *)
(* and at the limits.  A line that does not parse is not written; a second *)
(* header is.                                                              *)
ReadRecord ==
    /\ pc = "read" /\ pipe # <<>>
    /\ pipe' = Tail(pipe)
    /\ LET rec == Head(pipe)
           file == Stored(Current, rec)
           total == session_bytes + rec.len
           done == Front(parts)
       IN  \/ /\ rec.kind = "bad"
              /\ ReturnError(done, Current)
              /\ UNCHANGED <<session_bytes, header_info, ending>>
           \/ /\ rec.kind # "bad"
              /\ FALSE \in WriteSucceeds(OnDisk(file.bytes))
              /\ ReturnError(done, Broken(file))
              /\ UNCHANGED <<session_bytes, header_info, ending>>
           \/ /\ rec.kind = "header" /\ header_info
              /\ TRUE \in WriteSucceeds(OnDisk(file.bytes))
              /\ ReturnError(done, file)
              /\ session_bytes' = total
              /\ UNCHANGED <<header_info, ending>>
           \/ /\ rec.kind # "bad" /\ ~(rec.kind = "header" /\ header_info)
              /\ TRUE \in WriteSucceeds(OnDisk(file.bytes))
              /\ parts' = [parts EXCEPT ![Len(parts)] = file]
              /\ session_bytes' = total
              /\ header_info' = (header_info \/ rec.kind = "header")
              /\ \E stop \in Stops(rec, file, total) :
                  /\ end_reason' = stop[1]
                  /\ next' = stop[2]
                  /\ pc' = IF stop[1] = "none" THEN "read" ELSE "finish"
              /\ UNCHANGED outcome
    /\ UNCHANGED <<sent, closed, SHUTDOWN, prev_manifest_hash_link, opts>>

(* Bug: a read that finds nothing is taken for the end of the stream.      *)
ReadEofEarly ==
    /\ pc = "read" /\ pipe = <<>>
    /\ end_reason' = "eof"
    /\ next' = "EndOfStream"
    /\ pc' = "finish"
    /\ UNCHANGED <<env, session_bytes, header_info, prev_manifest_hash_link,
                   outcome, parts, opts>>

(* Bug: the end of the stream is read again and again.                     *)
ReadEofAgain ==
    /\ pc = "read" /\ pipe = <<>> /\ closed
    /\ UNCHANGED vars

(* next_event returns None: the proxy closed the pipe and it is drained.   *)
ReadEof ==
    /\ pc = "read" /\ pipe = <<>> /\ closed
    /\ end_reason' = "eof"
    /\ next' = "EndOfStream"
    /\ pc' = "finish"
    /\ UNCHANGED <<env, session_bytes, header_info, prev_manifest_hash_link,
                   outcome, parts, opts>>

(* Bug: the error of finish() is dropped.                                  *)
FinishUnchecked ==
    /\ pc = "finish"
    /\ \E fits \in WriteSucceeds(FullSize(Current.bytes)),
       synced \in {TRUE, ~IoErrors} :
        /\ parts' = [parts EXCEPT ![Len(parts)] = Finished(Current, fits)]
        /\ pc' = IF header_info /\ synced THEN "sign" ELSE "failed"
    /\ UNCHANGED <<env, session_bytes, header_info, ending,
                   prev_manifest_hash_link, outcome, opts>>

(* The end of process_part: finish() with its error checked, a header      *)
(* asked for, and sync_all in run().                                       *)
Finish ==
    /\ pc = "finish"
    /\ \E fits \in WriteSucceeds(FullSize(Current.bytes)),
       synced \in {TRUE, ~IoErrors} :
        LET file == Finished(Current, fits)
        IN  /\ parts' = [parts EXCEPT ![Len(parts)] = file]
            /\ pc' = IF file.stream # "broken" /\ header_info /\ synced
                     THEN "sign" ELSE "failed"
    /\ UNCHANGED <<env, session_bytes, header_info, ending,
                   prev_manifest_hash_link, outcome, opts>>

(* Bug: the link of an earlier part outlives a part without a manifest.    *)
LinkKept(signed) ==
    IF next = "Rotated" /\ signed THEN part_num ELSE prev_manifest_hash_link

(* The hash the header of the next part will name.                         *)
LinkAfter(signed) ==
    IF next = "Rotated" THEN (IF signed THEN part_num ELSE None)
    ELSE prev_manifest_hash_link

(* Manifest and chain, when there is a key and nothing fails; then the     *)
(* next part, or the end of run() with its check of FINALIZE_FAILED.       *)
SignPart ==
    /\ pc = "sign"
    /\ \E signed \in {signing_key, signing_key /\ ~IoErrors} :
        /\ parts' = [parts EXCEPT ![Len(parts)].manifest =
                        IF signed THEN end_reason ELSE "none"]
        /\ prev_manifest_hash_link' = LinkAfter(signed)
    /\ pc' = CASE next = "Rotated"          -> "open"
               [] next = "SessionSizeLimit" -> "failed"
               [] next = "EndOfStream"      -> "ok"
    /\ reported' = (pc' # "open" /\ FINALIZE_FAILED)
    /\ end_reason' = IF next = "Rotated" THEN "none" ELSE end_reason
    /\ next' = IF next = "Rotated" THEN "EndOfStream" ELSE next
    /\ UNCHANGED <<env, session_bytes, header_info, FINALIZE_FAILED, opts>>
-----------------------------------------------------------------------------
Process ==
    \/ Start \/ OpenFails \/ SetupFails \/ OpenFirst \/ OpenNext
    \/ ReadRecord \/ ReadEof \/ Finish \/ SignPart

Ended == pc \in Stopped /\ UNCHANGED vars

Next == ProxyWrites \/ ProxyCloses \/ Signal \/ Kill \/ Process \/ Ended

Spec == Init /\ [][Next]_vars

(* The process runs whenever it can.  Nothing makes the proxy write, close *)
(* its end or send a signal.                                               *)
FairSpec == Spec /\ WF_vars(Process)
-----------------------------------------------------------------------------
(* Each variable has its type; a file's fields are those of NewFile.       *)
TypeOK ==
    /\ pipe \in Seq(Records)
    /\ sent \in 0 .. MaxRecords
    /\ {closed, SHUTDOWN, header_info, FINALIZE_FAILED, reported, encrypt,
        signing_key} \subseteq BOOLEAN
    /\ pc \in Stopped \cup {"start", "open", "read", "finish", "sign"}
    /\ session_bytes \in Nat
    /\ end_reason \in {"none", "signal", "session_size_limit", "rotated"} \cup ProxyReasons
    /\ next \in {"EndOfStream", "Rotated", "SessionSizeLimit"}
    /\ prev_manifest_hash_link \in {None} \cup 0 .. Len(parts) - 1
    /\ \A i \in DOMAIN parts :
        /\ parts[i].ids \in Seq(0 .. MaxRecords)
        /\ parts[i].stream \in {"open", "plain", "final", "broken"}

(* The places in the stream of the records in the files.                   *)
Kept == {id \in 1 .. MaxRecords : \E i \in DOMAIN parts : id \in ToSet(parts[i].ids)}

(* The records are in the files, file by file, in the order of the stream, *)
(* and none is there twice.                                                *)
InOrder ==
    \A i, j \in DOMAIN parts :
        \A k \in DOMAIN parts[i].ids, l \in DOMAIN parts[j].ids :
            /\ i < j \/ (i = j /\ k < l)
            /\ Synthetic \notin {parts[i].ids[k], parts[j].ids[l]}
            => parts[i].ids[k] < parts[j].ids[l]

(* What is in the files is a prefix of what the proxy wrote, in its order, *)
(* each record once; and as long as the session has not failed, nothing    *)
(* lies between the files and the pipe: rotation, a signal and the size    *)
(* limits drop no record that was read.                                    *)
NoRecordLost ==
    /\ InOrder
    /\ \E n \in 0 .. sent :
        /\ Kept = 1 .. n
        /\ pc \notin {"failed", "killed"} => n + Len(pipe) = sent

(* A manifest that says "eof" closes a session recorded to its last byte,  *)
(* or to the record in which the proxy itself said so.                     *)
EofIsComplete ==
    \A i \in DOMAIN parts : parts[i].manifest = "eof" =>
        \/ closed /\ Kept = 1 .. sent
        \/ parts[i].last.kind = "end"

(* A part that has a manifest holds a header and was finished without an   *)
(* error, under the size limit of the process.                             *)
SignedIsFinal ==
    \A i \in DOMAIN parts : parts[i].manifest # "none" =>
        /\ parts[i].header
        /\ parts[i].stream = IF encrypt THEN "final" ELSE "plain"
        /\ FullSize(parts[i].bytes) <= FileLimit

(* Parts follow each other only by rotation: all but the last are finished *)
(* and reached the limit, and the header of each names the part before it  *)
(* exactly when that part was signed.                                      *)
PartsFollow ==
    \A i \in 2 .. Len(parts) :
        LET before == parts[i - 1]
        IN  /\ before.stream = IF encrypt THEN "final" ELSE "plain"
            /\ before.bytes >= MaxFile
            /\ before.manifest \in {"none", "rotated"}
            /\ parts[i].link = IF before.manifest = "rotated" THEN i - 2 ELSE None

(* A part passes its limit by less than its last record, and a session by  *)
(* less than that and one synthesized header; a part whose header alone    *)
(* reaches the limit holds at most one record more.                        *)
OvershootOneRecord ==
    /\ \A i \in DOMAIN parts :
        \/ parts[i].bytes - parts[i].last.len < MaxFile
        \/ i > 1 /\ Len(parts[i].ids) <= 2
    /\ parts # <<>> =>
        session_bytes - Current.last.len < MaxSession + HeaderLength

(* What age adds to n bytes, and what that leaves of the slack for the     *)
(* record that passes the part limit.                                      *)
Overhead(n) == FullSize(n) - n
Room == Slack - Overhead(MAX_FILE_SIZE + Slack)

(* With the limit the process wants, a part that does not fit under it     *)
(* ends in a record longer than what age leaves of the slack: no accepted  *)
(* config, and no number of short records, takes a part past it.           *)
LimitNeedsLongRecord ==
    \A i \in DOMAIN parts :
        \/ FullSize(parts[i].bytes) <= FileLimit
        \/ parts[i].last.len > Room
        \/ inherited < MAX_FILE_SIZE + Slack

(* The recorder comes to an end once the proxy has closed its end.         *)
EndsAfterClose == closed ~> pc \in Stopped

(* ... and after a signal, when there is still something to read.          *)
SignalEndsBusySession == SHUTDOWN /\ pipe # <<>> ~> pc \in Stopped
-----------------------------------------------------------------------------
(* What the documentation claims and the code refutes **********************)

(* "On a catchable stop (SIGTERM or SIGINT) the encrypted stream is        *)
(* finalized": when the proxy is idle the recorder stays in its read.      *)
SignalEndsSession == SHUTDOWN ~> pc \in Stopped

(* "it sets FINALIZE_FAILED ... The caller checks this flag and logs it at *)
(* LOG_CRIT".                                                              *)
FailedFinalizeReported ==
    pc \in {"ok", "failed"} /\ FINALIZE_FAILED => reported
=============================================================================
