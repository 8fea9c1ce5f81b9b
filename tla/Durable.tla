------------------------------ MODULE Durable -------------------------------
(***************************************************************************)
(* What a power loss leaves of a part's files and of the chain's.  The     *)
(* flock lets one recorder at a time commit (HistoryIntact of Chain), so   *)
(* here one part is recorded and committed after the other, numbered in    *)
(* that order, and the calls that write to disk are the steps.             *)
(*                                                                         *)
(* A directory entry is <<name, n>>: what was made or renamed under that   *)
(* name by part n.  The head.hash one sees is the last entry of it.        *)
(* fsync of a file makes its content durable, fsync of a directory its     *)
(* entries.  That entries made on one volume become durable in the order   *)
(* they were made in, whichever directory they are in, is assumed: ext4    *)
(* and xfs journal them so, btrfs does not promise it.                     *)
(***************************************************************************)
EXTENDS Integers, Sequences, SequencesExt, FiniteSetsExt

CONSTANTS
    MaxParts,       \* bound: how many parts are recorded
    MaxLosses       \* bound: how many power losses there are

ASSUME DurableAssumption == MaxParts \in Nat /\ MaxLosses \in Nat

Parts == 1 .. MaxParts
Genesis == 0        \* what head.hash stands for before there is one

VARIABLES
    layout,         \* whether recordings and chain are on one volume, or two
    at,             \* the index in Calls of the call made next
    n,              \* the part that is recorded
    prev,           \* for every part, the head its manifest follows
    \* the disk
    durable,        \* entries that survive a power loss
    pending,        \* for each volume, the entries that need not yet
    written,        \* entries whose file content survives
    damaged,        \* entries whose file content was lost
    log,            \* the lines of head.hash.log, by part
    logSynced,      \* how many of them survive
    \* what the properties talk about
    acked,          \* parts whose commit returned Ok
    losses

entries == <<durable, pending>>
content == <<written, damaged>>
logFile == <<log, logSynced>>
vars == <<layout, at, n, prev, entries, content, logFile, acked, losses>>

Volumes == {"storage", "chain"}
VolumeOf(dir) == IF layout = "one_volume" THEN "storage" ELSE dir

Visible == durable \cup UNION {ToSet(pending[v]) : v \in Volumes}

(* What head.hash names, as read_head finds it.                            *)
HeadHash == Max({e[2] : e \in {f \in Visible : f[1] = "head"}} \cup {Genesis})

(* Bug: the sidecar is written once the chain has advanced.                *)
SidecarLast ==
    <<"openat", "sync_recording", "read_head", "sync_head",
      "rename_head", "fsync_dir", "sync_sidecar", "rename_sidecar",
      "append", "sync_log", "fsync_dir", "Ok">>

(* Bug: the rename of head.tmp is left to the file system.                 *)
HeadDirUnsynced ==
    <<"openat", "sync_recording", "read_head", "sync_sidecar",
      "rename_sidecar", "sync_head", "rename_head",
      "append", "sync_log", "fsync_dir", "Ok">>

(* Bug: the content of head.tmp is left to the file system.                *)
HeadUnsynced ==
    <<"openat", "sync_recording", "read_head", "sync_sidecar",
      "rename_sidecar", "rename_head", "fsync_dir",
      "append", "sync_log", "fsync_dir", "Ok">>

(* Bug: so is the log line.                                                *)
LogUnsynced ==
    <<"openat", "sync_recording", "read_head", "sync_sidecar",
      "rename_sidecar", "sync_head", "rename_head", "fsync_dir",
      "append", "fsync_dir", "Ok">>

(* The calls for one part, in the order of run(), Manifest::write_to,      *)
(* write_head and append_log.                                              *)
Calls ==
    <<"openat", "sync_recording", "read_head", "sync_sidecar",
      "rename_sidecar", "sync_head", "rename_head", "fsync_dir",
      "append", "sync_log", "fsync_dir", "Ok">>

Init ==
    /\ layout \in {"one_volume", "two_volumes"}
    /\ at = 1
    /\ n = 1
    /\ prev = [p \in Parts |-> Genesis]
    /\ durable = {}
    /\ pending = [v \in Volumes |-> <<>>]
    /\ written = {}
    /\ damaged = {}
    /\ log = <<>>
    /\ logSynced = 0
    /\ acked = {}
    /\ losses = 0
-----------------------------------------------------------------------------
Call(name) ==
    /\ n <= MaxParts
    /\ Calls[at] = name
    /\ at' = at + 1
    /\ UNCHANGED <<layout, n, acked, losses>>

(* An entry appears in a directory.                                        *)
Enter(dir, entry) ==
    /\ pending' = [pending EXCEPT ![VolumeOf(dir)] = Append(@, entry)]
    /\ UNCHANGED durable

(* openat(O_CREAT | O_EXCL) of the recording, and what is written to it.   *)
CreateRecording ==
    /\ Call("openat")
    /\ Enter("storage", <<"recording", n>>)
    /\ UNCHANGED <<prev, content, logFile>>

(* The file sync_all of a temporary file, or of the recording, before it   *)
(* has its name or its manifest.                                           *)
SyncContent(name, entry) ==
    /\ Call(name)
    /\ written' = written \cup {entry}
    /\ UNCHANGED <<prev, entries, damaged, logFile>>

ReadHead ==
    /\ Call("read_head")
    /\ prev' = [prev EXCEPT ![n] = HeadHash]
    /\ UNCHANGED <<entries, content, logFile>>

(* The end of Manifest::write_to; its directory is not synced.             *)
RenameSidecar ==
    /\ Call("rename_sidecar")
    /\ Enter("storage", <<"sidecar", n>>)
    /\ UNCHANGED <<prev, content, logFile>>

RenameHead ==
    /\ Call("rename_head")
    /\ Enter("chain", <<"head", n>>)
    /\ UNCHANGED <<prev, content, logFile>>

(* fsync_dir on the chain's directory, in write_head and in append_log.    *)
FsyncDir ==
    /\ Call("fsync_dir")
    /\ durable' = durable \cup ToSet(pending[VolumeOf("chain")])
    /\ pending' = [pending EXCEPT ![VolumeOf("chain")] = <<>>]
    /\ UNCHANGED <<prev, content, logFile>>

(* The log file is created when there is none.                             *)
AppendLog ==
    /\ Call("append")
    /\ log' = Append(log, n)
    /\ IF \E e \in Visible : e[1] = "log" THEN UNCHANGED entries
       ELSE Enter("chain", <<"log", n>>)
    /\ UNCHANGED <<prev, content, logSynced>>

SyncLog ==
    /\ Call("sync_log")
    /\ logSynced' = Len(log)
    /\ UNCHANGED <<prev, entries, content, log>>

(* write_manifest_and_advance returns Ok; the next part follows.           *)
ReturnOk ==
    /\ n <= MaxParts
    /\ Calls[at] = "Ok"
    /\ acked' = acked \cup {n}
    /\ n' = n + 1
    /\ at' = 1
    /\ UNCHANGED <<layout, prev, entries, content, logFile, losses>>

(* External: the file system writes out the oldest entry of a volume.      *)
Writeback(v) ==
    /\ pending[v] # <<>>
    /\ durable' = durable \cup {pending[v][1]}
    /\ pending' = [pending EXCEPT ![v] = Tail(@)]
    /\ UNCHANGED <<layout, at, n, prev, content, logFile, acked, losses>>

(* External: what is not durable is gone, content that was not synced may  *)
(* be, and the next part is that of a session after the restart.           *)
PowerLoss ==
    /\ losses < MaxLosses
    /\ losses' = losses + 1
    /\ pending' = [v \in Volumes |-> <<>>]
    /\ \E lost \in SUBSET (durable \ (written \cup {<<"log", p>> : p \in Parts})) :
        damaged' = damaged \cup lost
    /\ \E len \in logSynced .. Len(log) :
        log' = IF \E e \in durable : e[1] = "log" THEN SubSeq(log, 1, len)
               ELSE <<>>
    /\ logSynced' = Len(log')
    /\ at' = 1
    /\ n' = IF at = 1 \/ n > MaxParts THEN n ELSE n + 1
    /\ UNCHANGED <<layout, prev, durable, written, acked>>

Finished == n > MaxParts /\ UNCHANGED vars

Next ==
    \/ CreateRecording
    \/ SyncContent("sync_recording", <<"recording", n>>)
    \/ SyncContent("sync_sidecar", <<"sidecar", n>>)
    \/ SyncContent("sync_head", <<"head", n>>)
    \/ ReadHead
    \/ RenameSidecar
    \/ RenameHead
    \/ FsyncDir
    \/ AppendLog
    \/ SyncLog
    \/ ReturnOk
    \/ \E v \in Volumes : Writeback(v)
    \/ PowerLoss
    \/ Finished

Spec == Init /\ [][Next]_vars
-----------------------------------------------------------------------------
(* The parts of the history that head.hash ends.                           *)
HistoryOf(head) ==
    LET HistoryTo[p \in 0 .. MaxParts] ==
            IF p = Genesis THEN {} ELSE {p} \cup HistoryTo[prev[p]]
    IN  HistoryTo[head]

Held(p) == <<"sidecar", p>> \in Visible

(* Nothing that has its name is half a file after a power loss: head.hash  *)
(* names a whole hash, a sidecar is a whole manifest, and a recording with *)
(* a sidecar, which is there then, is the one that was hashed.             *)
FilesWhole ==
    \A p \in Parts :
        /\ {<<"head", p>>, <<"sidecar", p>>} \cap damaged = {}
        /\ Held(p) =>
            /\ <<"recording", p>> \in Visible \ damaged
            /\ <<"recording", p>> \in written

(* No line of the log is ahead of head.hash, after a power loss either: a  *)
(* part the log names is never signed around by the next session.          *)
LogNeverAhead == ToSet(log) \subseteq HistoryOf(HeadHash)

(* An Ok outlives a power loss: the part stays in the history of head.hash *)
(* and in the log.                                                         *)
AckedSurvives == acked \subseteq HistoryOf(HeadHash) \cap ToSet(log)

(* Where recordings and chain share a volume, head.hash and its history    *)
(* never name a manifest that is gone.  It rests on the order in which the *)
(* volume makes entries durable: the sidecar's is never synced itself.     *)
HeldOnOneVolume ==
    layout = "one_volume" => \A p \in HistoryOf(HeadHash) : Held(p)
-----------------------------------------------------------------------------
(* "the new head.hash can be lost while the recording and its sidecar      *)
(* survive, leaving the chain anchored at a hash nothing holds": what is   *)
(* done about it leaves the sidecar to be lost, and the head anchored so.  *)
HeadIsHeld == HeadHash # Genesis => Held(HeadHash)
=============================================================================
