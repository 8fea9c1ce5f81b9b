------------------------------- MODULE Chain --------------------------------
(***************************************************************************)
(* The per-host manifest chain and its writers.  Every recorder process    *)
(* that finishes a part of a session signs a manifest for it and advances  *)
(* the chain: write_manifest_and_advance in main.rs, over the files of     *)
(* chain.rs.  One action is one call that changes or reads shared state;   *)
(* a recorder can die, or a call of it fail, between any two of them.      *)
(*                                                                         *)
(* The name of a recording is <session>.part<N>, created with O_EXCL, so a *)
(* pair <<recorder, part>> is used at most once and stands for the hash of *)
(* the manifest made for it.                                               *)
(***************************************************************************)
EXTENDS Verify

CONSTANTS
    Recorders,      \* the processes: one per session, each with its own id
    MaxPart,        \* bound: the last part number of a session
    MaxFaults,      \* bound: how many faults one behaviour may hold
    FaultKinds,     \* which faults may happen, of {"crash", "error", "torn"}
    OldManifest     \* the one manifest of a host upgraded from a build that
                    \* did not sign its log

Parts == 0 .. MaxPart
Hashes == (Recorders \X Parts) \cup {OldManifest}

ASSUME ChainAssumption ==
    /\ MaxPart \in Nat
    /\ MaxFaults \in Nat
    /\ Nothing \notin Recorders
    /\ Genesis \notin Hashes
    /\ Nothing \notin Hashes
    /\ OldManifest \notin Recorders \X Parts

VARIABLES
    \* what the processes share
    lock,       \* head.hash.lock: the recorder whose flock holds it, or Nothing
    head,       \* head.hash: a hash, or Genesis while there is no such file
    headTmp,    \* head.tmp: the hash in it, or Nothing
    sidecars,   \* the manifest files on disk
    log,        \* head.hash.log: its lines
    \* what each process keeps
    pc,         \* the call it makes next
    part,       \* the part it is at
    prev,       \* the head it read, which its manifest follows
    logPrev,    \* the log tip it read, which its line follows
    \* what the properties talk about, and no code reads
    acked,      \* hashes write_manifest_and_advance returned with Ok
    spine,      \* the manifests head.hash has named, oldest first
    faults      \* how many faults there were

disk == <<head, headTmp, sidecars, log, spine>>
mine == <<part, prev, logPrev>>
vars == <<lock, disk, pc, mine, acked, faults>>

(* The calls made while the flock is held.                                 *)
Critical == {"read_head", "write_to", "head_tmp", "rename", "read_log_tip",
             "append", "unlock"}
Stopped == {"done", "dead"}
Labels == Critical \cup Stopped \cup {"record", "acquire", "between"}

Mine(r) == <<r, part[r]>>

Manifest(h, p) == [this |-> h, prev |-> p]
Manifests == [this : Hashes, prev : Hashes \cup {Genesis}]

Lines ==
    [fields : FieldCounts, valid : BOOLEAN, eol : BOOLEAN,
     manifest_hash : Hashes \cup {Nothing},
     log_prev : Hashes \cup {Genesis, Nothing},
     log_hash : Hashes \cup {Nothing}]

(* The log as its appender sees it *****************************************)

LastLine(lines) == lines[Len(lines)]

(* read_log_tip fails when the last line has neither five nor eight fields *)
LogTipReadable(lines) ==
    lines # <<>> => LastLine(lines).fields \in {"legacy", "signed"}

(* Bug: every line starts a chain of its own.                              *)
LogTipGenesis(lines) == Genesis

(* ... and otherwise returns its log_hash, or Genesis where a new chain    *)
(* starts: on an empty log, and after the lines of an older build.         *)
LogTip(lines) ==
    IF lines = <<>> \/ LastLine(lines).fields = "legacy"
    THEN Genesis
    ELSE LastLine(lines).log_hash

Unterminated(lines) == lines # <<>> /\ ~LastLine(lines).eol

(* A line that matches no signature: n fields, log_hash where the parser   *)
(* looks for one.                                                          *)
Mangled(n, eol, hash) ==
    [fields |-> n, valid |-> FALSE, eol |-> eol,
     manifest_hash |-> Nothing, log_prev |-> Nothing, log_hash |-> hash]

(* Bug: the log is opened with truncate instead of append.                 *)
TruncateLine(lines, line) == <<line>>

(* O_APPEND writes at the end of the file: after a tail that no newline    *)
(* ends, the new line continues it, and the two read as one line of more   *)
(* than eight fields.                                                      *)
AppendLine(lines, line) ==
    IF Unterminated(lines)
    THEN [lines EXCEPT ![Len(lines)] = Mangled("other", TRUE, Nothing)]
    ELSE Append(lines, line)

(* What a short write leaves of a line: all but the newline, a cut in the  *)
(* signature, a cut in or right after the fifth field, a cut elsewhere.    *)
TornLines(line) ==
    {[line EXCEPT !.eol = FALSE],
     [line EXCEPT !.eol = FALSE, !.valid = FALSE],
     [LegacyLine(line.manifest_hash) EXCEPT !.eol = FALSE],
     Mangled("legacy", FALSE, Nothing),
     Mangled("other", FALSE, Nothing)}

(* A fragment that continues an unterminated tail adds as many fields to   *)
(* it as it holds.                                                         *)
TornTails(tail) ==
    {Mangled("other", FALSE, Nothing), Mangled("signed", FALSE, tail.log_hash)}
        \cup (IF tail.fields = "legacy" THEN {Mangled("legacy", FALSE, Nothing)}
              ELSE {})

AppendTornLine(lines, line) ==
    IF Unterminated(lines)
    THEN {[lines EXCEPT ![Len(lines)] = t] : t \in TornTails(LastLine(lines))}
    ELSE {Append(lines, t) : t \in TornLines(line)}
-----------------------------------------------------------------------------
(* A new host, or one whose older build recorded a session.                *)
FreshHost ==
    /\ head = Genesis
    /\ sidecars = {}
    /\ log = <<>>
    /\ spine = <<>>

UpgradedHost ==
    /\ head = OldManifest
    /\ sidecars = {Manifest(OldManifest, Genesis)}
    /\ log = <<LegacyLine(OldManifest)>>
    /\ spine = <<Manifest(OldManifest, Genesis)>>

Init ==
    /\ FreshHost \/ UpgradedHost
    /\ headTmp = Nothing
    /\ lock = Nothing
    /\ pc = [r \in Recorders |-> "record"]
    /\ part = [r \in Recorders |-> 0]
    /\ prev = [r \in Recorders |-> Genesis]
    /\ logPrev = [r \in Recorders |-> Genesis]
    /\ acked = {}
    /\ faults = 0

Goto(r, from, to) ==
    /\ pc[r] = from
    /\ pc' = [pc EXCEPT ![r] = to]

(* Bug: the flock is not waited for.                                       *)
LockIgnored == TRUE

LockFree == lock = Nothing

(* Bug: only the way out with Ok drops the lock.                           *)
LockKeptOnError(r) == IF pc[r] = "unlock" THEN Nothing ELSE lock

(* Dropping ChainLock, or the kernel closing the descriptor of a dead      *)
(* process, frees the flock if this recorder had it.                       *)
LockWithout(r) == IF lock = r THEN Nothing ELSE lock

(* process_part returned, the recording is synced and hashed.              *)
EndPart(r) ==
    /\ Goto(r, "record", "acquire")
    /\ UNCHANGED <<lock, disk, mine, acked, faults>>

(* ChainLock::acquire: flock(LOCK_EX) blocks while another holds the lock. *)
AcquireLock(r) ==
    /\ Goto(r, "acquire", "read_head")
    /\ LockFree
    /\ lock' = r
    /\ UNCHANGED <<disk, mine, acked, faults>>

(* Bug: the head is read for part 0 only and kept for the rest.            *)
ReadHeadOnce(r) ==
    /\ Goto(r, "read_head", "write_to")
    /\ prev' = [prev EXCEPT ![r] = IF part[r] = 0 THEN head ELSE prev[r]]
    /\ UNCHANGED <<lock, disk, part, logPrev, acked, faults>>

(* read_head: what head.hash names, or GENESIS_PREV while there is none.    *)
ReadHead(r) ==
    /\ Goto(r, "read_head", "write_to")
    /\ prev' = [prev EXCEPT ![r] = head]
    /\ UNCHANGED <<lock, disk, part, logPrev, acked, faults>>

(* Manifest::write_to: the signed manifest appears under its name at once, *)
(* by a rename.                                                            *)
WriteSidecar(r) ==
    /\ Goto(r, "write_to", "head_tmp")
    /\ sidecars' = sidecars \cup {Manifest(Mine(r), prev[r])}
    /\ UNCHANGED <<lock, head, headTmp, log, spine, mine, acked, faults>>

(* write_head, up to the rename: create or truncate head.tmp, write, fsync *)
WriteHeadTmp(r) ==
    /\ Goto(r, "head_tmp", "rename")
    /\ headTmp' = Mine(r)
    /\ UNCHANGED <<lock, head, sidecars, log, spine, mine, acked, faults>>

(* ... and the rename: what head.tmp holds becomes head.hash.              *)
RenameHead(r) ==
    /\ Goto(r, "rename", "read_log_tip")
    /\ headTmp # Nothing
    /\ head' = headTmp
    /\ headTmp' = Nothing
    /\ \E m \in sidecars : m.this = headTmp /\ spine' = Append(spine, m)
    /\ UNCHANGED <<lock, sidecars, log, mine, acked, faults>>

(* Bug: the number of fields of the last line is not looked at.            *)
ReadLogTipUnchecked(r) ==
    /\ Goto(r, "read_log_tip", "append")
    /\ logPrev' = [logPrev EXCEPT ![r] = LogTip(log)]
    /\ UNCHANGED <<lock, disk, part, prev, acked, faults>>

(* append_log first reads the tip its line must link to; a tail it cannot  *)
(* parse is an error, which drops the lock.                                *)
ReadLogTip(r) ==
    \/ /\ Goto(r, "read_log_tip", "append")
       /\ LogTipReadable(log)
       /\ logPrev' = [logPrev EXCEPT ![r] = LogTip(log)]
       /\ UNCHANGED <<lock, disk, part, prev, acked, faults>>
    \/ /\ Goto(r, "read_log_tip", "between")
       /\ ~LogTipReadable(log)
       /\ lock' = LockWithout(r)
       /\ UNCHANGED <<disk, mine, acked, faults>>

(* Bug: the line names the manifest before this one.                       *)
AppendLogPrev(r) ==
    /\ Goto(r, "append", "unlock")
    /\ log' = AppendLine(log, SignedLine(prev[r], logPrev[r]))
    /\ UNCHANGED <<lock, head, headTmp, sidecars, spine, mine, acked, faults>>

(* ... then appends the line, whose digest and signature cover that link.  *)
AppendLog(r) ==
    /\ Goto(r, "append", "unlock")
    /\ log' = AppendLine(log, SignedLine(Mine(r), logPrev[r]))
    /\ UNCHANGED <<lock, head, headTmp, sidecars, spine, mine, acked, faults>>

(* write_manifest_and_advance returns Ok(hash), which drops the lock.      *)
Unlock(r) ==
    /\ Goto(r, "unlock", "between")
    /\ lock' = LockWithout(r)
    /\ acked' = acked \cup {Mine(r)}
    /\ UNCHANGED <<disk, mine, faults>>

(* Bug: the part number stays, and its file is opened without O_EXCL.      *)
NextPartAgain(r) ==
    /\ Goto(r, "between", "record")
    /\ part[r] < MaxPart
    /\ UNCHANGED <<lock, disk, mine, acked, faults>>

(* PartNext::Rotated: the next part of the session, signed or not before.  *)
NextPart(r) ==
    /\ Goto(r, "between", "record")
    /\ part[r] < MaxPart
    /\ part' = [part EXCEPT ![r] = @ + 1]
    /\ UNCHANGED <<lock, disk, prev, logPrev, acked, faults>>

(* PartNext::EndOfStream or SessionSizeLimit.                              *)
EndSession(r) ==
    /\ Goto(r, "between", "done")
    /\ UNCHANGED <<lock, disk, mine, acked, faults>>
-----------------------------------------------------------------------------
(* Faults ******************************************************************)

Fault(kind) ==
    /\ kind \in FaultKinds
    /\ faults < MaxFaults
    /\ faults' = faults + 1

(* Bug: the error is logged and the hash returned all the same.            *)
CallFailsSilently(r) ==
    /\ pc[r] \in Critical \cup {"acquire"}
    /\ Fault("error")
    /\ pc' = [pc EXCEPT ![r] = "between"]
    /\ lock' = LockWithout(r)
    /\ acked' = acked \cup {Mine(r)}
    /\ UNCHANGED <<disk, mine>>

(* A call fails (hashing, open, write, fsync, flock): the error returns    *)
(* through write_manifest_and_advance, the part stays as it is and the     *)
(* session goes on.  An fsync that fails after a rename or an append does  *)
(* so with their effect in place, which is the label after theirs.         *)
CallFails(r) ==
    /\ pc[r] \in Critical \cup {"acquire"}
    /\ Fault("error")
    /\ pc' = [pc EXCEPT ![r] = "between"]
    /\ lock' = LockWithout(r)
    /\ UNCHANGED <<disk, mine, acked>>

(* The write of the log line stops short (ENOSPC, EFBIG) and fails.        *)
AppendFails(r) ==
    /\ Goto(r, "append", "between")
    /\ Fault("torn")
    /\ log' \in AppendTornLine(log, SignedLine(Mine(r), logPrev[r]))
    /\ lock' = LockWithout(r)
    /\ UNCHANGED <<head, headTmp, sidecars, spine, mine, acked>>

(* The process is killed.                                                  *)
Crash(r) ==
    /\ pc[r] \notin Stopped
    /\ Fault("crash")
    /\ pc' = [pc EXCEPT ![r] = "dead"]
    /\ lock' = LockWithout(r)
    /\ UNCHANGED <<disk, mine, acked>>
-----------------------------------------------------------------------------
Commit(r) ==
    \/ AcquireLock(r)
    \/ ReadHead(r)
    \/ WriteSidecar(r)
    \/ WriteHeadTmp(r)
    \/ RenameHead(r)
    \/ ReadLogTip(r)
    \/ AppendLog(r)
    \/ Unlock(r)

Session(r) == EndPart(r) \/ NextPart(r) \/ EndSession(r)

Faulty(r) == CallFails(r) \/ AppendFails(r) \/ Crash(r)

AllStopped ==
    /\ \A r \in Recorders : pc[r] \in Stopped
    /\ UNCHANGED vars

Next == (\E r \in Recorders : Commit(r) \/ Session(r) \/ Faulty(r)) \/ AllStopped

Spec == Init /\ [][Next]_vars

(* A process that is alive keeps making its calls.  Nothing says that the  *)
(* session it records ever ends, and no fault has to happen.               *)
FairSpec == Spec /\ \A r \in Recorders : WF_vars(Commit(r))
-----------------------------------------------------------------------------
(* Each variable has its type: the hashes are those of this host's parts.  *)
TypeOK ==
    /\ lock \in Recorders \cup {Nothing}
    /\ head \in Hashes \cup {Genesis}
    /\ headTmp \in Hashes \cup {Nothing}
    /\ sidecars \in SUBSET Manifests
    /\ log \in Seq(Lines)
    /\ pc \in [Recorders -> Labels]
    /\ part \in [Recorders -> Parts]
    /\ prev \in [Recorders -> Hashes \cup {Genesis}]
    /\ logPrev \in [Recorders -> Hashes \cup {Genesis, Nothing}]
    /\ acked \in SUBSET Hashes
    /\ spine \in Seq(Manifests)
    /\ faults \in Nat

(* No recorder is committing.                                              *)
Quiet == lock = Nothing

(* Hashes the spine names, and its last one.                               *)
Published == {spine[i].this : i \in DOMAIN spine}
SpineTip == IF spine = <<>> THEN Genesis ELSE spine[Len(spine)].this
OnSpine == {spine[i] : i \in DOMAIN spine}

(* Manifests whose writer never advanced head.hash to them.                *)
Orphans == sidecars \ OnSpine

(* A hash is logged when a line with its digest and signature intact names *)
(* it.                                                                     *)
Logged ==
    {log[i].manifest_hash : i \in {j \in DOMAIN log :
        log[j].valid /\ log[j].fields \in {"legacy", "signed"}}}
-----------------------------------------------------------------------------
(* head.hash always ends one unbroken history: it names the last manifest  *)
(* of the spine, every manifest it ever named is still on disk, and each   *)
(* follows the one before it back to Genesis.  Lock, order of the writes   *)
(* and error paths of write_manifest_and_advance all have to be right for  *)
(* this, whatever faults occur.                                            *)
HistoryIntact ==
    /\ head = SpineTip
    /\ OnSpine \subseteq sidecars
    /\ \A i \in DOMAIN spine :
        spine[i].prev = IF i = 1 THEN Genesis ELSE spine[i - 1].this

(* While no recorder is committing, check_single_chain accepts the         *)
(* manifests exactly when none is an orphan: its walk neither misses a     *)
(* manifest that a fault left off the history nor refuses a whole history. *)
(* Before the first commit there is no head.hash to anchor the walk, and   *)
(* one orphan reads as a whole history.                                    *)
QuietAudit ==
    Quiet /\ head # Genesis =>
        (CheckSingleChain(sidecars, head) <=> Orphans = {})

(* On a host without a fault so far the auditor's whole check passes       *)
(* whenever no recorder is committing, whatever the interleaving of the    *)
(* sessions, after an upgrade too.                                         *)
CleanAudit ==
    Quiet /\ faults = 0 => CheckChain(sidecars, head, log)

(* As long as the log verifies, a fault costs at most one thing: a         *)
(* manifest that head.hash never named, or one that the log never named.   *)
DamageBounded ==
    Quiet /\ VerifyLog(log) =>
        Cardinality(Orphans) + Cardinality(Published \ Logged) <= faults

(* A hash write_manifest_and_advance returned with Ok is part of the       *)
(* history that head.hash ends, and stays so.                              *)
AckedOnSpine == acked \subseteq Published

(* ... and an intact line of the log names it, unless verify_log refuses   *)
(* the log: an Ok whose line is missing never goes unnoticed.              *)
AckedLogged == VerifyLog(log) => acked \subseteq Logged

(* A short write can spoil the end of head.hash.log only: verify_log       *)
(* accepts the lines before the last one, in every state.                  *)
DamageAtTail ==
    log # <<>> => VerifyLog(SubSeq(log, 1, Len(log) - 1))

(* The intact lines of the log name manifests of the history in the order  *)
(* of the history.                                                         *)
LogFollowsSpine ==
    \A i, j \in DOMAIN log :
        /\ i < j
        /\ {log[i].manifest_hash, log[j].manifest_hash} \subseteq Hashes
        => \E k, l \in DOMAIN spine :
            /\ k < l
            /\ spine[k].this = log[i].manifest_hash
            /\ spine[l].this = log[j].manifest_hash

(* head.hash moves only to a manifest on disk that follows the hash it     *)
(* names now, so no reader that remembers an older head finds it gone.     *)
HeadAdvances ==
    [][head' # head =>
        \E m \in sidecars : m.this = head' /\ m.prev = head]_vars

(* A commit that returns Ok leaves head.hash and the log's tip in          *)
(* agreement, also when an earlier one died between the two; or else the   *)
(* log is one that verify_log refuses.                                     *)
AckHeals ==
    [][acked' # acked =>
        \/ log' # <<>> /\ HeadMatchesLog(head', log')
        \/ ~VerifyLog(log')]_vars

(* Once read_log_tip cannot parse the last line, no commit writes to the   *)
(* log again: the line stays the last one until an operator repairs it.    *)
UnreadableTailStays ==
    [][~LogTipReadable(log) => log' = log]_vars

(* A recorder that waits for the flock, or holds it, gets through its      *)
(* commit: no error path keeps the lock, and a dead holder does not.       *)
CommitEnds ==
    \A r \in Recorders :
        pc[r] \in Critical \cup {"acquire"} ~> pc[r] \in Stopped \cup {"between"}

(* The chain implements the ledger: the history is the spine.              *)
L == INSTANCE Ledger WITH history <- spine
LedgerSpec == L!Spec
-----------------------------------------------------------------------------
(* What a comment in the code claims and a fault refutes ********************)

(* "append a parallel run of manifests": a fork or a second genesis is     *)
(* what a rewrite looks like, so the recorders must leave none.            *)
ForksAreRewrites ==
    /\ Linked(sidecars)
    /\ Cardinality(GenesisManifests(sidecars)) <= 1
=============================================================================
