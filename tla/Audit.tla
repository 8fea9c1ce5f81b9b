------------------------------- MODULE Audit --------------------------------
(***************************************************************************)
(* One run of katagrapho-verify beside the recorders of Chain and the      *)
(* retention timer.  The tool takes no lock: it reads head.hash.log, then  *)
(* head.hash, then lists one per-user directory after another, and only    *)
(* then opens the recordings, while the others go on.                      *)
(*                                                                         *)
(* A recording has the name of its manifest's hash here.  A directory is   *)
(* listed at one moment: its names come from one getdents call, and a      *)
(* sidecar, complete from the rename on, is never removed.                 *)
(***************************************************************************)
EXTENDS Chain

VARIABLES
    files,          \* the recordings on disk, of parts that are open or done
    \* the auditor
    at,             \* what it reads next, or "idle" or "over"
    check_chain,    \* --check-chain was given
    target,         \* the one sidecar to verify, or Nothing for the storage
    tip,            \* log.tip_manifest_hash()
    expected_head,
    unlisted,       \* per-user directories it has not listed yet
    entries,        \* the manifests it collected
    recordings,     \* the recordings it collected
    unchecked,      \* the manifests it has not looked behind yet
    recording,      \* the recording it found on disk and opens next
    signed,         \* the recordings whose hash it compared
    verdict,
    \* what the properties talk about, and no code reads
    disturbed,      \* something was written or deleted during the audit
    unsigned        \* recordings left without a manifest when it began

disk_seen == <<tip, expected_head, unlisted, entries, recordings>>
progress == <<at, verdict>>
auditor == <<progress, check_chain, target, disk_seen, unchecked, recording,
             signed, unsigned>>
auditVars == <<vars, files, auditor, disturbed>>

(* One directory per user: here each session is a user's own, and the      *)
(* older build's one recording is in a directory by itself.                *)
Directories == Recorders \cup {OldManifest}

ASSUME DirectoryAssumption == OldManifest \notin Recorders

HashesIn(dir) ==
    IF dir = OldManifest THEN {OldManifest} ELSE {dir} \X Parts

Auditing == at \notin {"idle", "over"}

(* A part that is being recorded or committed.                             *)
InProgress(r) ==
    Mine(r) \in files /\ pc[r] \notin Stopped \cup {"between"}

Disturb ==
    disturbed' = (disturbed \/ (Auditing /\ <<disk, files>>' # <<disk, files>>))

(* The recordings whose session has ended without a manifest for them.     *)
LeftUnsigned ==
    {f \in files :
        /\ f \notin HashesOf(sidecars)
        /\ \A r \in Recorders : InProgress(r) => f # Mine(r)}

AuditInit ==
    /\ Init
    /\ files = HashesOf(sidecars)
    /\ at = "idle"
    /\ check_chain = FALSE
    /\ target = Nothing
    /\ tip = Nothing
    /\ expected_head = Nothing
    /\ unlisted = {}
    /\ entries = {}
    /\ recordings = {}
    /\ unchecked = {}
    /\ recording = Nothing
    /\ signed = {}
    /\ verdict = "none"
    /\ disturbed = FALSE
    /\ unsigned = {}
-----------------------------------------------------------------------------
(* The host ****************************************************************)

(* A session begins, or goes on, with openat of its part's file.           *)
OpenRecording(r) ==
    /\ pc[r] = "record"
    /\ Mine(r) \notin files
    /\ files' = files \cup {Mine(r)}
    /\ UNCHANGED <<vars, auditor>>
    /\ Disturb

HasOpened(r) == pc[r] = "record" => Mine(r) \in files

CommitStep(r) ==
    /\ Commit(r)
    /\ UNCHANGED <<files, auditor>>
    /\ Disturb

OtherStep(r) ==
    /\ Session(r) \/ Faulty(r)
    /\ HasOpened(r)
    /\ UNCHANGED <<files, auditor>>
    /\ Disturb

(* Bug: everything old is deleted, sidecars too.                           *)
PruneAll ==
    /\ \E f \in files :
        /\ \A r \in Recorders : InProgress(r) => f # Mine(r)
        /\ files' = files \ {f}
        /\ sidecars' = {m \in sidecars : m.this # f}
    /\ UNCHANGED <<lock, head, headTmp, log, spine, pc, mine, acked, faults, auditor>>
    /\ Disturb

(* find ... "*.age" -o "*.cast" -mtime +maxAgeDays -delete: a recording    *)
(* nobody has written to for that long; its sidecar stays.                 *)
Prune ==
    /\ \E f \in files :
        /\ \A r \in Recorders : InProgress(r) => f # Mine(r)
        /\ files' = files \ {f}
    /\ UNCHANGED <<vars, auditor>>
    /\ Disturb
-----------------------------------------------------------------------------
(* The auditor *************************************************************)

Exit(v) == at' = "over" /\ verdict' = v
Continue(next) == at' = next /\ UNCHANGED verdict

(* Started with a sidecar or the storage directory, and first of all, with *)
(* --check-chain, verify_log.                                              *)
StartAudit ==
    /\ at = "idle"
    /\ check_chain' \in BOOLEAN
    /\ \/ target' = Nothing
       \/ \E m \in sidecars : target' = m.this
    /\ IF check_chain' /\ ~VerifyLog(log) THEN Exit("log")
       ELSE Continue(IF check_chain' THEN "head" ELSE "list")
    /\ tip' = TipManifestHash(log)
    /\ unlisted' = Directories
    /\ disturbed' = \E r \in Recorders : InProgress(r)
    /\ unsigned' = LeftUnsigned
    /\ UNCHANGED <<vars, files, expected_head, entries, recordings, unchecked,
                   recording, signed>>

(* read_head, which may fail for want of permission, and the comparison of *)
(* head and log tip.                                                       *)
ReadExpectedHead ==
    /\ at = "head"
    /\ expected_head' \in {head, Nothing}
    /\ IF expected_head' = Nothing \/ tip = Nothing \/ expected_head' = tip
       THEN Continue("list") ELSE Exit("rewritten")
    /\ UNCHANGED <<vars, files, check_chain, target, tip, unlisted, entries,
                   recordings, unchecked, recording, signed, disturbed, unsigned>>

(* walk_collect goes into one more directory and loads the sidecars of it; *)
(* the loop over them begins after the last.                               *)
List(dir) ==
    /\ at = "list" /\ target = Nothing
    /\ dir \in unlisted
    /\ unlisted' = unlisted \ {dir}
    /\ entries' = entries \cup {m \in sidecars : m.this \in HashesIn(dir)}
    /\ recordings' = recordings \cup (files \cap HashesIn(dir))
    /\ unchecked' = entries'
    /\ Continue(IF unlisted' = {} THEN "check" ELSE "list")
    /\ UNCHANGED <<vars, files, check_chain, target, tip, expected_head,
                   recording, signed, disturbed, unsigned>>

(* ... or verify_single loads the sidecar that was named.                  *)
LoadSingle ==
    /\ at = "list" /\ target # Nothing
    /\ entries' = {m \in sidecars : m.this = target}
    /\ unchecked' = entries'
    /\ Continue("check")
    /\ UNCHANGED <<vars, files, check_chain, target, tip, expected_head,
                   unlisted, recordings, recording, signed, disturbed, unsigned>>

(* Bug: a manifest counts for its recording, on disk or not.               *)
RecordingForAny(m) == TRUE

(* recording_for: the file beside the sidecar, if there is one.            *)
RecordingFor(m) == m.this \in files

(* The signature of a manifest is good here; its recording is found on     *)
(* disk, or counts as pruned.                                              *)
LookBehind(m) ==
    /\ at = "check"
    /\ m \in unchecked
    /\ unchecked' = unchecked \ {m}
    /\ recording' = IF RecordingFor(m) THEN m.this ELSE Nothing
    /\ Continue(IF RecordingFor(m) THEN "hash" ELSE "check")
    /\ UNCHANGED <<vars, files, check_chain, target, disk_seen, signed,
                   disturbed, unsigned>>

(* sha256_file opens it by its name: it may be gone by now.                *)
HashRecording ==
    /\ at = "hash"
    /\ IF recording \in files
       THEN signed' = signed \cup {recording} /\ Continue("check")
       ELSE UNCHANGED signed /\ Exit("open recording")
    /\ UNCHANGED <<vars, files, check_chain, target, disk_seen, unchecked,
                   recording, disturbed, unsigned>>

(* Bug: the manifests are not checked as a chain.                          *)
ChainUnchecked == TRUE

ChainOK == check_chain => CheckSingleChain(entries, expected_head)

(* Bug: only what a manifest was found for is looked at.                   *)
UnsignedInEntries == (recordings \cap HashesOf(entries)) \ signed

UnsignedRecordings == recordings \ signed

(* The end of verify_recursive, and what main makes of its result.         *)
Conclude ==
    /\ at = "check" /\ unchecked = {}
    /\ Exit(IF target # Nothing THEN "verified"
            ELSE IF ~ChainOK THEN "chain"
            ELSE IF UnsignedRecordings # {} THEN "unsigned"
            ELSE "verified")
    /\ UNCHANGED <<vars, files, check_chain, target, disk_seen, unchecked,
                   recording, signed, disturbed, unsigned>>
-----------------------------------------------------------------------------
Auditor ==
    \/ StartAudit
    \/ ReadExpectedHead
    \/ \E dir \in Directories : List(dir)
    \/ LoadSingle
    \/ \E m \in unchecked : LookBehind(m)
    \/ HashRecording
    \/ Conclude

AllOver ==
    /\ at = "over"
    /\ \A r \in Recorders : pc[r] \in Stopped
    /\ UNCHANGED auditVars

AuditNext ==
    \/ \E r \in Recorders : OpenRecording(r) \/ CommitStep(r) \/ OtherStep(r)
    \/ Prune
    \/ Auditor
    \/ AllOver

AuditSpec == AuditInit /\ [][AuditNext]_auditVars
-----------------------------------------------------------------------------
(* An audit during which nothing is written or deleted, of a host without  *)
(* a fault, verifies: retention before it, an upgrade, an unreadable       *)
(* head.hash or sessions yet to come do not matter.  So every other        *)
(* verdict there is due to what went on meanwhile.                         *)
UndisturbedAuditVerifies ==
    at = "over" /\ faults = 0 /\ ~disturbed => verdict = "verified"

(* Whatever goes on during the walk, and whatever faults there were, the   *)
(* manifest head.hash named is among those collected: no race looks like a *)
(* truncation.  The sidecar is in place before head.hash names it, the     *)
(* auditor reads head.hash before it lists, and retention keeps sidecars.  *)
NoFalseTruncation ==
    at \in {"check", "hash"} /\ target = Nothing =>
        expected_head \in HashesOf(entries) \cup {Genesis, Nothing}

(* A verified chain is the history up to the head the auditor read, no     *)
(* more and no less, though it was collected piece by piece; and of every  *)
(* part still on disk the content was compared.                            *)
VerifiedIsHistory ==
    verdict = "verified" /\ check_chain /\ target = Nothing =>
        /\ expected_head \notin {Genesis, Nothing} =>
            \E k \in DOMAIN spine :
                /\ spine[k].this = expected_head
                /\ entries = {spine[i] : i \in 1 .. k}
        /\ HashesOf(entries) \cap files \subseteq signed

(* A recording that a fault left without a manifest before the audit began *)
(* makes the walk fail as long as it is on disk, with or without           *)
(* --check-chain: it is a finding, not a gap.                              *)
UnsignedFound ==
    verdict = "verified" /\ target = Nothing => unsigned \cap files = {}

(* "they cannot legitimately disagree.  If they do, one of the two was     *)
(* edited afterwards": a commit during, or between, the auditor's two      *)
(* reads makes them disagree as well.                                      *)
DisagreementIsEdit == faults = 0 => verdict # "rewritten"
=============================================================================
