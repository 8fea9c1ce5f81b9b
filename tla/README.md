# A verification of katagrapho

katagrapho records terminal sessions: a proxy (epitropos) writes one JSON record
per line to its stdin, and it stores them encrypted, in parts of limited size,
signs a manifest for every part and links the manifests of a host into one chain
that an auditor can check with `katagrapho-verify`. This directory holds TLA+
models of it, what TLC checks of them, and what TLAPS proves.

## The system

| component | state | operations | what is hard |
|---|---|---|---|
| recorder (`src/src/main.rs` `run`, `process_part`, `run_part_loop`) | the part it writes, byte counters, header seen, why the part ended, hash of the previous part; `SHUTDOWN` | start, open a part, read and store a record, stop at a limit, an end record, a signal or end of file, finish, sign, rotate | signals between read and write; two limits and an inherited one; failing calls at every point; the link across an unsigned part |
| stream reader (`stream.rs`) | the pipe | next record, end of file, unreadable line | end of file against records still in the pipe |
| finalizer (`finalize.rs`) | `FINALIZE_FAILED` | `finish()`, the same from `Drop` | `Drop` cannot return an error |
| chain (`chain.rs`, `write_manifest_and_advance`) | `head.hash`, `head.tmp`, `head.hash.log`, the flock, the sidecars | lock, read head, write sidecar, write head (tmp, rename), read log tip, append log, unlock | many processes per host; a death, an error or a short write between any two calls; hosts upgraded from a build with an unsigned log; a power loss between the fsyncs |
| verifier (`verify.rs`, `bin/katagrapho-verify.rs`) | what it has read so far | verify the log, compare it with the head, collect manifests and recordings, hash the recordings, verify the manifests as one chain | every shape the files may have; it takes no lock and the files change while it reads |
| key generation (`bin/katagrapho-keygen.rs`, `signing.rs`) | `signing.key`, `signing.pub`, `signing.tmp` | generate, rebuild the public half, chown | a crash between two renames; a renamed account; a key that must never be replaced |
| retention (`nixos-module.nix`) | recordings | delete old recordings, keep sidecars | runs beside recorders and the verifier |
| startup (`main.rs`, `kata_config.rs`) | limits, uid, environment | straight-line setup | the inherited `RLIMIT_FSIZE` |
| timestamps (`main.rs` `days_to_ymd`) | none | days to a date | leap years, centuries |

The recorders of a host interact only through the chain's files, under
`head.hash.lock`. A recorder calls the chain once per finished part
(`write_manifest_and_advance`); an error there is logged and the session goes on.
The verifier reads the same files without the lock, and retention deletes
recordings without it. The proxy and the recorder share a pipe. keygen writes the
key that every recorder loads at the start of a session; without one it records
unsigned.

What makes each correct: the recorder loses no record it read, signs only
finished parts and ends when the proxy does; the chain is one history that only
grows, whatever faults occur, and an `Ok` means the manifest is in it, after a
power loss too; the verifier accepts exactly the sets of files that are one
history, and what goes on beside it makes it accept nothing else; a key that has
signed is never replaced and a broken run of keygen is mended by the next; the
calendar is the calendar.

## The modules

| module | models | built on |
|---|---|---|
| `Verify` | the verdicts of `--check-chain`, as operators on a set of manifests, the lines of a log and a head: `VerifyLog`, `HeadMatchesLog`, `CheckSingleChain`, `CheckChain` | |
| `Chain` | the recorders of a host over the chain's files, one action per call | `Verify` |
| `Ledger` | what the chain promises: one history that grows at its end, and acknowledgements | |
| `MCChain` | instances of `Chain` and of its inductive invariant | `ChainProofs` |
| `Audit`, `MCAudit` | one run of `katagrapho-verify`, read by read, composed with the recorders of `Chain` and the retention timer | `Chain` |
| `Durable` | the disk below the chain: entries, contents and lines that survive a power loss | |
| `Recorder`, `MCRecorder` | one recorder over its parts, with the proxy and SIGTERM | |
| `Keygen` | `katagrapho-keygen` and the sessions that load its key | |
| `VerifyInputs`, `MCVerify` | all small inputs of the verdicts, and what the verdicts should be | `Verify` |
| `Calendar` | `days_to_ymd` against a calendar counted day by day | |
| `VerifyProofs` | lemmas: induction on sets of naturals, the walk of `check_single_chain`, and what it accepts | `Verify`, TLAPS |
| `ChainProofs` | theorems: the history and the lock of `Chain`, `Ledger`, `head.hash.log`, what the verdicts say of its states | `Chain`, `VerifyProofs` |
| `AuditProofs` | theorems: the auditor beside recorders and retention | `Audit`, `ChainProofs` |
| `InputsProofs` | theorems: the verdicts on arbitrary manifests and logs | `VerifyInputs`, `VerifyProofs` |
| `RecorderProofs`, `KeygenProofs` | theorems about one recorder, and about keygen | `Recorder`, `Keygen`, TLAPS |
| `DurableProofs` | theorems: what survives power losses | `Durable`, TLAPS |
| `CalendarProofs` | theorem: `days_to_ymd` is the calendar | `Calendar`, TLAPS |

### Chain

`pc[r]` is the call recorder `r` makes next; every action is named for what the
call does, and the labels from `read_head` to `unlock` are the span of `_lock` in
`write_manifest_and_advance`. `WriteHeadTmp` and `RenameHead` are the two halves
of `write_head`, `ReadLogTip` and `AppendLog` those of `append_log`. A hash is a
pair of recorder and part: the file of a part is created with `O_EXCL`, so the
pair is used once, and the manifest's content holds it. `prev` and `logPrev` are
the head and the log tip a recorder has read; `disk` is what others see.

Three kinds of fault may come between any two calls, at most `MaxFaults` in a
behaviour: `Crash` (the process dies, the kernel frees the flock), `CallFails`
(an error returned by any call; an `fsync` that fails after its write took effect
is the failure at the next label), `AppendFails` (a short write of the log line,
from ENOSPC or EFBIG). What a short write leaves is abstracted to what the two
parsers tell apart: the whole line without its newline, a line of eight fields
whose signature is cut, five fields (read as an unsigned line of an older build),
another number of fields. The next `O_APPEND` write continues an unterminated
tail. `spine`, `acked` and `faults` are history variables: no action's guard reads
them except the bound on `faults`.

A host starts fresh or with the one manifest and unsigned log line of an older
build (`UpgradedHost`), because a signed log starts again from genesis there.

### Audit

The steps of `Chain` go on, with `files` for the recordings; `Audit` adds the
retention timer (`Prune`) and one run of the verifier. `at` is what it reads next:
the log (`StartAudit`), `head.hash` (`ReadExpectedHead`), one per-user directory
after another (`List`), or the one sidecar it was given (`LoadSingle`); then for
each manifest whether its recording is there (`LookBehind`) and its hash
(`HashRecording`, which opens the file by name and may find it gone); then
`Conclude`. Between any two of these the others run. A directory's listing is one
step: its entries come from one `getdents` call, sidecars are complete when they
get their name and are never removed. Manifests and recordings are abstracted to
their hashes, so a signature or a content that does not verify is not in the
model; `disturbed` and `unsigned` are there for the properties only.

### Durable

The flock makes commits one after the other, so `Durable` has one sequence of
`Calls`, those of one part, and numbers the parts in that order. `pending` holds,
for each volume, the directory entries made and not yet durable, `written` the
files whose content was synced. A head is the number of the part it names, and
`prev` gives for each part the head its manifest follows. An fsync of a file makes
its content durable, one of a directory the entries made there before: that is what
the code counts on. One thing is assumed beyond it, that entries of one volume
become durable in the order in which they were made, whichever directory they are
in, any number of them at a power loss (`Writeback` steps before `PowerLoss`). The
journals of ext4 and xfs give this order; btrfs does not promise it across
directories, and `HeldOnOneVolume` rests on it. Content that was not synced may be
lost and unsynced lines of the log are cut at any line. A log cut within a line is the short write of `Chain`.

### Recorder

`pc` is the phase of the loop over parts: `start` (the limits of the config),
`open` (openat, recipients, the header of a part after the first), `read` (one turn
of `run_part_loop`), `finish` (`finish()`, the check for a header, `sync_all`),
`sign` (`write_manifest_and_advance` and the branch on `PartNext`), or how the
process ended. A record is a kind, a length and its place in the stream. Lengths
are units; `Chunk` units are one block of age's stream, which stays in memory until
the next begins. `OnDisk` is what a file of `n` units of plaintext has on disk before
`finish()`, and `FullSize` after it: age's header (`AgeHeader`), the blocks, and a
`Tag` for each, 16 bytes per 64 KiB in the code, so that a part of 512 MiB is some
128 KiB longer on disk. `Room` is what they leave of the 1 MiB between part size
and `RLIMIT_FSIZE`. `FileLimit` is
`RLIMIT_FSIZE`, what the process wants or what it inherited: a write past it fails
with EFBIG, and in Drop `finish()` fails then too. With `IoErrors` any write, open,
sync or setup call may also fail and the process may be killed. A record that is
not JSON, has no kind or is too long is one kind, `bad`; an end record gives a
reason of its own or "eof".

### Keygen

`pc` is the call of `main`, `generate_to`, `write_public_to` or
`chown_key_material` that comes next. `versions` are the states of the key's
directory from the durable one to the visible one; a power loss goes back to the
first, an fsync of the directory forward to the last. In the default layout a
recorder's commit makes that fsync, since `head.hash` is in the same directory;
with `moved` nobody does. A file has the key it belongs to, a mode and an owner.
Around keygen: its unit, started again at any time; an account that does not exist
yet or is renamed; a config that does not parse; a public half that is removed;
sessions that load the key and sign with it.

### Verify

SHA-256 is taken as injective and signatures as unforgeable: a manifest is the
hash it has and the hash it follows, and a log line has a flag that says whether
its digest and signature check. The walk of `check_single_chain` is the function
`WalkFrom`; it ends well when the genesis manifest is met after exactly as many
steps as there are manifests. `head` is `Genesis` when `head.hash` is absent and
`Nothing` when it cannot be read, in which case the tool skips the comparison.

The definitions whose comment begins with "Bug:" are mutated forms of the one
below them. No model uses them; each shows that some property can fail, in the
way a mistake in that code would make it fail (`PROJECT.json`, "mutants").

## What is checked

| run | instance | shows |
|---|---|---|
| `chain_faults` | 2 recorders, 2 parts each, 2 faults of every kind; 130 k states | `HistoryIntact`, `AckedOnSpine`, `HeadAdvances`, `IInv`, `LedgerSpec` (refinement). `QuietAudit`: when nobody commits, the manifests pass exactly when no fault left one off the history. `CleanAudit`: without a fault the whole check passes, for every interleaving, and after an upgrade. `DamageBounded`: a fault costs one manifest or one log line at most. `AckedLogged`, `AckHeals`: an `Ok` means a log line, and head and log in agreement, or a log that is refused. `LogFollowsSpine`, `DamageAtTail`: short writes spoil the last line only; `UnreadableTailStays`: and then, with an odd number of fields, the log takes no more lines. `CommitEnds`: no error path or death keeps the flock |
| `audit` | 2 recorders with a part each, 1 crash or failed call, any number of deletions; 2.0 M states | `NoFalseTruncation`: whatever goes on, the manifest that `head.hash` named is among those collected. `VerifiedIsHistory`: a verified chain is the history up to that head exactly, though it was collected piece by piece. `UnsignedFound`: a recording left without a manifest before the audit is reported. `UndisturbedAuditVerifies`: so every other verdict on a host without faults comes from what went on during the audit |
| `durable` | 4 parts, 3 power losses, one volume and two; 0.79 M states | `FilesWhole`, `LogNeverAhead`, `AckedSurvives`, and `HeldOnOneVolume`: the fsync of the chain's directory carries the sidecars with it if they are on its volume and the volume keeps its entries in order |
| `recorder` | up to 4 records of lengths 1 and 5; part limit 4 or 1 (which a header alone fills), session limit 12, and a section for each reason to refuse one; age's header 2, its tag 1, blocks of 7; wanted file limit 9, inherited 1 (less than age's header), 4 or 9; errors and kills; 1.4 M states | `NoRecordLost`, `EofIsComplete`, `PartsFollow`, `OvershootOneRecord`. `SignedIsFinal`: a signed part has a header and is complete on disk. `LimitNeedsLongRecord`: with the limit the process wants, only a record longer than `Room` takes a part past it; `EndsAfterClose`, `SignalEndsBusySession` |
| `keygen` | 3 faults or interventions, two names of the account, both layouts; 0.48 M states | `KeyFilesSound`: no crash leaves a pair that does not match or a wrong mode. `SignedKeySurvives`: the key of an acknowledged manifest is never replaced, nor lost in the default layout. `ReadyAfterSuccess`, `EventuallyReady` |
| `verify_verdicts` | all sets of manifests over 4 hashes with missing files and one copy, every head; all logs of up to 4 lines over the host's three, each of them as written, edited or stripped, and an older build's | `ManifestVerdictRight`, `LogVerdictRight`: the verdicts agree with definitions that know nothing of the algorithm; a log of the host in which lines lost their signatures where they stand is refused when some of them did, and accepted when all did (`StrippedAllOrNone`, part of `LogVerdictRight`). `TailAnchored`: a log cut at its end is caught by `head.hash`, as long as a signed line is left in it |
| `calendar` | 1970-01-01 to 2408 | `DateRight`: across 2000, 2100 and 2400 |

Why the bounds are enough. A fork takes two writers and one fault; a fault on top
of the damage of another takes two, and the fourth part then commits on top of
both. Part numbers matter only by being equal or not. (The safety properties of
`chain_faults` were also checked once with three parts each, 0.66 M states.) The auditor
reads each file once, so one commit before, between and after its reads is what
can differ; two sessions give it two directories to find in different states. In
`durable` a loss can leave the head, a later part continues from it, and another
loss then comes on top. In the recorder the limit 4 with lengths 1 and 5 gives
parts that end below, at and past it, and the limit 1 parts whose repeated header
reaches it, so that each holds one record; of the slack of 5 age leaves 1 (`Room`),
so that a record no longer than the slack takes an encrypted part past `FileLimit`
and a short one does not (in the code 1 MiB of slack, records of up to 16 MiB); the session limit allows a third part and is reached within a part. Three
faults of keygen are a crash that leaves `signing.tmp`, a loss that takes back a
rename, and a renamed account on top. In the verdicts four hashes hold a fork with
a common start and end, a cycle beside a chain, and two chains.

Symmetry is used over recorders in `audit` only, which checks no temporal
property.

Deadlock is checked in every run: the stuttering actions (`AllStopped`, `AllOver`,
`Ended`, `Finished`, `Done`, `LastOne`) are the states in which the system is
finished.

### Fairness

`FairSpec` of `Chain` is weak fairness of each live recorder's commit: a process
that is scheduled keeps making calls, and a commit is straight-line code. That
`flock` is not starved needs no strong fairness here, as each recorder has
finitely many parts. Nothing says a session ends. `FairSpec` of `Recorder` is weak
fairness of the process; the proxy need not write or close, and no signal need
come. `FairSpec` of `Keygen` is weak fairness of a running keygen and of its being
started again, which is what its unit does at every boot, and of the operator, who
makes the configured account exist and the config readable.

### What the documentation says and the code does not do

Five runs end in a counterexample; each property is a sentence of the source.

* `chain_forks` (`ForksAreRewrites`): the sidecar is in place before `head.hash`
  moves, so one failed call or death between `main.rs:1171` and `1173` leaves an
  orphan, and the next commit follows the same predecessor. The verifier refuses
  this host's manifests for good, and calls it a fork, which `verify.rs:168`
  takes for a rewrite.
* `audit_alarm` (`DisagreementIsEdit`): `bin/katagrapho-verify.rs:163` says head and
  log "cannot legitimately disagree". The verifier reads them without the lock, so
  a commit between its two reads makes it report a rewrite, on a host without any
  fault. A death between the two writes makes them disagree until the next commit
  (`AckHeals` shows that it then ends).
* `durable_head` (`HeadIsHeld`): `chain.rs:105` fsyncs so that the chain is not
  anchored "at a hash nothing holds". The sidecar's rename is not followed by an
  fsync of its directory: with recordings on another volume than the chain, a power
  loss leaves `head.hash` naming a manifest that is gone.
* `recorder_signal` (`SignalEndsSession`): SIGTERM does not end a session whose
  proxy is idle, since the read restarts.
* `recorder_flag` (`FailedFinalizeReported`): every path that sets
  `FINALIZE_FAILED` leaves `run()` before the line that looks at it. The trace is
  one record longer than `Room`, past `RLIMIT_FSIZE`; it shows too that after EFBIG `finish()` in
  `Drop` fails with EFBIG again, against `main.rs:548`.

A sixth sentence goes further than the code, and has no run of its own because
`LogVerdictRight` says, and `InputsProofs` proves, where the line is.
`src/README.md:107` has it that lines without a signature are accepted only as a
contiguous prefix, "so nobody can strip the signatures off newer lines and pass them
off as old records" (likewise `chain.rs:21`). A line without a signature is refused
after a signed one (`chain.rs:333`), and a signed one whose predecessors were
stripped does not link to genesis; but nothing says where a host's signed lines
begin. A log stripped of all its signatures is accepted and reported as written by a
build without log signing, and `head.hash` agrees with its last line.

Limits of the properties that hold. Before the first commit there is no
`head.hash` to anchor the walk, so `QuietAudit` leaves that state out: one orphan
then reads as a whole history. `AckedLogged`, `AckHeals` and `DamageBounded` speak
of logs that `verify_log` accepts: when an earlier line lacks its newline, a commit
returns `Ok` although its line has become part of that one, and the log is refused
from then on. `LogVerdictRight` takes every unsigned line at the start of a log for
an older build's, as the code does, and `TailAnchored` asks for a signed line: a log
that was emptied or stripped entirely is outside it. `Prune` deletes no recording of a part in progress: a session idle
for longer than `maxAgeDays` within one part would lose it. `SignedKeySurvives`
holds in the default layout only: with the key in a directory of its own a power
loss can take a new key that has signed.

## What is proved

For every value of the constants (any set of recorders, number of parts, faults,
records, limits, power losses, hashes, log lines, days), every safety invariant and
every action property that the passing runs check, and that `Chain` implements
`Ledger`:

| module | theorems | invariant they rest on |
|---|---|---|
| `ChainProofs` | `TypeCorrect`, `HistoryAlwaysIntact`, `AckedAlwaysPublished`, `HeadOnlyAdvances`, `ImplementsLedger` (`Spec => LedgerSpec`) | `IInv` (`Invariance`) |
| | `LogAlwaysFollowsSpine`, `DamageAlwaysAtTail`, `AckedAlwaysLogged`, `AckAlwaysHeals`, `UnreadableTailAlwaysStays` | `IInv`, `LogInv` |
| | `DamageAlwaysBounded`, `QuietAuditAlways`, `CleanAuditAlways` | these, `DamageInv`, `SpineDistinct`, `CleanLog` |
| `AuditProofs` | `UndisturbedAuditAlwaysVerifies`, `NeverFalseTruncation`, `VerifiedAlwaysHistory`, `UnsignedAlwaysFound`; `AuditKeepsChain` | all of these (`AtRest`), `AuditInv` |
| `RecorderProofs` | `RecorderTypeCorrect`, `NoRecordEverLost`, `EofAlwaysComplete`, `SignedAlwaysFinal`, `PartsAlwaysFollow`, `OvershootAlwaysBounded`, `LimitAlwaysNeedsLongRecord` | `RInv` |
| `KeygenProofs` | `KeyFilesAlwaysSound`, `ReadyAlwaysAfterSuccess`, `SignedKeyAlwaysSurvives` | `KInv` |
| `DurableProofs` | `FilesAlwaysWhole`, `LogAlwaysBehindHead`, `AckedAlwaysSurvives`, `HistoryAlwaysHeld` | `DInv` |
| `InputsProofs` | `ManifestVerdictAlwaysRight`, `LogVerdictAlwaysRight`, `TailAlwaysAnchored` | `InputsInv` (`VerdictInvariance`), and `ChainIsHistory` of `VerifyProofs` |
| `CalendarProofs` | `DateAlwaysRight` | `DaysToYmd(day) = date` and its step, `NextDateRight` |

Assumed are the `ASSUME`s of the modules: the sentinels are no hashes
(`GenesisAssumption`, `ChainAssumption`, `DirectoryAssumption`), bounds are
naturals, of `VerifyInputs` that a directory holds finitely many hashes and that no
two lines the host wrote have the same hash (a hash is that of one part's manifest),
and of `Recorder` that no header line (16 MiB at most, `stream.rs:88`) is
longer than `MAX_FILE_SIZE`, and that `MIN_PART_BYTES` (`main.rs:49`) is not zero.

*History.* `HistoryIntact` is not inductive: that `RenameHead` extends the history
needs to know that the head is still what the recorder read (`PrevInv`), that
`head.tmp` holds its own hash (`TmpInv`), that its manifest is on disk with that
predecessor and not published (`PendingInv`), that no other manifest has the same
hash (`UniqueInv`, which `WriteSidecar` keeps because of `FreshInv`), and all these
survive the steps of others because only one recorder is inside (`LockInv`). An
acknowledged hash is published because it is the head until the lock is dropped
(`DoneInv`). There is one lemma per action that changes shared state, `OneInside`
for what the lock gives, and one for the rest. `ImplementsLedger` adds that
`RenameHead` is `Extend`, `Unlock` is `Acknowledge` or a stutter, and every other
step a stutter.

*Log.* By `LogInv` every line but the last is whole (`FrontInv`), a last line with
its newline is whole or has a number of fields that nobody parses (`TailInv`), and
a recorder between the two halves of `append_log` has read the tip that is there
(`WriterInv`). `AckHeals` and `UnreadableTailStays` are then single steps.

*Verdicts.* The walk of `check_single_chain` is a recursive function. `VerifyProofs`
proves induction for sets of naturals, which the provers apply to
`{n \in Nat : ...}`; with it `WalkFromStep` shows that the function exists and obeys
its definition, and `WalkAlong` that on the manifests of a history it goes back
through them one by one. `ChainIsHistory` says what the check is for: it accepts a
finite set of manifests exactly when they are one history, each hash once, that
ends at the head if the head is known. A history is accepted because its walk
passes them all and only its last manifest is a tip. The other way round the
manifests the walk met, in reverse, are a history (`WalkIsHistory`): a manifest met
twice would close a cycle and the walk would not have reached genesis
(`LinksDistinct`), and as many different ones as there are manifests are all of
them. For the states of `Chain`, `ChainVerdict` adds that the
manifests of a history plus some others pass exactly when there are no others, and
`DamageInv` counts, for every manifest that is not of the history and every line
that is not whole, a fault that made it.

*Arbitrary inputs.* `InputsInv` says that the verdict is that of the checks on an
input that does not change. `ManifestsJudged` then turns the history of
`ChainIsHistory` into the order that `OneHistory` asks for, and back. For the log,
`VerifiedIsPrefix` goes from line to line: what `verify_log` accepted so far is
unsigned lines and then the host's, and since the lines the host wrote differ, the
next signed line can only be the one that follows. `PrefixIsVerified` is the
converse. In a log of the host's lines whose first signed one must be the host's first, no
stripped one can stand before it or after it (`StrippedShows`). With the last line's hash in `head.hash` the prefix is the whole log.

*Audit.* `AuditKeepsChain` makes every theorem of `Chain` one of `AuditSpec`.
`AuditInv` says that a directory that was listed contains the manifests of the
history up to the head that was read (the sidecar is in place before `head.hash`
names it), so that a chain that verifies can only be that history.

*Recorder.* `RInv` ties the files, the counters and the pipe: the shape of the
sequence of parts at each phase (`ShapeInv`), the bytes counted so far against the
two limits (`SizeInv`), the places of the stored records as one prefix of the
stream (`PlaceInv`) and what an "eof" stands for (`EofInv`). For
`LimitAlwaysNeedsLongRecord`, `OverheadGrows` says that age adds no less to a longer
file, so that what it adds to a file of the wanted limit bounds it for every part
that ends within `Room` of the part limit (`RoomSuffices`).

*Keygen.* `KInv` says of every version of the directory, the durable one to the
visible one, what halves it holds and that they match, of keygen what it has read
at each label, and of the recorders which key they may have signed with.

*Durable.* `FreshInv` says how far the part being recorded has come, `OrderInv`
that an entry is never durable, or written out, before one it needs on its volume,
`WholeInv` that names are given to synced contents only, `HeadInv` that every
earlier head one can see is durable and that they make one history, which holds
the log, and `LogInv` that an acknowledged line is synced. Histories are again a
recursive function (`HistorySteps`, `HistoryEarlier`).

*Calendar.* Years are taken to begin in March. `EraOfDay` gives every day a place:
era of 400 years, century, cycle of four years, year, day, with a 366th day only in
the last year of a cycle that is not the last of its century, or is the last of the
era. `YearOfDay` shows that the formula of `days_to_ymd`, with its three
corrections, finds the year of that place, `DateOfDay` the day in it, `MonthOfDay`
that `(5 * doy + 2) / 153` is the table of the months, and `LongYears` that the 366th
day is 29 February of a leap year. `NextIsDay` goes from a place to the next, and so
the date goes on as the calendar does. The integers of the model are unbounded: an
`i64` of days lasts longer than the clock that is read.

Each inductive invariant was checked with TLC before it was proved; that of `Chain`
is part of the run `chain_faults`. Two things came out of proving. One property of
`Recorder` was false at values of the constants the first instance did not have: a
header that fills a part leaves room for one record in every part after the first,
so such a part may pass its limit by more than a record (`OvershootOneRecord` says
so now, and `recorder` has a configuration with it). And where the code tests
conditions in turn the model now does so too (IF chains in `Stops` and `CheckLog`),
since a CASE whose guards overlap leaves the choice open.

Only model-checked is liveness (`CommitEnds`, `EndsAfterClose`,
`SignalEndsBusySession`, `EventuallyReady`): ENABLED and fairness are out of the
prover's reach. The properties that five runs refute have their counterexamples.

## What is not modelled

* Manifests, log lines or recordings that somebody edited, except as inputs of
  `verify_verdicts`; a recording whose content does not hash to its manifest.
* Left-over `.tmp` sidecars (no reader looks at them), log rotation (there is
  none), the content of manifests and headers, syslog.
* Privileges, environment, argument and directory checks, configuration parsing,
  error codes: no interleaving or failure there outlives the process. The limits
  `run()` enforces on the configuration are in `Recorder`, a config that does not
  parse and a moved key in `Keygen`.
* Two runs of keygen at once: its unit is a oneshot, and nothing else starts it.
  Key and public half on different volumes.
* age, SHA-256, ed25519, the kernel: external, modelled from how they are used.
* Dates before 1970.

## Plan

Done, in this order: the models `Verify`, `Chain`, `Ledger`, `Recorder`,
`VerifyInputs`, `Calendar`, `Audit`, `Durable`, `Keygen`; the proofs `ChainProofs`,
`AuditProofs`, `RecorderProofs`, `KeygenProofs`, `DurableProofs`, `VerifyProofs`,
`InputsProofs`, `CalendarProofs`. No safety property of the models is without a
proof. What could still be added are two runs of keygen at once, which nothing
starts, and the liveness proofs, when the prover can do them.
