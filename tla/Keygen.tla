------------------------------- MODULE Keygen -------------------------------
(***************************************************************************)
(* The signing key: katagrapho-keygen, run at every boot and by the        *)
(* operator, and the recorders that load the key at the start of a session *)
(* and sign with it, or record without a manifest when they cannot.        *)
(*                                                                         *)
(* signing.key and signing.pub share a directory, and so one temporary     *)
(* name, signing.tmp.  By default it is the directory of head.hash.  What  *)
(* is done to it becomes durable in that order, at an fsync of the         *)
(* directory or sooner or later: a power loss takes it back to an earlier  *)
(* version.  Content is synced before it gets its name.                    *)
(***************************************************************************)
EXTENDS Integers, Sequences, SequencesExt

CONSTANTS
    Accounts,       \* the names the recorder account may have
    MaxFaults       \* bound: crashes, power losses, failing calls, and
                    \* operators who rename, remove or mistype something

ASSUME KeygenAssumption ==
    /\ Accounts # {} /\ "root" \notin Accounts /\ "nobody" \notin Accounts
    /\ MaxFaults \in Nat

VARIABLES
    \* the host
    moved,          \* the config puts the key into a directory of its own
    broken,         \* the config file does not parse
    account,        \* the configured recorder account
    exists,         \* ... which has a uid
    versions,       \* the key's directory: what is durable, ..., what one sees
    made,           \* how many keys were generated
    faults,
    \* the run of keygen
    pc,             \* the call it makes next, or "off"
    owner_user,     \* its --user
    kp,             \* the key pair it loaded or generated
    exit,           \* how the last run ended, "none" after an intervention
    \* the recorder of a session
    loaded,         \* the key it loaded, or NoKey
    signed          \* keys of the manifests whose commit returned Ok

env == <<moved, broken, account, exists>>
run == <<pc, owner_user, kp, exit>>
recorder == <<loaded, signed>>
vars == <<env, versions, made, faults, run, recorder>>

NoKey == 0
NoFile == [id |-> NoKey, mode |-> "none", owner |-> "nobody"]
EmptyDir == [key |-> NoFile, pub |-> NoFile, tmp |-> NoFile]

dir == Last(versions)

Init ==
    /\ moved \in BOOLEAN
    /\ broken \in BOOLEAN
    /\ account \in Accounts
    /\ exists \in BOOLEAN
    /\ versions = <<EmptyDir>>
    /\ made = 0
    /\ faults = 0
    /\ pc = "off"
    /\ owner_user = account
    /\ kp = NoKey
    /\ exit = "none"
    /\ loaded = NoKey
    /\ signed = {}

Change(new) ==
    versions' = IF new = dir THEN versions ELSE Append(versions, new)

Goto(from, to) == pc = from /\ pc' = to
-----------------------------------------------------------------------------
(* keygen ******************************************************************)

Exit(code) == pc' = "off" /\ exit' = code

(* The unit starts, with the account the host has now; the config is read. *)
StartKeygen ==
    /\ pc = "off"
    /\ owner_user' = account
    /\ IF broken THEN Exit("78") ELSE pc' = "look" /\ exit' = "none"
    /\ UNCHANGED <<env, versions, made, faults, kp, recorder>>

(* Bug: a key without its public half is replaced.                         *)
RotateIfHalf == IF dir.pub = NoFile THEN "generate" ELSE "chown key"

(* Bug: a key is generated whether or not there is one.                    *)
RotateAlways == "generate"

(* Bug: there is a key, so there is nothing to repair in its public half.  *)
NoRebuild == IF dir.key = NoFile THEN "generate" ELSE "chown key"

(* An existing key is kept, a missing public half rebuilt from it.         *)
WhatToDo ==
    IF dir.key = NoFile THEN "generate"
    ELSE IF dir.pub = NoFile THEN "write pub" ELSE "chown key"

Look ==
    /\ Goto("look", WhatToDo)
    /\ kp' = dir.key.id
    /\ UNCHANGED <<env, versions, made, faults, owner_user, exit, recorder>>

(* open(O_CREAT | O_TRUNC, mode) of signing.tmp: a file left there keeps   *)
(* its mode and owner.                                                     *)
TmpFile(id, mode) ==
    IF dir.tmp = NoFile THEN [id |-> id, mode |-> mode, owner |-> "root"]
    ELSE [dir.tmp EXCEPT !.id = id]

(* generate_to: a new key, written and synced under the temporary name ... *)
WriteKey ==
    /\ Goto("generate", "rename key")
    /\ made' = made + 1
    /\ kp' = made'
    /\ Change([dir EXCEPT !.tmp = TmpFile(made', "0400")])
    /\ UNCHANGED <<env, faults, owner_user, exit, recorder>>

(* ... and renamed.                                                        *)
RenameKey ==
    /\ Goto("rename key", "write pub")
    /\ Change([dir EXCEPT !.key = dir.tmp, !.tmp = NoFile])
    /\ UNCHANGED <<env, made, faults, owner_user, kp, exit, recorder>>

(* write_public_to, of a generated or of a loaded key.                     *)
WritePub ==
    /\ Goto("write pub", "rename pub")
    /\ Change([dir EXCEPT !.tmp = TmpFile(kp, "0444")])
    /\ UNCHANGED <<env, made, faults, owner_user, kp, exit, recorder>>

RenamePub ==
    /\ Goto("rename pub", "chown key")
    /\ Change([dir EXCEPT !.pub = dir.tmp, !.tmp = NoFile])
    /\ UNCHANGED <<env, made, faults, owner_user, kp, exit, recorder>>

(* getpwnam and getgrnam find the account keygen was started for.          *)
AccountFound == exists /\ owner_user = account

(* Bug: the result of chown is not looked at.                              *)
ChownKeyUnchecked ==
    /\ Goto("chown key", "chown pub")
    /\ Change(IF AccountFound THEN [dir EXCEPT !.key.owner = owner_user] ELSE dir)
    /\ UNCHANGED <<env, made, faults, owner_user, kp, exit, recorder>>

(* chown_key_material, the first chown ...                                 *)
ChownKey ==
    /\ pc = "chown key"
    /\ IF AccountFound
       THEN /\ pc' = "chown pub"
            /\ Change([dir EXCEPT !.key.owner = owner_user])
            /\ UNCHANGED exit
       ELSE Exit("73") /\ UNCHANGED versions
    /\ UNCHANGED <<env, made, faults, owner_user, kp, recorder>>

(* ... and the second.                                                     *)
ChownPub ==
    /\ pc = "chown pub"
    /\ IF dir.pub = NoFile THEN Exit("73") /\ UNCHANGED versions
       ELSE Exit("0") /\ Change([dir EXCEPT !.pub.owner = owner_user])
    /\ UNCHANGED <<env, made, faults, owner_user, kp, recorder>>
-----------------------------------------------------------------------------
(* The recorder ************************************************************)

(* KeyPair::load, as the recorder account: its own key, which a public     *)
(* half, if there is one, matches.                                         *)
Loadable ==
    /\ dir.key # NoFile /\ dir.key.owner = account
    /\ dir.pub # NoFile =>
        /\ dir.pub.mode = "0444" \/ dir.pub.owner = account
        /\ dir.pub.id = dir.key.id

(* run() loads the key once, at the start of a session.                    *)
StartSession ==
    /\ ~broken /\ exists
    /\ loaded' = IF Loadable THEN dir.key.id ELSE NoKey
    /\ UNCHANGED <<env, versions, made, faults, run, signed>>

(* fsync_dir of the chain's directory.                                     *)
ChainDirSynced == IF moved THEN versions ELSE <<dir>>

(* A commit that returns Ok; without a key there is none.                  *)
SignPart ==
    /\ loaded # NoKey
    /\ signed' = signed \cup {loaded}
    /\ versions' = ChainDirSynced
    /\ UNCHANGED <<env, made, faults, run, loaded>>
-----------------------------------------------------------------------------
(* The host ****************************************************************)

(* External: the file system writes back the oldest change.                *)
Writeback ==
    /\ Len(versions) > 1
    /\ versions' = Tail(versions)
    /\ UNCHANGED <<env, made, faults, run, recorder>>

(* sysusers or the activation of the system creates the account.           *)
CreateAccount ==
    /\ ~exists
    /\ exists' = TRUE
    /\ UNCHANGED <<moved, broken, account, versions, made, faults, run, recorder>>

FixConfig ==
    /\ broken
    /\ broken' = FALSE
    /\ UNCHANGED <<moved, account, exists, versions, made, faults, run, recorder>>

Fault == faults < MaxFaults /\ faults' = faults + 1

(* keygen is killed.                                                       *)
Crash ==
    /\ pc # "off"
    /\ Fault
    /\ pc' = "off"
    /\ UNCHANGED <<env, versions, made, owner_user, kp, exit, recorder>>

(* A call of keygen's fails; chown of the second file is tried as well.    *)
CallFails ==
    /\ pc # "off"
    /\ Fault
    /\ Exit(IF pc \in {"chown key", "chown pub"} THEN "73" ELSE "70")
    /\ \/ UNCHANGED versions
       \/ /\ pc = "chown key" /\ AccountFound /\ dir.pub # NoFile
          /\ Change([dir EXCEPT !.pub.owner = owner_user])
    /\ UNCHANGED <<env, made, owner_user, kp, recorder>>

PowerLoss ==
    /\ Fault
    /\ versions' = <<versions[1]>>
    /\ pc' = "off"
    /\ exit' = "none"
    /\ loaded' = NoKey
    /\ UNCHANGED <<env, made, owner_user, kp, signed>>

(* services.katagrapho.user gets another name; its account may not exist   *)
(* yet, and the old uid is gone.                                           *)
RenameAccount ==
    /\ Fault
    /\ account' \in Accounts \ {account}
    /\ exists' \in BOOLEAN
    /\ UNCHANGED <<moved, broken, versions, made, run, recorder>>

(* The public half is removed, as the VM test does.                        *)
RemovePub ==
    /\ Fault
    /\ Change([dir EXCEPT !.pub = NoFile])
    /\ exit' = "none"
    /\ UNCHANGED <<env, made, pc, owner_user, kp, recorder>>
-----------------------------------------------------------------------------
KeygenStep ==
    Look \/ WriteKey \/ RenameKey \/ WritePub \/ RenamePub \/ ChownKey \/ ChownPub

Next ==
    \/ StartKeygen \/ KeygenStep
    \/ StartSession \/ SignPart
    \/ Writeback \/ CreateAccount \/ FixConfig
    \/ Crash \/ CallFails \/ PowerLoss \/ RenameAccount \/ RemovePub

Spec == Init /\ [][Next]_vars

(* keygen goes on while it runs, and runs again, at the next boot if not   *)
(* before; the operator makes the config readable and the account exist.   *)
FairSpec ==
    /\ Spec
    /\ WF_vars(StartKeygen) /\ WF_vars(KeygenStep)
    /\ WF_vars(CreateAccount) /\ WF_vars(FixConfig)
-----------------------------------------------------------------------------
(* Both halves are there, and a recorder can sign with them.               *)
Ready == Loadable /\ dir.pub # NoFile

(* Exit status 0 of keygen means what its unit is for: from then on        *)
(* the sessions of the account it was run for are signed, until somebody   *)
(* removes a file or power is lost.                                        *)
ReadyAfterSuccess == exit = "0" /\ owner_user = account => Ready

(* In every state, halfway through a run or after any mishap: the two      *)
(* files belong together, so keygen and recorder never find a pair they    *)
(* both refuse to repair; and the name they share for their temporary file *)
(* never lends one the mode of the other.                                  *)
KeyFilesSound ==
    \A i \in DOMAIN versions :
        LET d == versions[i]
        IN  /\ d.key # NoFile => d.key.mode = "0400"
            /\ d.pub # NoFile =>
                d.pub.mode = "0444" /\ d.key # NoFile /\ d.pub.id = d.key.id

(* "Never overwrite a key -- that would orphan every manifest already      *)
(* signed with it": the manifests of commits that returned Ok verify with  *)
(* the key that is there, after a power loss too.  With the key in a       *)
(* directory of its own nobody syncs it, and this takes until the file     *)
(* system has.                                                             *)
SignedKeySurvives == ~moved => signed \subseteq {versions[1].key.id}

(* However a run of keygen was cut short, running it again is enough.      *)
EventuallyReady == <>[]Ready
=============================================================================
