------------------------------- MODULE Verify -------------------------------
(***************************************************************************)
(* The verdicts of the auditor's tool, katagrapho-verify --check-chain, as *)
(* operators on what it reads: the set of manifests its directory walk     *)
(* collected, the lines of head.hash.log, and head.hash.                   *)
(*                                                                         *)
(* A hash is a model value (SHA-256 is taken to be injective, ed25519 to   *)
(* be unforgeable), so a manifest is only what links it: the hash it has   *)
(* and the hash it follows.  A log line is its field count, whether its    *)
(* digest and signature check, whether a newline ends it, and the three    *)
(* hashes it carries.                                                      *)
(***************************************************************************)
EXTENDS Integers, Sequences, FiniteSets

CONSTANTS
    Genesis,    \* GENESIS_PREV, the 64 zeros that precede the first manifest
    Nothing     \* None: no readable head.hash, no lock holder, no head.tmp

ASSUME GenesisAssumption == Genesis # Nothing

(* head.hash.log ***********************************************************)

(* The field counts the parser tells apart: five, eight, anything else.    *)
FieldCounts == {"legacy", "signed", "other"}

(* A signed line; log_hash is the digest of the line, whose content        *)
(* (session and part included) no other line shares: the manifest's hash   *)
(* identifies it.                                                          *)
SignedLine(h, prev) ==
    [fields |-> "signed", valid |-> TRUE, eol |-> TRUE,
     manifest_hash |-> h, log_prev |-> prev, log_hash |-> h]

(* A line of a build that did not sign the log.                            *)
LegacyLine(h) ==
    [fields |-> "legacy", valid |-> TRUE, eol |-> TRUE,
     manifest_hash |-> h, log_prev |-> Nothing, log_hash |-> Nothing]

SignedBefore(lines, i) == {j \in 1 .. i - 1 : lines[j].fields = "signed"}

(* expected_prev when the loop of verify_log reaches line i.               *)
ExpectedPrev(lines, i) ==
    LET earlier == SignedBefore(lines, i)
    IN  IF earlier = {} THEN Genesis
        ELSE lines[CHOOSE j \in earlier : \A k \in earlier : k <= j].log_hash

(* Bug: a line without a signature is taken wherever it stands.            *)
LegacyAnywhere(lines, i) == TRUE

LegacyLineOK(lines, i) == SignedBefore(lines, i) = {}

SignedLineOK(lines, i) ==
    /\ lines[i].valid
    /\ lines[i].log_prev = ExpectedPrev(lines, i)

(* verify_log: every line is a legacy line of the prefix, or a signed line *)
(* that links to the signed line before it.                                *)
VerifyLog(lines) ==
    \A i \in DOMAIN lines :
        \/ lines[i].fields = "legacy" /\ LegacyLineOK(lines, i)
        \/ lines[i].fields = "signed" /\ SignedLineOK(lines, i)

(* tip_manifest_hash: the newest manifest the log claims, legacy or not.   *)
TipManifestHash(lines) ==
    IF lines = <<>> THEN Nothing ELSE lines[Len(lines)].manifest_hash

(* The manifests ***********************************************************)

HashesOf(E) == {m.this : m \in E}

NoDuplicate(E) == \A a, b \in E : a.this = b.this => a = b

(* One pass over the entries: a predecessor is present and has one child.  *)
Linked(E) ==
    \A m \in E : m.prev # Genesis =>
        /\ m.prev \in HashesOf(E)
        /\ \A n \in E : n.prev = m.prev => n = m

GenesisManifests(E) == {m \in E : m.prev = Genesis}

(* The manifests nothing follows.                                          *)
Tips(E) == {m \in E : \A n \in E : n.prev # m.this}

(* Bug: head.hash does not anchor the walk.                                *)
WalkStartAtTip(E, head) ==
    IF Cardinality(Tips(E)) = 1 THEN HashesOf(Tips(E)) ELSE {}

(* The hashes the walk may start from: head.hash is the authority when     *)
(* there is one, otherwise the only tip.                                   *)
WalkStart(E, head) ==
    IF head \notin {Genesis, Nothing}
    THEN {head} \cap HashesOf(E)
    ELSE IF Cardinality(Tips(E)) = 1 THEN HashesOf(Tips(E)) ELSE {}

(* The hash the manifest with the hash h follows; Genesis follows nothing. *)
Predecessor(E, h) ==
    IF \E m \in E : m.this = h
    THEN (CHOOSE m \in E : m.this = h).prev
    ELSE Genesis

(* Where the walk from tip towards genesis stands after n steps; Genesis   *)
(* once it has gone past the first manifest.                               *)
WalkFrom(E, tip) ==
    LET at[n \in Nat] == IF n = 0 THEN tip ELSE Predecessor(E, at[n - 1])
    IN  at

(* Bug: the manifests on the path are not counted.                         *)
WalkReachesGenesis(E, tip) ==
    \E n \in 0 .. Cardinality(E) - 1 :
        WalkFrom(E, tip)[n] \in HashesOf(GenesisManifests(E))

(* The walk meets the genesis manifest at its last step, not sooner and    *)
(* not later: every manifest is on the path.                               *)
WalksAll(E, tip) ==
    WalkFrom(E, tip)[Cardinality(E) - 1] \in HashesOf(GenesisManifests(E))

CheckSingleChain(E, head) ==
    IF E = {}
    THEN head \in {Genesis, Nothing}
    ELSE /\ NoDuplicate(E)
         /\ Cardinality(GenesisManifests(E)) = 1
         /\ Linked(E)
         /\ \E tip \in WalkStart(E, head) : WalksAll(E, tip)

(* Bug: head.hash and the log are each checked on their own.               *)
HeadNotCompared(head, lines) == TRUE

(* The whole run of katagrapho-verify --check-chain on a directory: the    *)
(* log in its own right, head.hash against the log's tip when both exist,  *)
(* the manifests as one chain that ends at head.hash.                      *)
HeadMatchesLog(head, lines) ==
    \/ head = Nothing
    \/ lines = <<>>
    \/ head = TipManifestHash(lines)

CheckChain(E, head, lines) ==
    /\ VerifyLog(lines)
    /\ HeadMatchesLog(head, lines)
    /\ CheckSingleChain(E, head)
=============================================================================
