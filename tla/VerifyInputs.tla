---------------------------- MODULE VerifyInputs ----------------------------
(***************************************************************************)
(* The auditor's two checks against what they are for.  A behaviour picks  *)
(* one input, a set of manifests with a head or the lines of a log with a  *)
(* head, and gives it the verdict of Verify; the invariants compare the    *)
(* verdict with a definition that knows nothing of the algorithm.          *)
(*                                                                         *)
(* The manifests are any the signing key could have signed: each hash has  *)
(* one predecessor, files may be missing, and one may be there twice, as   *)
(* when a copy was left beside the original.  The lines are any sequence   *)
(* of the lines the host wrote, of each with a character changed, of each  *)
(* cut down to the five fields of an older build, and of lines an older    *)
(* build did write.                                                        *)
(***************************************************************************)
EXTENDS Verify

CONSTANTS
    Hashes,     \* the hashes manifests and lines have
    Written,    \* the signed lines the host wrote, as a sequence of hashes
    Older,      \* the lines an older build wrote before them, likewise
    MaxLines    \* bound: the length of a log

ASSUME InputsAssumption ==
    /\ Genesis \notin Hashes /\ Nothing \notin Hashes
    /\ IsFiniteSet(Hashes)  \* a directory holds finitely many
    /\ Written \in Seq(Hashes) /\ Older \in Seq(Hashes)
    /\ \A i, j \in DOMAIN Written : Written[i] = Written[j] => i = j
    /\ MaxLines \in Nat

VARIABLES
    entries,    \* the manifests the walk of the directory collected
    head,       \* head.hash, Genesis without the file, Nothing if unreadable
    lines,      \* the log
    verdict     \* what the tool says of them

vars == <<entries, head, lines, verdict>>

Entry(h, p, copy) == [this |-> h, prev |-> p, file |-> <<h, copy>>]

Directory(prevOf, present, twice) ==
    {Entry(h, prevOf[h], 1) : h \in present} \cup
    {Entry(h, prevOf[h], 2) : h \in twice}

ManifestInputs ==
    {Directory(prevOf, present, twice) :
        prevOf \in [Hashes -> Hashes \cup {Genesis}],
        present \in SUBSET Hashes,
        twice \in {{}} \cup {{h} : h \in Hashes}}

(* The host's signed lines, each linked to the one before it.              *)
HostLine(i) ==
    SignedLine(Written[i], IF i = 1 THEN Genesis ELSE Written[i - 1])

(* ... one of them changed, and one stripped of its signature.             *)
ChangedLine(i) == [HostLine(i) EXCEPT !.valid = FALSE]
StrippedLine(i) == LegacyLine(Written[i])

Alphabet ==
    {HostLine(i) : i \in DOMAIN Written}
        \cup {ChangedLine(i) : i \in DOMAIN Written}
        \cup {StrippedLine(i) : i \in DOMAIN Written}
        \cup {LegacyLine(Older[i]) : i \in DOMAIN Older}

LogInputs == UNION {[1 .. n -> Alphabet] : n \in 0 .. MaxLines}

Init ==
    /\ head \in Hashes \cup {Genesis, Nothing}
    /\ \/ entries \in ManifestInputs /\ lines = <<>>
       \/ entries = {} /\ lines \in LogInputs
    /\ verdict = "pending"

(* verify_log, then head against log, then the manifests, as               *)
(* katagrapho-verify --check-chain stops at the first that fails.          *)
CheckLog ==
    /\ verdict = "pending"
    /\ verdict' = IF ~VerifyLog(lines) THEN "log_broken"
                  ELSE IF ~HeadMatchesLog(head, lines) THEN "rewritten"
                  ELSE "log_ok"
    /\ UNCHANGED <<entries, head, lines>>

CheckManifests ==
    /\ verdict = "log_ok"
    /\ verdict' = IF CheckSingleChain(entries, head) THEN "ok" ELSE "chain_broken"
    /\ UNCHANGED <<entries, head, lines>>

Done == verdict \notin {"pending", "log_ok"} /\ UNCHANGED vars

Next == CheckLog \/ CheckManifests \/ Done

Spec == Init /\ [][Next]_vars
-----------------------------------------------------------------------------
(* The manifests can be put in one order in which the first has no         *)
(* predecessor, each other one follows the one before it, and the last is  *)
(* the head, if a head is known.                                           *)
OneHistory ==
    IF entries = {}
    THEN head \in {Genesis, Nothing}
    ELSE LET n == Cardinality(entries)
         IN  \E order \in [1 .. n -> entries] :
                /\ \A i, j \in 1 .. n : order[i] = order[j] => i = j
                /\ order[1].prev = Genesis
                /\ \A i \in 2 .. n : order[i].prev = order[i - 1].this
                /\ head \in {Genesis, Nothing, order[n].this}

(* check_single_chain accepts the manifests of a directory exactly when    *)
(* they are one history that ends at head.hash: no fork, second start,     *)
(* duplicate, gap, cycle or lost tail passes, and no whole history fails.  *)
ManifestVerdictRight ==
    lines = <<>> =>
        /\ verdict = "ok" => OneHistory
        /\ verdict = "chain_broken" => ~OneHistory

(* Lines without a signature, whoever wrote them and whatever they say,    *)
(* then the host's signed ones, from the first one on and without a gap.   *)
HostPrefix ==
    \E k \in 0 .. Len(lines) :
        /\ \A i \in 1 .. k : lines[i].fields = "legacy"
        /\ Len(lines) - k <= Len(Written)
        /\ \A i \in 1 .. Len(lines) - k : lines[k + i] = HostLine(i)

(* A host's log, or a beginning of it, of which some lines were stripped   *)
(* where they stand, after d lines without a signature.                    *)
HostLogAfter(d) ==
    /\ \A i \in 1 .. d : lines[i].fields = "legacy"
    /\ Len(lines) - d <= Len(Written)
    /\ \A i \in 1 .. Len(lines) - d :
        lines[d + i] \in {HostLine(i), StrippedLine(i)}

NoneStripped(d) == \A i \in 1 .. Len(lines) - d : lines[d + i] = HostLine(i)
AllStripped(d) == \A i \in 1 .. Len(lines) - d : lines[d + i] = StrippedLine(i)

(* "Nobody can strip the signatures off newer lines and pass them off as   *)
(* old records" (src/README.md:107) is true while a signature is left,     *)
(* which gives the stripped lines away.  A log that lost all of them is    *)
(* accepted: nothing says where a host's signed lines begin.               *)
StrippedAllOrNone ==
    verdict # "pending" =>
        \A d \in 0 .. Len(lines) : HostLogAfter(d) =>
            (verdict # "log_broken" <=> NoneStripped(d) \/ AllStripped(d))

(* verify_log refuses a log exactly when it is not of the form HostPrefix: *)
(* a signed line was changed, removed from before another, reordered or    *)
(* repeated, or a line without a signature follows a signed one.  It takes *)
(* every unsigned line at the start for an older build's, and so finds     *)
(* that lines were stripped, but not that all of them were.                *)
LogVerdictRight ==
    /\ verdict = "log_broken" => ~HostPrefix
    /\ verdict \in {"log_ok", "rewritten"} => HostPrefix
    /\ StrippedAllOrNone

(* With head.hash at the last line the host wrote, a log that has a signed *)
(* line left passes only when it has them all.                             *)
TailAnchored ==
    /\ verdict \in {"log_ok", "ok", "chain_broken"}
    /\ head = Written[Len(Written)]
    /\ \E i \in DOMAIN lines : lines[i].fields = "signed"
    => \A i \in DOMAIN Written : HostLine(i) \in {lines[j] : j \in DOMAIN lines}
=============================================================================
