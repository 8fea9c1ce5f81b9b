------------------------------- MODULE Ledger -------------------------------
(***************************************************************************)
(* What the manifest chain promises to whoever relies on it: one history   *)
(* that only grows at its end, each manifest following the one before it,  *)
(* and an acknowledgement, given once, of a manifest already in it.  It    *)
(* knows nothing of locks, files, processes or faults.                     *)
(***************************************************************************)
EXTENDS Integers, Sequences

CONSTANTS Hashes, Genesis

VARIABLES history, acked

vars == <<history, acked>>

InHistory == {history[i].this : i \in DOMAIN history}
Tip == IF history = <<>> THEN Genesis ELSE history[Len(history)].this

Entry(h, p) == [this |-> h, prev |-> p]

(* A host may bring one manifest of an older build.                        *)
Init ==
    /\ history \in {<<>>} \cup {<<Entry(h, Genesis)>> : h \in Hashes}
    /\ acked = {}

Extend(h) ==
    /\ h \notin InHistory
    /\ history' = Append(history, Entry(h, Tip))
    /\ UNCHANGED acked

Acknowledge(h) ==
    /\ h \in InHistory \ acked
    /\ acked' = acked \cup {h}
    /\ UNCHANGED history

Next == \E h \in Hashes : Extend(h) \/ Acknowledge(h)

Spec == Init /\ [][Next]_vars
=============================================================================
