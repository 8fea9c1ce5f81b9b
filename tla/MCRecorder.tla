----------------------------- MODULE MCRecorder -----------------------------
(* Instances of Recorder for TLC.                                          *)
EXTENDS Recorder

SmallAndLarge == {1, 5}

Section(file, session) ==
    [max_file_bytes |-> file, max_session_bytes |-> session]

(* One that is accepted, one that a header alone fills a part of, and one  *)
(* for each reason to refuse it.                                           *)
Sections ==
    {Section(4, 12), Section(1, 12), Section(7, 12), Section(0, 12), Section(4, 3)}
Accepted == {Section(4, 12)}

(* A hard limit in which age's header does not fit, one below the part     *)
(* limit, and one that does not bind.                                      *)
TightAndLoose == {1, 4, 9}
Loose == {9}
=============================================================================
