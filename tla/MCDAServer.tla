----------------------------- MODULE MCDAServer -----------------------------
(* Small instances of DAServer for TLC. *)
EXTENDS DAServer

MCShareCommitment == [b1 |-> "h1", b2 |-> "h2"]

Both == [mode |-> "both", available |-> TRUE, readLegacy |-> FALSE,
         compact |-> TRUE, metrics |-> TRUE]
Legacy == [Both EXCEPT !.readLegacy = TRUE, !.compact = FALSE]
ReadOnly == [Legacy EXCEPT !.mode = "read_fallback", !.compact = TRUE,
                           !.metrics = FALSE]

WritingConfigs == {Both, Legacy}
RestartConfigs == {Legacy, ReadOnly}

\* another program writes one canonical and one legacy key
At1(h) == [prefix |-> "celestia", height |-> 1, hash |-> h]
SharedKeys == {CanonicalKey(At1("h1")), LegacyKey(At1("h2"))}
NoKeys == {}
=============================================================================
