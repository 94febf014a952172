------------------------------ MODULE MCServer ------------------------------
(* A small instance of Server for TLC. *)
EXTENDS Server

MCShareCommitment == [b1 |-> "h1"]

Metered == [mode |-> "both", available |-> TRUE, readLegacy |-> TRUE,
            compact |-> FALSE, metrics |-> TRUE]
WriteThrough == [Metered EXCEPT !.mode = "write_through", !.compact = TRUE,
                                !.readLegacy = FALSE, !.metrics = FALSE]
NoFallback == [Metered EXCEPT !.available = FALSE]
MCConfigs == {Metered, WriteThrough, NoFallback}
NoKeys == {}
=============================================================================
