------------------------------ MODULE MCBlobID ------------------------------
(* binary.LittleEndian, for TLC. *)
EXTENDS BlobID, SequencesExt

MCPutUint(n, size) == [i \in 1..size |-> (n \div Radix^(i - 1)) % Radix]
MCUint(bytes) == FoldRight(LAMBDA b, acc: b + Radix * acc, bytes, 0)
=============================================================================
