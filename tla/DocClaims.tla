------------------------------ MODULE DocClaims ------------------------------
(***************************************************************************)
(* Statements of the repository's documents and comments about the server  *)
(* that its handlers do not satisfy.  TLC refutes each of them.            *)
(***************************************************************************)
EXTENDS MCDAServer

(* README.md:253, "Read-fallback: If blob not found in Celestia, attempt   *)
(* to read from fallback": no GET is answered 404 while the fallback holds *)
(* the payload under that commitment.  getBlob returns before it tries.    *)
ReadFallbackOnNotFound ==
    [][\A g \in Gets:
          reply[g] = 0 /\ reply'[g] = 404 /\ conf.available =>
              \/ bucket[CanonicalKey(comm[g])] = NoData
              \/ ~Verifies(comm[g], bucket[CanonicalKey(comm[g])])]_vars
=============================================================================
