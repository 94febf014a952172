---------------------------- MODULE Commitments ----------------------------
(***************************************************************************)
(* The data that requests carry.  A payload is a member of Blobs; its      *)
(* share commitment, computed by celestia-node's blob.NewBlob, is          *)
(* ShareCommitment[b].  A commitment as it travels in a URL is the two     *)
(* prefix bytes 0x01 0x0c, the little-endian height, the share commitment  *)
(* and, in full form, the share range, which no handler compares or uses.  *)
(* A "bare" commitment is the same blob ID sent without its prefix bytes:  *)
(* well-formed hexadecimal that parseBlobIDFromCommitment rejects.         *)
(***************************************************************************)
EXTENDS Naturals

CONSTANTS
    Puts,             \* the PUT requests
    Gets,             \* the GET requests
    Blobs,            \* the payloads
    Hashes,           \* the share commitments
    ShareCommitment,  \* the share commitment of each payload
    MaxHeight         \* bound: the last Celestia height

ASSUME RequestsAssumption == Puts \cap Gets = {}
ASSUME CommitAssumption == ShareCommitment \in [Blobs -> Hashes]
ASSUME CollisionFree ==
    \A a, b \in Blobs: ShareCommitment[a] = ShareCommitment[b] => a = b
ASSUME HeightAssumption == MaxHeight \in Nat \ {0}

Requests == Puts \cup Gets
Heights == 1..MaxHeight
Commitments ==
    [prefix: {"celestia", "bare"}, height: Heights, hash: Hashes]

(* parseBlobIDFromCommitment accepts the commitment.                       *)
Parses(c) == c.prefix = "celestia"

(* What submitBlob and Put encode for a blob included at a height.         *)
Certificate(h, b) ==
    [prefix |-> "celestia", height |-> h, hash |-> ShareCommitment[b]]

(* verifyFallbackCommitment: heights and share ranges are not compared.    *)
Verifies_Unchecked(c, b) == Parses(c)
Verifies(c, b) == Parses(c) /\ c.hash = ShareCommitment[b]
=============================================================================
