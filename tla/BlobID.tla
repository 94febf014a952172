------------------------------- MODULE BlobID -------------------------------
(***************************************************************************)
(* The bytes of a commitment: how Put encodes the blob ID that op-batcher  *)
(* posts, and what Get reads from the bytes op-node asks for.  Between the *)
(* two the bytes cross other programs, which may cut them short, lengthen  *)
(* them or leave out the first ones.  A byte is a number below Radix, and  *)
(* the fields have the widths of the constants: the code has 256, 8, 32, 4 *)
(* and 4.  The encoding of a number is the library's, and known by what    *)
(* it promises.                                                            *)
(***************************************************************************)
EXTENDS Naturals, Sequences

CONSTANTS
    Radix,            \* the values of a byte
    HeightSize, CommitmentSize, ShareOffsetSize, ShareSizeSize,
    GenericByte,      \* 0x01, op-alt-da's generic commitment type
    VersionByte,      \* 0x0c, Celestia
    PutUint(_, _),    \* encoding/binary: a number's bytes, the lowest first
    Uint(_),          \* and the number of some bytes
    MaxEdits          \* bound: the bytes dropped or added on the way

ASSUME RadixAssumption == Radix \in Nat /\ Radix > 1
ASSUME WidthAssumption ==
    /\ {HeightSize, CommitmentSize, ShareOffsetSize, ShareSizeSize}
           \subseteq Nat \ {0}
    /\ HeightSize > 1
ASSUME PrefixAssumption == /\ {GenericByte, VersionByte} \subseteq 0..Radix-1
                           /\ GenericByte # VersionByte
ASSUME EditsAssumption == MaxEdits \in Nat

Bytes == 0..Radix-1
CompactBlobIDSize == HeightSize + CommitmentSize
FullBlobIDSize == CompactBlobIDSize + ShareOffsetSize + ShareSizeSize

Words(size) == 0..(Radix^size - 1)

(* A compact blob ID has no share range; the fields are then zero.         *)
FullIDs == [compact: {FALSE}, height: Words(HeightSize),
            commitment: [1..CommitmentSize -> Bytes],
            shareOffset: Words(ShareOffsetSize),
            shareSize: Words(ShareSizeSize)]
CelestiaBlobIDs ==
    FullIDs \cup {[id EXCEPT !.compact = TRUE, !.shareOffset = 0,
                             !.shareSize = 0]: id \in FullIDs}

(* What encoding/binary promises of the three numbers.                     *)
ASSUME BinaryAssumption ==
    \A size \in {HeightSize, ShareOffsetSize, ShareSizeSize}:
        /\ \A n \in Words(size): /\ PutUint(n, size) \in [1..size -> Bytes]
                                  /\ Uint(PutUint(n, size)) = n
        /\ \A bytes \in [1..size -> Bytes]: Uint(bytes) \in Words(size)
ASSUME LittleEndian ==
    \A n \in Words(HeightSize):
        /\ PutUint(n, HeightSize)[1] = n % Radix
        /\ PutUint(n, HeightSize)[2] = (n \div Radix) % Radix

VARIABLES
    id,      \* the blob ID that Put encodes
    key,     \* the bytes on their way
    dropped, \* the bytes dropped from the end so far
    added,   \* the bytes added at the end so far
    stripped,\* the bytes left out at the front
    result   \* what parseBlobIDFromCommitment returns

vars == <<id, key, dropped, added, stripped, result>>

Pending == [status |-> "pending"]
Invalid == [status |-> "error"]
Parsed(i) == [status |-> "ok", id |-> i]

-----------------------------------------------------------------------------
(* The codec                                                               *)

(* The slice data[from:to] of Go.                                          *)
Slice(data, from, to) == SubSeq(data, from + 1, to)

MarshalBinary(i) ==
    LET start == PutUint(i.height, HeightSize) \o i.commitment
        range == PutUint(i.shareOffset, ShareOffsetSize)
                     \o PutUint(i.shareSize, ShareSizeSize)
    IN  IF i.compact THEN start ELSE start \o range

Decode(data, full) ==
    LET offsetEnd == CompactBlobIDSize + ShareOffsetSize
    IN  [compact |-> ~full,
         height |-> Uint(Slice(data, 0, HeightSize)),
         commitment |-> Slice(data, HeightSize, CompactBlobIDSize),
         shareOffset |->
             IF full THEN Uint(Slice(data, CompactBlobIDSize, offsetEnd)) ELSE 0,
         shareSize |->
             IF full THEN Uint(Slice(data, offsetEnd, FullBlobIDSize)) ELSE 0]

(* The form is told by the length alone: a part of a share range after a   *)
(* compact ID is ignored, and so is whatever follows a full one.           *)
UnmarshalBinary_FullMustBeLonger(data) ==
    Decode(data, Len(data) > FullBlobIDSize)
UnmarshalBinary_FormUnset(data) ==
    [Decode(data, Len(data) >= FullBlobIDSize) EXCEPT !.compact = TRUE]
UnmarshalBinary_FromEnd(data) ==
    [Decode(data, Len(data) >= FullBlobIDSize) EXCEPT
        !.commitment = Slice(data, Len(data) - CommitmentSize, Len(data))]
UnmarshalBinary(data) == Decode(data, Len(data) >= FullBlobIDSize)

(* The type byte, the version byte and the blob ID.                        *)
Commitment(i) == <<GenericByte, VersionByte>> \o MarshalBinary(i)

parseBlobIDFromCommitment_AnyVersion(k) ==
    IF /\ Len(k) >= 2 + CompactBlobIDSize
       /\ k[1] = GenericByte
    THEN Parsed(UnmarshalBinary(Slice(k, 2, Len(k))))
    ELSE Invalid
parseBlobIDFromCommitment(k) ==
    IF /\ Len(k) >= 2 + CompactBlobIDSize
       /\ k[1] = GenericByte
       /\ k[2] = VersionByte
    THEN Parsed(UnmarshalBinary(Slice(k, 2, Len(k))))
    ELSE Invalid

-----------------------------------------------------------------------------

Init ==
    /\ id \in CelestiaBlobIDs
    /\ key = Commitment(id)
    /\ dropped = 0 /\ added = 0 /\ stripped = 0
    /\ result = Pending

(* Another program lengthens the bytes.                                    *)
AddByte ==
    /\ result = Pending /\ dropped = 0 /\ added < MaxEdits
    /\ \E b \in Bytes: key' = Append(key, b)
    /\ added' = added + 1
    /\ UNCHANGED <<id, dropped, stripped, result>>

(* Another program cuts the last byte off.                                 *)
DropByte ==
    /\ result = Pending /\ added = 0 /\ dropped < MaxEdits
    /\ key' = Slice(key, 0, Len(key) - 1)
    /\ dropped' = dropped + 1
    /\ UNCHANGED <<id, added, stripped, result>>

(* Another program sends the blob ID without the type byte, or bare.       *)
StripPrefix ==
    /\ result = Pending /\ stripped = 0
    /\ \E n \in {1, 2}: /\ stripped' = n
                        /\ key' = Slice(key, n, Len(key))
    /\ UNCHANGED <<id, dropped, added, result>>

(* CelestiaStore.Get.                                                      *)
Parse ==
    /\ result = Pending
    /\ result' = parseBlobIDFromCommitment(key)
    /\ UNCHANGED <<id, key, dropped, added, stripped>>

Next == AddByte \/ DropByte \/ StripPrefix \/ Parse

Spec == Init /\ [][Next]_vars

-----------------------------------------------------------------------------
(* Properties                                                              *)

TypeOK ==
    /\ id \in CelestiaBlobIDs
    /\ key \in Seq(Bytes)
    /\ dropped \in 0..MaxEdits /\ added \in 0..MaxEdits
    /\ stripped \in 0..2
    /\ \/ result \in {Pending, Invalid}
       \/ result = Parsed(result.id) /\ result.id \in CelestiaBlobIDs

Untouched == dropped = 0 /\ added = 0 /\ stripped = 0

(* What Put encodes, Get decodes, in both forms: the commitment on L1 is   *)
(* enough to find the blob.  In particular two blob IDs never share their  *)
(* bytes, which lets DAServer take a commitment for its fields.            *)
RoundTrip == Untouched /\ result # Pending => result = Parsed(id)

(* Every accepted alias of a commitment, cut short or lengthened, is of    *)
(* the same blob: Get asks Celestia for the same height and commitment, so *)
(* an alias can at most miss the fallback, whose key covers every byte.    *)
AliasOfSameBlob ==
    stripped = 0 /\ result \notin {Pending, Invalid} =>
        /\ result.id.height = id.height
        /\ result.id.commitment = id.commitment

(* A blob ID sent without its prefix is refused, except at one height in   *)
(* Radix^2: there the height's own bytes read as the prefix, and what is   *)
(* left, if long enough, is taken for another blob's ID.                   *)
BareRefused ==
    stripped # 0 /\ result \notin {Pending, Invalid} =>
        /\ stripped = 2
        /\ id.height % Radix = GenericByte
        /\ (id.height \div Radix) % Radix = VersionByte

(* The share range of a full ID is the published one as long as none of it *)
(* was cut off, and else absent, never made of a part of it.  A compact ID *)
(* decodes to itself until as many bytes were added as a share range has:  *)
(* then it decodes to a full one, whose range somebody made up.            *)
RangePublishedOrAdded ==
    stripped = 0 /\ result \notin {Pending, Invalid} =>
        /\ ~id.compact /\ dropped = 0 => result.id = id
        /\ ~id.compact /\ dropped # 0 => result.id.compact
        /\ id.compact /\ added < ShareOffsetSize + ShareSizeSize =>
               result.id = id
        /\ id.compact /\ added >= ShareOffsetSize + ShareSizeSize =>
               ~result.id.compact

(* API.md:94-99, "The server accepts commitments in the following formats: *)
(* [...] With version byte [...] Raw blob ID".  Only the full form is.     *)
AcceptsDocumentedFormats ==
    dropped = 0 /\ added = 0 /\ result # Pending => result # Invalid

-----------------------------------------------------------------------------
(* The inductive invariant                                                 *)

(* What is left of the published bytes is in its place, and the length     *)
(* tells what was added or dropped.                                        *)
KeyInv ==
    LET published == Commitment(id) IN
    /\ \A i \in 1..Len(key): i + stripped <= Len(published) =>
                                 key[i] = published[i + stripped]
    /\ dropped = 0 => Len(key) + stripped = Len(published) + added
    /\ dropped # 0 => Len(key) = 0 \/ Len(key) + stripped < Len(published)

IInv == /\ TypeOK /\ KeyInv
        /\ result # Pending => result = parseBlobIDFromCommitment(key)
=============================================================================
