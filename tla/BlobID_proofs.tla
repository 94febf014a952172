--------------------------- MODULE BlobID_proofs ---------------------------
(***************************************************************************)
(* For bytes, fields and edits of any number: what Put encodes is what Get *)
(* decodes, and what was made of it on the way is an alias of the same     *)
(* blob or refused.                                                        *)
(***************************************************************************)
EXTENDS BlobID, SequenceTheorems, TLAPS

LEMMA Widths ==
    /\ HeightSize \in Nat /\ HeightSize > 1
    /\ CommitmentSize \in Nat /\ CommitmentSize > 0
    /\ ShareOffsetSize \in Nat /\ ShareOffsetSize > 0
    /\ ShareSizeSize \in Nat /\ ShareSizeSize > 0
    /\ CompactBlobIDSize \in Nat /\ FullBlobIDSize \in Nat
    /\ CompactBlobIDSize = HeightSize + CommitmentSize
    /\ FullBlobIDSize = CompactBlobIDSize + ShareOffsetSize + ShareSizeSize
BY WidthAssumption DEF CompactBlobIDSize, FullBlobIDSize

-----------------------------------------------------------------------------
(* Sequences                                                               *)

LEMMA BytesAreSeq ==
    ASSUME NEW n \in Nat, NEW f \in [1..n -> Bytes]
    PROVE  f \in Seq(Bytes) /\ Len(f) = n
OBVIOUS

LEMMA SeqIsBytes ==
    ASSUME NEW s \in Seq(Bytes)
    PROVE  s \in [1..Len(s) -> Bytes]
OBVIOUS

LEMMA Slices ==
    ASSUME NEW s \in Seq(Bytes), NEW from \in Nat, NEW to \in Nat,
           from <= to, to <= Len(s)
    PROVE  /\ Slice(s, from, to) \in Seq(Bytes)
           /\ Len(Slice(s, from, to)) = to - from
           /\ \A i \in 1 .. to - from: Slice(s, from, to)[i] = s[from + i]
BY DEF Slice

(* What is left without the first n bytes.                                 *)
LEMMA WithoutFirst ==
    ASSUME NEW s \in Seq(Bytes), NEW n \in Nat, n <= Len(s)
    PROVE  /\ Slice(s, n, Len(s)) \in Seq(Bytes)
           /\ Len(Slice(s, n, Len(s))) = Len(s) - n
           /\ \A i \in 1 .. Len(s) - n: Slice(s, n, Len(s))[i] = s[n + i]
BY DEF Slice

LEMMA SameBytes ==
    ASSUME NEW n, NEW f \in [1..n -> Bytes], NEW g \in [1..n -> Bytes],
           \A i \in 1..n: f[i] = g[i]
    PROVE  f = g
<1>1. f = [i \in 1..n |-> f[i]] /\ g = [i \in 1..n |-> g[i]]
  BY Zenon
<1>2. [i \in 1..n |-> f[i]] = [i \in 1..n |-> g[i]]
  BY Zenon
<1> QED BY <1>1, <1>2, Zenon

LEMMA SliceIsBytes ==
    ASSUME NEW s \in Seq(Bytes), NEW from \in Nat, NEW n \in Nat,
           from + n <= Len(s)
    PROVE  /\ Slice(s, from, from + n) \in [1..n -> Bytes]
           /\ \A i \in 1..n: Slice(s, from, from + n)[i] = s[from + i]
<1>1. from + n \in Nat /\ from <= from + n /\ (from + n) - from = n
  OBVIOUS
<1>2. /\ Slice(s, from, from + n) \in Seq(Bytes)
      /\ Len(Slice(s, from, from + n)) = (from + n) - from
      /\ \A i \in 1 .. (from + n) - from:
             Slice(s, from, from + n)[i] = s[from + i]
  BY <1>1, Slices
<1> QED BY <1>1, <1>2, SeqIsBytes

LEMMA SliceIs ==
    ASSUME NEW s \in Seq(Bytes), NEW from \in Nat, NEW n \in Nat,
           from + n <= Len(s),
           NEW f \in [1..n -> Bytes], \A i \in 1..n: s[from + i] = f[i]
    PROVE  Slice(s, from, from + n) = f
<1> DEFINE g == Slice(s, from, from + n)
<1>1. g \in [1..n -> Bytes] /\ \A i \in 1..n: g[i] = f[i]
  BY SliceIsBytes
<1> HIDE DEF g
<1>2. g = f
  BY <1>1
<1> QED BY <1>2 DEF g

-----------------------------------------------------------------------------
(* The published bytes                                                     *)

LEMMA CompactIs ==
    ASSUME NEW j \in FullIDs, NEW i,
           i = [j EXCEPT !.compact = TRUE, !.shareOffset = 0, !.shareSize = 0]
    PROVE  i = [compact |-> TRUE, height |-> j.height,
                commitment |-> j.commitment, shareOffset |-> 0, shareSize |-> 0]
BY DEF FullIDs

LEMMA IDsAre ==
    ASSUME NEW i \in CelestiaBlobIDs
    PROVE  /\ i.height \in Words(HeightSize)
           /\ i.commitment \in [1..CommitmentSize -> Bytes]
           /\ i.compact \in BOOLEAN
           /\ ~i.compact => i \in FullIDs
           /\ i.compact => /\ i.shareOffset = 0 /\ i.shareSize = 0
           /\ i = [compact |-> i.compact, height |-> i.height,
                   commitment |-> i.commitment,
                   shareOffset |-> i.shareOffset, shareSize |-> i.shareSize]
<1>1. CASE i \in FullIDs
  BY <1>1 DEF FullIDs
<1>2. ASSUME NEW j \in FullIDs,
             i = [j EXCEPT !.compact = TRUE, !.shareOffset = 0,
                           !.shareSize = 0]
      PROVE  /\ i.height = j.height /\ i.commitment = j.commitment
             /\ i.compact /\ i.shareOffset = 0 /\ i.shareSize = 0
             /\ i = [compact |-> TRUE, height |-> j.height,
                     commitment |-> j.commitment,
                     shareOffset |-> 0, shareSize |-> 0]
  BY <1>2 DEF FullIDs
<1>3. ASSUME NEW j \in FullIDs
      PROVE  /\ j.height \in Words(HeightSize)
             /\ j.commitment \in [1..CommitmentSize -> Bytes]
  BY DEF FullIDs
<1>4. CASE i \notin FullIDs
  <2>1. PICK j \in FullIDs: i = [j EXCEPT !.compact = TRUE, !.shareOffset = 0,
                                          !.shareSize = 0]
    BY <1>4 DEF CelestiaBlobIDs
  <2> QED BY <1>2, <1>3, <2>1
<1> QED BY <1>1, <1>4

(* Where the fields are in the bytes of a commitment.                      *)
LEMMA PublishedIs ==
    ASSUME NEW i \in CelestiaBlobIDs
    PROVE  /\ Commitment(i) \in Seq(Bytes)
           /\ Len(Commitment(i)) = 2 + (IF i.compact THEN CompactBlobIDSize
                                        ELSE FullBlobIDSize)
           /\ Commitment(i)[1] = GenericByte /\ Commitment(i)[2] = VersionByte
           /\ \A j \in 1..HeightSize:
                  Commitment(i)[2 + j] = PutUint(i.height, HeightSize)[j]
           /\ \A j \in 1..CommitmentSize:
                  Commitment(i)[2 + HeightSize + j] = i.commitment[j]
           /\ ~i.compact =>
                  /\ \A j \in 1..ShareOffsetSize:
                        Commitment(i)[2 + CompactBlobIDSize + j] =
                            PutUint(i.shareOffset, ShareOffsetSize)[j]
                  /\ \A j \in 1..ShareSizeSize:
                        Commitment(i)[2 + CompactBlobIDSize
                                        + ShareOffsetSize + j] =
                            PutUint(i.shareSize, ShareSizeSize)[j]
<1> DEFINE prefix == <<GenericByte, VersionByte>>
           height == PutUint(i.height, HeightSize)
           start == height \o i.commitment
           offset == PutUint(i.shareOffset, ShareOffsetSize)
           size == PutUint(i.shareSize, ShareSizeSize)
           range == offset \o size
<1>1. prefix \in Seq(Bytes) /\ Len(prefix) = 2
  BY PrefixAssumption DEF Bytes
<1>2. height \in Seq(Bytes) /\ Len(height) = HeightSize
  BY IDsAre, BinaryAssumption, BytesAreSeq, Widths
<1>3. i.commitment \in Seq(Bytes) /\ Len(i.commitment) = CommitmentSize
  BY IDsAre, BytesAreSeq, Widths
<1>4. /\ start \in Seq(Bytes) /\ Len(start) = CompactBlobIDSize
      /\ \A j \in 1..HeightSize: start[j] = height[j]
      /\ \A j \in 1..CommitmentSize: start[HeightSize + j] = i.commitment[j]
  <2>1. HeightSize \in Nat /\ CommitmentSize \in Nat
    BY Widths
  <2> HIDE DEF height
  <2>2. /\ start \in Seq(Bytes) /\ Len(start) = HeightSize + CommitmentSize
        /\ \A j \in 1..HeightSize: start[j] = height[j]
        /\ \A j \in 1..CommitmentSize: start[HeightSize + j] = i.commitment[j]
    BY <1>2, <1>3, <2>1
  <2> QED BY <2>2, Widths
<1>5. CASE i.compact
  <2>1. Commitment(i) = prefix \o start
    BY <1>5 DEF Commitment, MarshalBinary
  <2> HIDE DEF prefix, start, height
  <2>2. /\ Commitment(i) \in Seq(Bytes)
        /\ Len(Commitment(i)) = 2 + CompactBlobIDSize
        /\ Commitment(i)[1] = prefix[1] /\ Commitment(i)[2] = prefix[2]
        /\ \A j \in 1..CompactBlobIDSize: Commitment(i)[2 + j] = start[j]
    <3> DEFINE two == 2
    <3>1. prefix \in Seq(Bytes) /\ start \in Seq(Bytes) /\ CompactBlobIDSize \in Nat
      BY <1>1, <1>4, Widths
    <3>2. Len(prefix) = two /\ Len(start) = CompactBlobIDSize
      BY <1>1, <1>4
    <3>3. 1 \in 1..two /\ 2 \in 1..two /\ two = 2
      OBVIOUS
    <3> HIDE DEF two
    <3>4. prefix \o start \in Seq(Bytes)
      BY <3>1, <3>2
    <3>5. Len(prefix \o start) = two + CompactBlobIDSize
      BY <3>1, <3>2
    <3>6. \A j \in 1..two: (prefix \o start)[j] = prefix[j]
      BY <3>1, <3>2
    <3>7. \A j \in 1..CompactBlobIDSize: (prefix \o start)[two + j] = start[j]
      BY <3>1, <3>2
    <3> DEFINE bytes == prefix \o start
    <3> HIDE DEF bytes
    <3>8. /\ bytes \in Seq(Bytes) /\ Len(bytes) = two + CompactBlobIDSize
          /\ \A j \in 1..two: bytes[j] = prefix[j]
          /\ \A j \in 1..CompactBlobIDSize: bytes[two + j] = start[j]
      BY <3>4, <3>5, <3>6, <3>7 DEF bytes
    <3>9. /\ bytes \in Seq(Bytes) /\ Len(bytes) = 2 + CompactBlobIDSize
          /\ bytes[1] = prefix[1] /\ bytes[2] = prefix[2]
          /\ \A j \in 1..CompactBlobIDSize: bytes[2 + j] = start[j]
      BY <3>3, <3>8
    <3>10. Commitment(i) = bytes
      BY <2>1 DEF bytes
    <3> QED BY <3>9, <3>10, Zenon
  <2>3. ASSUME NEW j \in 1..HeightSize
        PROVE  Commitment(i)[2 + j] = height[j]
    <3>1. j \in 1..CompactBlobIDSize
      BY Widths
    <3> QED BY <1>4, <2>2, <3>1
  <2>4. ASSUME NEW j \in 1..CommitmentSize
        PROVE  Commitment(i)[2 + HeightSize + j] = i.commitment[j]
    <3>1. HeightSize + j \in 1..CompactBlobIDSize
      BY Widths
    <3>2. 2 + (HeightSize + j) = 2 + HeightSize + j
      BY Widths
    <3> QED BY <1>4, <2>2, <3>1, <3>2
  <2> QED BY <1>5, <2>2, <2>3, <2>4 DEF prefix, height
<1>6. CASE ~i.compact
  <2>1. Commitment(i) = prefix \o (start \o range)
    BY <1>6 DEF Commitment, MarshalBinary
  <2>2. /\ i.shareOffset \in Words(ShareOffsetSize)
        /\ i.shareSize \in Words(ShareSizeSize)
    BY <1>6, IDsAre DEF FullIDs
  <2>3. /\ offset \in Seq(Bytes) /\ Len(offset) = ShareOffsetSize
        /\ size \in Seq(Bytes) /\ Len(size) = ShareSizeSize
    BY <2>2, BinaryAssumption, BytesAreSeq, Widths
  <2>4. /\ range \in Seq(Bytes) /\ Len(range) = ShareOffsetSize + ShareSizeSize
        /\ \A j \in 1..ShareOffsetSize: range[j] = offset[j]
        /\ \A j \in 1..ShareSizeSize: range[ShareOffsetSize + j] = size[j]
    BY <2>3, Widths
  <2> HIDE DEF prefix, start, range, height, offset, size
  <2> DEFINE id0 == start \o range
  <2>5. /\ id0 \in Seq(Bytes) /\ Len(id0) = FullBlobIDSize
        /\ \A j \in 1..CompactBlobIDSize: id0[j] = start[j]
        /\ \A j \in 1 .. ShareOffsetSize + ShareSizeSize:
               id0[CompactBlobIDSize + j] = range[j]
    <3>1. /\ CompactBlobIDSize \in Nat /\ ShareOffsetSize + ShareSizeSize \in Nat
          /\ FullBlobIDSize = CompactBlobIDSize + (ShareOffsetSize + ShareSizeSize)
      BY Widths
    <3> QED BY <1>4, <2>4, <3>1
  <2>6. Commitment(i) = prefix \o id0
    BY <2>1
  <2> HIDE DEF id0
  <2>7. /\ Commitment(i) \in Seq(Bytes)
        /\ Len(Commitment(i)) = 2 + FullBlobIDSize
        /\ Commitment(i)[1] = prefix[1] /\ Commitment(i)[2] = prefix[2]
        /\ \A j \in 1..FullBlobIDSize: Commitment(i)[2 + j] = id0[j]
    <3> DEFINE two == 2
    <3>1. prefix \in Seq(Bytes) /\ id0 \in Seq(Bytes) /\ FullBlobIDSize \in Nat
      BY <1>1, <2>5, Widths
    <3>2. Len(prefix) = two /\ Len(id0) = FullBlobIDSize
      BY <1>1, <2>5
    <3>3. 1 \in 1..two /\ 2 \in 1..two /\ two = 2
      OBVIOUS
    <3> HIDE DEF two
    <3>4. prefix \o id0 \in Seq(Bytes)
      BY <3>1, <3>2
    <3>5. Len(prefix \o id0) = two + FullBlobIDSize
      BY <3>1, <3>2
    <3>6. \A j \in 1..two: (prefix \o id0)[j] = prefix[j]
      BY <3>1, <3>2
    <3>7. \A j \in 1..FullBlobIDSize: (prefix \o id0)[two + j] = id0[j]
      BY <3>1, <3>2
    <3> DEFINE bytes == prefix \o id0
    <3> HIDE DEF bytes
    <3>8. /\ bytes \in Seq(Bytes) /\ Len(bytes) = two + FullBlobIDSize
          /\ \A j \in 1..two: bytes[j] = prefix[j]
          /\ \A j \in 1..FullBlobIDSize: bytes[two + j] = id0[j]
      BY <3>4, <3>5, <3>6, <3>7 DEF bytes
    <3>9. /\ bytes \in Seq(Bytes) /\ Len(bytes) = 2 + FullBlobIDSize
          /\ bytes[1] = prefix[1] /\ bytes[2] = prefix[2]
          /\ \A j \in 1..FullBlobIDSize: bytes[2 + j] = id0[j]
      BY <3>3, <3>8
    <3>10. Commitment(i) = bytes
      BY <2>6 DEF bytes
    <3> QED BY <3>9, <3>10, Zenon
  <2>8. ASSUME NEW j \in 1..HeightSize
        PROVE  Commitment(i)[2 + j] = height[j]
    <3>1. j \in 1..CompactBlobIDSize /\ j \in 1..FullBlobIDSize
      BY Widths
    <3> QED BY <1>4, <2>5, <2>7, <3>1
  <2>9. ASSUME NEW j \in 1..CommitmentSize
        PROVE  Commitment(i)[2 + HeightSize + j] = i.commitment[j]
    <3>1. /\ HeightSize + j \in 1..CompactBlobIDSize
          /\ HeightSize + j \in 1..FullBlobIDSize
          /\ 2 + (HeightSize + j) = 2 + HeightSize + j
      BY Widths
    <3> QED BY <1>4, <2>5, <2>7, <3>1
  <2>10. ASSUME NEW j \in 1..ShareOffsetSize
         PROVE  Commitment(i)[2 + CompactBlobIDSize + j] = offset[j]
    <3>1. /\ j \in 1 .. ShareOffsetSize + ShareSizeSize
          /\ CompactBlobIDSize + j \in 1..FullBlobIDSize
          /\ 2 + (CompactBlobIDSize + j) = 2 + CompactBlobIDSize + j
      BY Widths
    <3> QED BY <2>4, <2>5, <2>7, <3>1
  <2>11. ASSUME NEW j \in 1..ShareSizeSize
         PROVE  Commitment(i)[2 + CompactBlobIDSize + ShareOffsetSize + j]
                    = size[j]
    <3> DEFINE k == ShareOffsetSize + j
    <3>1. /\ k \in 1 .. ShareOffsetSize + ShareSizeSize
          /\ CompactBlobIDSize + k \in 1..FullBlobIDSize
          /\ 2 + (CompactBlobIDSize + k)
                 = 2 + CompactBlobIDSize + ShareOffsetSize + j
      BY Widths
    <3>2. range[k] = size[j]
      BY <2>4
    <3> HIDE DEF k
    <3> QED BY <2>5, <2>7, <3>1, <3>2
  <2> QED BY <1>6, <2>7, <2>8, <2>9, <2>10, <2>11
          DEF prefix, height, offset, size
<1> QED BY <1>5, <1>6, IDsAre

-----------------------------------------------------------------------------
(* What Get reads                                                          *)

(* Where the fields are read from, if the bytes are long enough.           *)
LEMMA DecodedIs ==
    ASSUME NEW k \in Seq(Bytes), Len(k) >= 2 + CompactBlobIDSize,
           NEW full \in BOOLEAN, full => Len(k) >= 2 + FullBlobIDSize
    PROVE  LET data == Slice(k, 2, Len(k))
               end == CompactBlobIDSize + ShareOffsetSize
               height == Slice(data, 0, HeightSize)
               commitment == Slice(data, HeightSize, CompactBlobIDSize)
               offset == Slice(data, CompactBlobIDSize, end)
               size == Slice(data, end, FullBlobIDSize)
           IN  /\ Len(data) = Len(k) - 2
               /\ height \in [1..HeightSize -> Bytes]
               /\ \A i \in 1..HeightSize: height[i] = k[2 + i]
               /\ commitment \in [1..CommitmentSize -> Bytes]
               /\ \A i \in 1..CommitmentSize:
                      commitment[i] = k[2 + HeightSize + i]
               /\ full => /\ offset \in [1..ShareOffsetSize -> Bytes]
                          /\ \A i \in 1..ShareOffsetSize:
                                 offset[i] = k[2 + CompactBlobIDSize + i]
                          /\ size \in [1..ShareSizeSize -> Bytes]
                          /\ \A i \in 1..ShareSizeSize:
                                 size[i] = k[2 + CompactBlobIDSize
                                               + ShareOffsetSize + i]
<1> DEFINE data == Slice(k, 2, Len(k))
           end == CompactBlobIDSize + ShareOffsetSize
<1>1. /\ data \in Seq(Bytes) /\ Len(data) = Len(k) - 2
      /\ \A i \in 1 .. Len(k) - 2: data[i] = k[2 + i]
  <2>1. 2 \in Nat /\ Len(k) \in Nat /\ 2 <= Len(k)
    BY Widths
  <2> QED BY <2>1, WithoutFirst
<1> HIDE DEF data
<1>2. ASSUME NEW from \in Nat, NEW n \in Nat, NEW to,
             to = from + n, to <= Len(data)
      PROVE  /\ Slice(data, from, to) \in [1..n -> Bytes]
             /\ \A i \in 1..n: Slice(data, from, to)[i] = k[2 + from + i]
  <2>1. /\ Slice(data, from, to) \in [1..n -> Bytes]
        /\ \A i \in 1..n: Slice(data, from, to)[i] = data[from + i]
    BY <1>1, <1>2, SliceIsBytes
  <2>2. ASSUME NEW i \in 1..n
        PROVE  Slice(data, from, to)[i] = k[2 + from + i]
    <3>1. from + i \in 1 .. Len(k) - 2 /\ 2 + (from + i) = 2 + from + i
      BY <1>1, <1>2
    <3> QED BY <1>1, <2>1, <3>1
  <2> QED BY <2>1, <2>2
<1>3. /\ Slice(data, 0, HeightSize) \in [1..HeightSize -> Bytes]
      /\ \A i \in 1..HeightSize:
             Slice(data, 0, HeightSize)[i] = k[2 + 0 + i]
  <2>1. 0 \in Nat /\ HeightSize = 0 + HeightSize /\ HeightSize <= Len(data)
    BY <1>1, Widths
  <2> QED BY <1>2, <2>1, Widths
<1>4. \A i \in 1..HeightSize: 2 + 0 + i = 2 + i
  BY Widths
<1>5. /\ Slice(data, HeightSize, CompactBlobIDSize)
             \in [1..CommitmentSize -> Bytes]
      /\ \A i \in 1..CommitmentSize:
             Slice(data, HeightSize, CompactBlobIDSize)[i]
                 = k[2 + HeightSize + i]
  <2>1. /\ CompactBlobIDSize <= Len(data)
        /\ HeightSize \in Nat /\ CommitmentSize \in Nat
        /\ CompactBlobIDSize = HeightSize + CommitmentSize
    BY <1>1, Widths
  <2> QED BY <1>2, <2>1, Zenon
<1>6. ASSUME full
      PROVE  /\ Slice(data, CompactBlobIDSize, end)
                    \in [1..ShareOffsetSize -> Bytes]
             /\ \A i \in 1..ShareOffsetSize:
                    Slice(data, CompactBlobIDSize, end)[i]
                        = k[2 + CompactBlobIDSize + i]
  <2>1. /\ end <= Len(data) /\ end = CompactBlobIDSize + ShareOffsetSize
        /\ CompactBlobIDSize \in Nat /\ ShareOffsetSize \in Nat
    BY <1>1, <1>6, Widths
  <2> HIDE DEF end
  <2> QED BY <1>2, <2>1, Zenon
<1>7. ASSUME full
      PROVE  /\ Slice(data, end, FullBlobIDSize) \in [1..ShareSizeSize -> Bytes]
             /\ \A i \in 1..ShareSizeSize:
                    Slice(data, end, FullBlobIDSize)[i] = k[2 + end + i]
  <2>1. /\ FullBlobIDSize <= Len(data) /\ FullBlobIDSize = end + ShareSizeSize
        /\ end \in Nat /\ ShareSizeSize \in Nat
    BY <1>1, <1>7, Widths
  <2> HIDE DEF end
  <2> QED BY <1>2, <2>1, Zenon
<1>8. \A i \in 1..ShareSizeSize:
          2 + end + i = 2 + CompactBlobIDSize + ShareOffsetSize + i
  BY Widths
<1> QED BY <1>1, <1>3, <1>4, <1>5, <1>6, <1>7, <1>8 DEF data

LEMMA CompactIDs ==
    ASSUME NEW i \in CelestiaBlobIDs, NEW h \in Words(HeightSize),
           NEW c \in [1..CommitmentSize -> Bytes]
    PROVE  [compact |-> TRUE, height |-> h, commitment |-> c,
            shareOffset |-> 0, shareSize |-> 0] \in CelestiaBlobIDs
<1>1. PICK f \in FullIDs: TRUE
  BY DEF CelestiaBlobIDs
<1> DEFINE j == [compact |-> FALSE, height |-> h, commitment |-> c,
                 shareOffset |-> f.shareOffset, shareSize |-> f.shareSize]
<1>2. j \in FullIDs /\ j.height = h /\ j.commitment = c
  BY DEF FullIDs
<1> HIDE DEF j
<1> DEFINE i0 == [j EXCEPT !.compact = TRUE, !.shareOffset = 0,
                           !.shareSize = 0]
<1>3. i0 \in CelestiaBlobIDs
  BY <1>2 DEF CelestiaBlobIDs
<1>4. i0 = [compact |-> TRUE, height |-> h, commitment |-> c,
            shareOffset |-> 0, shareSize |-> 0]
  BY <1>2, CompactIs
<1> QED BY <1>3, <1>4

(* An accepted commitment is long enough, begins with the prefix and is    *)
(* decoded by its length.                                                  *)
LEMMA AcceptedIs ==
    ASSUME NEW k \in Seq(Bytes), parseBlobIDFromCommitment(k) # Invalid
    PROVE  /\ Len(k) >= 2 + CompactBlobIDSize
           /\ k[1] = GenericByte /\ k[2] = VersionByte
           /\ parseBlobIDFromCommitment(k) =
                  Parsed(Decode(Slice(k, 2, Len(k)),
                                Len(k) >= 2 + FullBlobIDSize))
<1>1. /\ Len(k) >= 2 + CompactBlobIDSize
      /\ k[1] = GenericByte /\ k[2] = VersionByte
      /\ parseBlobIDFromCommitment(k) =
             Parsed(UnmarshalBinary(Slice(k, 2, Len(k))))
  BY DEF parseBlobIDFromCommitment
<1>2. Len(Slice(k, 2, Len(k))) = Len(k) - 2
  BY <1>1, DecodedIs, Widths
<1>3. Len(Slice(k, 2, Len(k))) >= FullBlobIDSize
          <=> Len(k) >= 2 + FullBlobIDSize
  BY <1>2, Widths
<1>4. (Len(Slice(k, 2, Len(k))) >= FullBlobIDSize)
          = (Len(k) >= 2 + FullBlobIDSize)
  BY <1>3
<1> QED BY <1>1, <1>4 DEF UnmarshalBinary

LEMMA ParsedType ==
    ASSUME NEW k \in Seq(Bytes), id \in CelestiaBlobIDs
    PROVE  \/ parseBlobIDFromCommitment(k) = Invalid
           \/ \E i \in CelestiaBlobIDs: parseBlobIDFromCommitment(k) = Parsed(i)
<1> SUFFICES ASSUME parseBlobIDFromCommitment(k) # Invalid
             PROVE  \E i \in CelestiaBlobIDs:
                        parseBlobIDFromCommitment(k) = Parsed(i)
  OBVIOUS
<1> DEFINE data == Slice(k, 2, Len(k))
           full == Len(k) >= 2 + FullBlobIDSize
           end == CompactBlobIDSize + ShareOffsetSize
<1>1. Len(k) >= 2 + CompactBlobIDSize
      /\ parseBlobIDFromCommitment(k) = Parsed(Decode(data, full))
  BY AcceptedIs
<1>2. full \in BOOLEAN
  OBVIOUS
<1>3. /\ Slice(data, 0, HeightSize) \in [1..HeightSize -> Bytes]
      /\ Slice(data, HeightSize, CompactBlobIDSize)
             \in [1..CommitmentSize -> Bytes]
      /\ full => /\ Slice(data, CompactBlobIDSize, end)
                        \in [1..ShareOffsetSize -> Bytes]
                 /\ Slice(data, end, FullBlobIDSize)
                        \in [1..ShareSizeSize -> Bytes]
  BY <1>1, <1>2, DecodedIs
<1> DEFINE h == Uint(Slice(data, 0, HeightSize))
           c == Slice(data, HeightSize, CompactBlobIDSize)
           o == Uint(Slice(data, CompactBlobIDSize, end))
           z == Uint(Slice(data, end, FullBlobIDSize))
<1>4. /\ h \in Words(HeightSize)
      /\ full => o \in Words(ShareOffsetSize) /\ z \in Words(ShareSizeSize)
  BY <1>3, BinaryAssumption
<1>5. Decode(data, full) =
          [compact |-> ~full, height |-> h, commitment |-> c,
           shareOffset |-> IF full THEN o ELSE 0,
           shareSize |-> IF full THEN z ELSE 0]
  BY DEF Decode
<1> HIDE DEF data, h, c, o, z
<1>6. CASE full
  <2>1. Decode(data, full) = [compact |-> FALSE, height |-> h,
                              commitment |-> c, shareOffset |-> o,
                              shareSize |-> z]
    BY <1>5, <1>6
  <2>2. Decode(data, full) \in FullIDs
    <3>1. /\ h \in Words(HeightSize) /\ c \in [1..CommitmentSize -> Bytes]
          /\ o \in Words(ShareOffsetSize) /\ z \in Words(ShareSizeSize)
      BY <1>3, <1>4, <1>6 DEF c
    <3>2. [compact |-> FALSE, height |-> h, commitment |-> c,
           shareOffset |-> o, shareSize |-> z] \in FullIDs
      BY <3>1 DEF FullIDs
    <3> QED BY <2>1, <3>2
  <2> QED BY <1>1, <2>2 DEF CelestiaBlobIDs
<1>7. CASE ~full
  <2>1. Decode(data, full) = [compact |-> TRUE, height |-> h,
                              commitment |-> c, shareOffset |-> 0,
                              shareSize |-> 0]
    BY <1>5, <1>7
  <2> QED BY <1>1, <1>3, <1>4, <2>1, CompactIDs DEF c
<1> QED BY <1>6, <1>7

-----------------------------------------------------------------------------
(* The inductive invariant                                                 *)

ResultInv == result # Pending => result = parseBlobIDFromCommitment(key)

LEMMA StatusesDiffer ==
    /\ Pending # Invalid
    /\ \A i: Parsed(i) # Pending /\ Parsed(i) # Invalid /\ Parsed(i).id = i
BY DEF Pending, Invalid, Parsed

LEMMA InvInit == Init => IInv
<1> SUFFICES ASSUME Init
             PROVE  IInv
  OBVIOUS
<1> DEFINE published == Commitment(id)
<1>1. /\ id \in CelestiaBlobIDs /\ key = published
      /\ dropped = 0 /\ added = 0 /\ stripped = 0 /\ result = Pending
  BY DEF Init
<1>2. published \in Seq(Bytes)
  BY <1>1, PublishedIs
<1> HIDE DEF published
<1>3. TypeOK
  BY <1>1, <1>2, EditsAssumption DEF TypeOK
<1>4. /\ \A i \in 1..Len(key): i + stripped <= Len(published) =>
                                   key[i] = published[i + stripped]
      /\ Len(key) + stripped = Len(published) + added
  BY <1>1, <1>2
<1>5. KeyInv
  BY <1>1, <1>4 DEF KeyInv, published
<1> QED BY <1>1, <1>3, <1>5 DEF IInv

(* The slices of the steps that change the bytes.                          *)
LEMMA Shorter ==
    ASSUME NEW s \in Seq(Bytes), NEW t, t = Slice(s, 0, Len(s) - 1)
    PROVE  /\ t \in Seq(Bytes)
           /\ Len(s) > 0 => Len(t) = Len(s) - 1
           /\ Len(s) = 0 => Len(t) = 0
           /\ \A i \in 1..Len(t): i \in 1..Len(s) /\ t[i] = s[i]
<1>1. t = SubSeq(s, 1, Len(s) - 1)
  BY DEF Slice
<1>2. CASE Len(s) > 0
  BY <1>1, <1>2
<1>3. CASE Len(s) = 0
  <2>1. t = << >>
    BY <1>1, <1>3, SubSeqEmpty
  <2>2. t \in Seq(Bytes) /\ Len(t) = 0
    <3>1. << >> \in Seq(Bytes) /\ Len(<< >>) = 0
      OBVIOUS
    <3> QED BY <2>1, <3>1, Zenon
  <2>3. ~(Len(s) > 0)
    BY <1>3
  <2>4. \A i \in 1..Len(t): FALSE
    BY <2>2
  <2> QED BY <1>3, <2>2, <2>3, <2>4
<1> QED BY <1>2, <1>3

LEMMA Stripped ==
    ASSUME NEW s \in Seq(Bytes), NEW n \in Nat,
           NEW t, t = Slice(s, n, Len(s))
    PROVE  /\ t \in Seq(Bytes)
           /\ Len(s) >= n => Len(t) = Len(s) - n
           /\ Len(s) < n => Len(t) = 0
           /\ \A i \in 1..Len(t): i + n \in 1..Len(s) /\ t[i] = s[i + n]
<1>1. t = SubSeq(s, n + 1, Len(s))
  BY DEF Slice
<1>2. CASE Len(s) >= n
  BY <1>1, <1>2
<1>3. CASE Len(s) < n
  <2>1. t = << >>
    BY <1>1, <1>3, SubSeqEmpty
  <2> QED BY <1>3, <2>1
<1> QED BY <1>2, <1>3

LEMMA KeyStep ==
    ASSUME IInv, [Next]_vars
    PROVE  KeyInv' /\ key' \in Seq(Bytes)
<1> DEFINE published == Commitment(id)
<1>1. /\ key \in Seq(Bytes) /\ id \in CelestiaBlobIDs
      /\ dropped \in Nat /\ added \in Nat /\ stripped \in 0..2
  BY EditsAssumption DEF IInv, TypeOK
<1>2. published \in Seq(Bytes) /\ Len(published) \in Nat
      /\ Len(published) >= 2 /\ Len(key) \in Nat
  BY <1>1, PublishedIs, Widths
<1>3. id' = id
  BY DEF Next, AddByte, DropByte, StripPrefix, Parse, vars
<1>4. published' = published
  BY <1>3
<1>5. /\ \A i \in 1..Len(key): i + stripped <= Len(published) =>
                                   key[i] = published[i + stripped]
      /\ dropped = 0 => Len(key) + stripped = Len(published) + added
      /\ dropped # 0 => Len(key) = 0 \/ Len(key) + stripped < Len(published)
  BY DEF IInv, KeyInv
<1>6. ASSUME key' \in Seq(Bytes),
             \A i \in 1..Len(key'): i + stripped' <= Len(published) =>
                                        key'[i] = published[i + stripped'],
             dropped' = 0 => Len(key') + stripped' = Len(published) + added',
             dropped' # 0 => \/ Len(key') = 0
                             \/ Len(key') + stripped' < Len(published)
      PROVE  KeyInv' /\ key' \in Seq(Bytes)
  BY <1>4, <1>6 DEF KeyInv
<1> HIDE DEF published
<1>7. CASE AddByte
  <2>1. PICK b \in Bytes: key' = Append(key, b)
    BY <1>7 DEF AddByte
  <2>2. /\ dropped' = 0 /\ dropped = 0 /\ added' = added + 1
        /\ stripped' = stripped
    BY <1>7 DEF AddByte
  <2>3. /\ key' \in Seq(Bytes) /\ Len(key') = Len(key) + 1
        /\ \A i \in 1..Len(key): key'[i] = key[i]
    BY <1>1, <2>1
  <2>4. ASSUME NEW i \in 1..Len(key'), i + stripped <= Len(published)
        PROVE  key'[i] = published[i + stripped]
    <3>1. i \in 1..Len(key)
      BY <1>1, <1>2, <1>5, <2>2, <2>3, <2>4
    <3> QED BY <1>5, <2>3, <2>4, <3>1
  <2> QED BY <1>1, <1>2, <1>5, <1>6, <2>2, <2>3, <2>4
<1>8. CASE DropByte
  <2>1. /\ key' = Slice(key, 0, Len(key) - 1) /\ added = 0
        /\ dropped' = dropped + 1 /\ added' = added /\ stripped' = stripped
    BY <1>8 DEF DropByte
  <2>2. /\ key' \in Seq(Bytes)
        /\ Len(key) > 0 => Len(key') = Len(key) - 1
        /\ Len(key) = 0 => Len(key') = 0
        /\ \A i \in 1..Len(key'): i \in 1..Len(key) /\ key'[i] = key[i]
    BY <1>1, <2>1, Shorter
  <2>3. dropped' # 0
    BY <1>1, <2>1
  <2>4. Len(key') = 0 \/ Len(key') + stripped' < Len(published)
    BY <1>1, <1>2, <1>5, <2>1, <2>2
  <2> QED BY <1>5, <1>6, <2>1, <2>2, <2>3, <2>4
<1>9. CASE StripPrefix
  <2>1. PICK n \in {1, 2}: stripped' = n /\ key' = Slice(key, n, Len(key))
    BY <1>9 DEF StripPrefix
  <2>2. stripped = 0 /\ dropped' = dropped /\ added' = added
    BY <1>9 DEF StripPrefix
  <2>3. n \in Nat /\ n <= 2
    OBVIOUS
  <2>4. /\ key' \in Seq(Bytes)
        /\ Len(key) >= n => Len(key') = Len(key) - n
        /\ Len(key) < n => Len(key') = 0
        /\ \A i \in 1..Len(key'): i + n \in 1..Len(key) /\ key'[i] = key[i + n]
    BY <1>1, <2>1, <2>3, Stripped
  <2>5. ASSUME NEW i \in 1..Len(key'), i + n <= Len(published)
        PROVE  key'[i] = published[i + n]
    <3>1. key'[i] = key[i + n] /\ i + n \in 1..Len(key)
      BY <2>4
    <3>2. i + n + stripped = i + n /\ i + n \in Int
      BY <2>2, <3>1
    <3> QED BY <1>5, <2>2, <2>5, <3>1, <3>2
  <2>6. dropped' = 0 => Len(key') + stripped' = Len(published) + added'
    BY <1>1, <1>2, <1>5, <2>1, <2>2, <2>3, <2>4
  <2>7. dropped' # 0 => \/ Len(key') = 0
                        \/ Len(key') + stripped' < Len(published)
    BY <1>1, <1>2, <1>5, <2>1, <2>2, <2>3, <2>4
  <2> QED BY <1>6, <2>1, <2>4, <2>5, <2>6, <2>7
<1>10. CASE Parse \/ UNCHANGED vars
  <2>1. UNCHANGED <<key, dropped, added, stripped>>
    BY <1>10 DEF Parse, vars
  <2> QED BY <1>1, <1>5, <1>6, <2>1
<1> QED BY <1>7, <1>8, <1>9, <1>10 DEF Next

LEMMA InvStep == IInv /\ [Next]_vars => IInv'
<1> SUFFICES ASSUME IInv, [Next]_vars
             PROVE  IInv'
  OBVIOUS
<1>1. KeyInv' /\ key' \in Seq(Bytes)
  BY KeyStep
<1>2. TypeOK /\ ResultInv
  BY DEF IInv, ResultInv
<1>3. /\ id' \in CelestiaBlobIDs
      /\ dropped' \in 0..MaxEdits /\ added' \in 0..MaxEdits
      /\ stripped' \in 0..2
  BY <1>2, EditsAssumption DEF TypeOK, Next, AddByte, DropByte, StripPrefix, Parse, vars
<1>4. /\ result' = result \/ result' = parseBlobIDFromCommitment(key)
      /\ result' = Pending \/ key' = key
  <2>1. CASE AddByte \/ DropByte \/ StripPrefix
    BY <2>1 DEF AddByte, DropByte, StripPrefix
  <2>2. CASE Parse \/ UNCHANGED vars
    BY <2>2 DEF Parse, vars
  <2> QED BY <2>1, <2>2 DEF Next
<1>5. ResultInv'
  <2>1. CASE result' = Pending
    BY <2>1 DEF ResultInv
  <2>2. CASE result' # Pending
    <3>1. key' = key /\ result' = parseBlobIDFromCommitment(key)
      BY <1>2, <1>4, <2>2 DEF ResultInv
    <3> QED BY <3>1 DEF ResultInv
  <2> QED BY <2>1, <2>2
<1>6. \/ result' \in {Pending, Invalid}
      \/ result' = Parsed(result'.id) /\ result'.id \in CelestiaBlobIDs
  <2>1. CASE result' = result
    BY <1>2, <2>1 DEF TypeOK
  <2>2. CASE result' = parseBlobIDFromCommitment(key)
    <3>1. key \in Seq(Bytes) /\ id \in CelestiaBlobIDs
      BY <1>2 DEF TypeOK
    <3>2. \/ result' = Invalid
          \/ \E i \in CelestiaBlobIDs: result' = Parsed(i)
      BY <2>2, <3>1, ParsedType
    <3> QED BY <3>2, StatusesDiffer
  <2> QED BY <1>4, <2>1, <2>2
<1> QED BY <1>1, <1>3, <1>5, <1>6 DEF IInv, TypeOK, ResultInv

-----------------------------------------------------------------------------
(* Theorems                                                                *)

(* The bytes on their way are what is left of those published.             *)
THEOREM Invariance == Spec => []IInv
BY InvInit, InvStep, PTL DEF Spec

(* Whatever the bytes, Get reads a blob ID or refuses them.                *)
THEOREM TypeCorrect == Spec => []TypeOK
<1>1. IInv => TypeOK
  BY DEF IInv
<1> QED BY <1>1, Invariance, PTL

(* What an accepted commitment is decoded to, and where from.              *)
LEMMA AcceptedKey ==
    ASSUME IInv, result \notin {Pending, Invalid}
    PROVE  /\ key \in Seq(Bytes) /\ id \in CelestiaBlobIDs
           /\ dropped \in Nat /\ added \in Nat /\ stripped \in 0..2
           /\ Len(key) >= 2 + CompactBlobIDSize
           /\ key[1] = GenericByte /\ key[2] = VersionByte
           /\ result.id = Decode(Slice(key, 2, Len(key)),
                                 Len(key) >= 2 + FullBlobIDSize)
           /\ Len(key) \in Nat
           /\ dropped # 0 => Len(key) + stripped < Len(Commitment(id))
           /\ dropped = 0 => Len(key) + stripped = Len(Commitment(id)) + added
<1>1. /\ key \in Seq(Bytes) /\ id \in CelestiaBlobIDs
      /\ dropped \in Nat /\ added \in Nat /\ stripped \in 0..2
  BY EditsAssumption DEF IInv, TypeOK
<1>2. result = parseBlobIDFromCommitment(key) /\ result # Invalid
  BY DEF IInv
<1>3. /\ Len(key) >= 2 + CompactBlobIDSize
      /\ key[1] = GenericByte /\ key[2] = VersionByte
      /\ result = Parsed(Decode(Slice(key, 2, Len(key)),
                                Len(key) >= 2 + FullBlobIDSize))
  BY <1>1, <1>2, AcceptedIs
<1>4. result.id = Decode(Slice(key, 2, Len(key)),
                         Len(key) >= 2 + FullBlobIDSize)
  BY <1>3 DEF Parsed
<1>5. Len(key) \in Nat /\ Len(key) # 0
  BY <1>1, <1>3, Widths
<1> QED BY <1>1, <1>3, <1>4, <1>5 DEF IInv, KeyInv

LEMMA DecodedHeight ==
    ASSUME IInv, result \notin {Pending, Invalid}, stripped = 0
    PROVE  /\ result.id.height = id.height
           /\ result.id.commitment = id.commitment
           /\ result.id.compact = ~(Len(key) >= 2 + FullBlobIDSize)
<1> DEFINE data == Slice(key, 2, Len(key))
           full == Len(key) >= 2 + FullBlobIDSize
           h == Slice(data, 0, HeightSize)
           c == Slice(data, HeightSize, CompactBlobIDSize)
           published == Commitment(id)
<1>1. key \in Seq(Bytes) /\ id \in CelestiaBlobIDs
      /\ Len(key) >= 2 + CompactBlobIDSize /\ Len(key) \in Nat
  BY AcceptedKey
<1>2. /\ result.id.height = Uint(h) /\ result.id.commitment = c
      /\ result.id.compact = ~full
  BY AcceptedKey DEF Decode
<1>3. full \in BOOLEAN
  OBVIOUS
<1>4. /\ h \in [1..HeightSize -> Bytes]
      /\ \A i \in 1..HeightSize: h[i] = key[2 + i]
      /\ c \in [1..CommitmentSize -> Bytes]
      /\ \A i \in 1..CommitmentSize: c[i] = key[2 + HeightSize + i]
  BY <1>1, <1>3, DecodedIs
<1>5. /\ \A j \in 1..HeightSize:
             published[2 + j] = PutUint(id.height, HeightSize)[j]
      /\ \A j \in 1..CommitmentSize:
             published[2 + HeightSize + j] = id.commitment[j]
      /\ Len(published) \in Nat /\ Len(published) >= 2 + CompactBlobIDSize
  BY <1>1, PublishedIs, Widths
<1>6. ASSUME NEW i \in 1 .. 2 + CompactBlobIDSize
      PROVE  key[i] = published[i]
  <2>1. i \in 1..Len(key) /\ i + stripped <= Len(published)
        /\ i + stripped = i
    BY <1>1, <1>5, Widths
  <2> HIDE DEF published
  <2> QED BY <2>1 DEF IInv, KeyInv, published
<1> HIDE DEF h, c, published, data
<1>7. h = PutUint(id.height, HeightSize)
  <2>1. PutUint(id.height, HeightSize) \in [1..HeightSize -> Bytes]
    BY <1>1, IDsAre, BinaryAssumption
  <2>2. ASSUME NEW i \in 1..HeightSize
        PROVE  h[i] = PutUint(id.height, HeightSize)[i]
    <3>1. 2 + i \in 1 .. 2 + CompactBlobIDSize
      BY Widths
    <3> QED BY <1>4, <1>5, <1>6, <3>1
  <2>3. h \in [1..HeightSize -> Bytes]
    BY <1>4
  <2>4. \A i \in 1..HeightSize: h[i] = PutUint(id.height, HeightSize)[i]
    BY <2>2
  <2> DEFINE p == PutUint(id.height, HeightSize)
  <2> HIDE DEF p
  <2>5. /\ p \in [1..HeightSize -> Bytes]
        /\ \A i \in 1..HeightSize: h[i] = p[i]
    BY <2>1, <2>4 DEF p
  <2>6. h = p
    BY <2>3, <2>5, SameBytes, ZenonT(20)
  <2> QED BY <2>6 DEF p
<1>8. c = id.commitment
  <2>1. id.commitment \in [1..CommitmentSize -> Bytes]
    BY <1>1, IDsAre
  <2>2. ASSUME NEW i \in 1..CommitmentSize
        PROVE  c[i] = id.commitment[i]
    <3>1. 2 + HeightSize + i \in 1 .. 2 + CompactBlobIDSize
      BY Widths
    <3> QED BY <1>4, <1>5, <1>6, <3>1
  <2>3. c \in [1..CommitmentSize -> Bytes]
    BY <1>4
  <2>4. \A i \in 1..CommitmentSize: c[i] = id.commitment[i]
    BY <2>2
  <2> QED BY <2>1, <2>3, <2>4, SameBytes
<1>9. Uint(PutUint(id.height, HeightSize)) = id.height
  BY <1>1, IDsAre, BinaryAssumption
<1> QED BY <1>2, <1>7, <1>8, <1>9

(* UnmarshalBinary: whatever was cut off or added, an accepted commitment  *)
(* names the height and the share commitment that were published, so that  *)
(* Celestia is asked for the same blob.                                    *)
THEOREM AliasesNameTheBlob == Spec => []AliasOfSameBlob
<1>1. IInv => AliasOfSameBlob
  BY DecodedHeight DEF AliasOfSameBlob
<1> QED BY <1>1, Invariance, PTL

(* parseBlobIDFromCommitment: without its prefix a blob ID is refused,     *)
(* unless the height's first bytes are the prefix.                         *)
THEOREM BareIsRefused == Spec => []BareRefused
<1>1. IInv => BareRefused
  <2> SUFFICES ASSUME IInv, stripped # 0, result \notin {Pending, Invalid}
               PROVE  /\ stripped = 2
                      /\ id.height % Radix = GenericByte
                      /\ (id.height \div Radix) % Radix = VersionByte
    BY DEF BareRefused
  <2> DEFINE published == Commitment(id)
  <2>1. /\ id \in CelestiaBlobIDs /\ stripped \in 0..2
        /\ key[1] = GenericByte /\ key[2] = VersionByte
        /\ Len(key) >= 2 /\ Len(key) \in Nat
    BY AcceptedKey, Widths
  <2>2. /\ published[2] = VersionByte
        /\ \A j \in 1..HeightSize:
               published[2 + j] = PutUint(id.height, HeightSize)[j]
        /\ Len(published) \in Nat /\ Len(published) >= 4
    <3>1. Len(published) = 2 + (IF id.compact THEN CompactBlobIDSize
                                ELSE FullBlobIDSize)
      BY <2>1, PublishedIs
    <3>2. Len(published) \in Nat /\ Len(published) >= 4
      <4> HIDE DEF published
      <4> QED BY <3>1, Widths
    <3> QED BY <2>1, <3>2, PublishedIs
  <2>3. ASSUME NEW i \in 1..2
        PROVE  key[i] = published[i + stripped]
    <3>1. i \in 1..Len(key) /\ i + stripped <= Len(published)
      BY <2>1, <2>2
    <3> HIDE DEF published
    <3> QED BY <3>1 DEF IInv, KeyInv, published
  <2> HIDE DEF published
  <2>4. stripped = 2
    <3>1. ASSUME stripped = 1
          PROVE  FALSE
      <4>1. key[1] = published[2]
        BY <2>3, <3>1
      <4> QED BY <2>1, <2>2, <4>1, PrefixAssumption
    <3> QED BY <2>1, <3>1
  <2>5. key[1] = published[3] /\ key[2] = published[4]
    BY <2>3, <2>4
  <2>6. /\ published[3] = PutUint(id.height, HeightSize)[1]
        /\ published[4] = PutUint(id.height, HeightSize)[2]
    <3>1. 1 \in 1..HeightSize /\ 2 \in 1..HeightSize /\ 2 + 1 = 3 /\ 2 + 2 = 4
      BY Widths
    <3> QED BY <2>2, <3>1
  <2> QED BY <2>1, <2>4, <2>5, <2>6, IDsAre, LittleEndian
<1> QED BY <1>1, Invariance, PTL

LEMMA DecodedRange ==
    ASSUME IInv, result \notin {Pending, Invalid}, stripped = 0,
           ~id.compact, dropped = 0
    PROVE  result.id = id
<1> DEFINE data == Slice(key, 2, Len(key))
           end == CompactBlobIDSize + ShareOffsetSize
           o == Slice(data, CompactBlobIDSize, end)
           z == Slice(data, end, FullBlobIDSize)
           published == Commitment(id)
<1>1. key \in Seq(Bytes) /\ id \in CelestiaBlobIDs
      /\ Len(key) >= 2 + CompactBlobIDSize /\ Len(key) \in Nat
  BY AcceptedKey
<1>2. /\ \A j \in 1..ShareOffsetSize:
             published[2 + CompactBlobIDSize + j] =
                 PutUint(id.shareOffset, ShareOffsetSize)[j]
      /\ \A j \in 1..ShareSizeSize:
             published[2 + CompactBlobIDSize + ShareOffsetSize + j] =
                 PutUint(id.shareSize, ShareSizeSize)[j]
      /\ Len(published) = 2 + FullBlobIDSize
  BY <1>1, PublishedIs
<1>3. Len(key) >= 2 + FullBlobIDSize
  BY <1>2, AcceptedKey, Widths
<1>4. /\ result.id.compact = FALSE
      /\ result.id.height = id.height
      /\ result.id.commitment = id.commitment
  BY <1>3, DecodedHeight
<1>5. /\ result.id = Decode(data, TRUE)
      /\ result.id.shareOffset = Uint(o) /\ result.id.shareSize = Uint(z)
  <2>1. (Len(key) >= 2 + FullBlobIDSize) = TRUE
    BY <1>3
  <2>2. result.id = Decode(data, TRUE)
    BY <2>1, AcceptedKey
  <2> QED BY <2>2 DEF Decode
<1>6. /\ o \in [1..ShareOffsetSize -> Bytes]
      /\ \A i \in 1..ShareOffsetSize: o[i] = key[2 + CompactBlobIDSize + i]
      /\ z \in [1..ShareSizeSize -> Bytes]
      /\ \A i \in 1..ShareSizeSize:
             z[i] = key[2 + CompactBlobIDSize + ShareOffsetSize + i]
  BY <1>1, <1>3, DecodedIs
<1>7. ASSUME NEW i \in 1 .. 2 + FullBlobIDSize
      PROVE  key[i] = published[i]
  <2>1. i \in 1..Len(key) /\ i + stripped <= Len(published)
        /\ i + stripped = i
    BY <1>1, <1>2, <1>3, Widths
  <2> HIDE DEF published
  <2> QED BY <2>1 DEF IInv, KeyInv, published
<1>8. /\ id.shareOffset \in Words(ShareOffsetSize)
      /\ id.shareSize \in Words(ShareSizeSize)
      /\ id.compact = FALSE
  BY <1>1, IDsAre DEF FullIDs
<1>9. /\ PutUint(id.shareOffset, ShareOffsetSize) \in [1..ShareOffsetSize -> Bytes]
      /\ PutUint(id.shareSize, ShareSizeSize) \in [1..ShareSizeSize -> Bytes]
      /\ Uint(PutUint(id.shareOffset, ShareOffsetSize)) = id.shareOffset
      /\ Uint(PutUint(id.shareSize, ShareSizeSize)) = id.shareSize
  BY <1>8, BinaryAssumption
<1> HIDE DEF o, z, published, data, end
<1>10. o = PutUint(id.shareOffset, ShareOffsetSize)
  <2>1. ASSUME NEW i \in 1..ShareOffsetSize
        PROVE  o[i] = PutUint(id.shareOffset, ShareOffsetSize)[i]
    <3>1. 2 + CompactBlobIDSize + i \in 1 .. 2 + FullBlobIDSize
      BY Widths
    <3> QED BY <1>2, <1>6, <1>7, <3>1
  <2>2. /\ o \in [1..ShareOffsetSize -> Bytes]
        /\ PutUint(id.shareOffset, ShareOffsetSize) \in [1..ShareOffsetSize -> Bytes]
    BY <1>6, <1>9
  <2>3. \A i \in 1..ShareOffsetSize: o[i] = PutUint(id.shareOffset, ShareOffsetSize)[i]
    BY <2>1
  <2> QED BY <2>2, <2>3, SameBytes
<1>11. z = PutUint(id.shareSize, ShareSizeSize)
  <2>1. ASSUME NEW i \in 1..ShareSizeSize
        PROVE  z[i] = PutUint(id.shareSize, ShareSizeSize)[i]
    <3>1. 2 + CompactBlobIDSize + ShareOffsetSize + i
              \in 1 .. 2 + FullBlobIDSize
      BY Widths
    <3> QED BY <1>2, <1>6, <1>7, <3>1
  <2>2. /\ z \in [1..ShareSizeSize -> Bytes]
        /\ PutUint(id.shareSize, ShareSizeSize) \in [1..ShareSizeSize -> Bytes]
    BY <1>6, <1>9
  <2>3. \A i \in 1..ShareSizeSize: z[i] = PutUint(id.shareSize, ShareSizeSize)[i]
    BY <2>1
  <2> QED BY <2>2, <2>3, SameBytes
<1>12. /\ result.id.compact = id.compact /\ result.id.height = id.height
       /\ result.id.commitment = id.commitment
       /\ result.id.shareOffset = id.shareOffset
       /\ result.id.shareSize = id.shareSize
  BY <1>4, <1>5, <1>8, <1>9, <1>10, <1>11
<1>13. result.id = [compact |-> result.id.compact, height |-> result.id.height,
                    commitment |-> result.id.commitment,
                    shareOffset |-> result.id.shareOffset,
                    shareSize |-> result.id.shareSize]
  BY <1>5 DEF Decode
<1> QED BY <1>1, <1>12, <1>13, IDsAre

LEMMA DecodedCompact ==
    ASSUME IInv, result \notin {Pending, Invalid}, stripped = 0, id.compact
    PROVE  /\ added < ShareOffsetSize + ShareSizeSize => result.id = id
           /\ added >= ShareOffsetSize + ShareSizeSize => ~result.id.compact
<1>1. key \in Seq(Bytes) /\ id \in CelestiaBlobIDs
      /\ Len(key) >= 2 + CompactBlobIDSize /\ Len(key) \in Nat
  BY AcceptedKey
<1>2. Len(Commitment(id)) = 2 + CompactBlobIDSize
  BY <1>1, PublishedIs
<1>3. dropped \in Nat /\ added \in Nat
  BY EditsAssumption DEF IInv, TypeOK
<1>4. Len(key) = 2 + CompactBlobIDSize + added
  <2>1. dropped = 0
    <3> SUFFICES ASSUME dropped # 0 PROVE FALSE
      OBVIOUS
    <3>1. Len(key) = 0 \/ Len(key) + stripped < Len(Commitment(id))
      BY DEF IInv, KeyInv
    <3> QED BY <1>1, <1>2, <3>1, Widths
  <2>2. Len(key) + stripped = Len(Commitment(id)) + added
    BY <2>1 DEF IInv, KeyInv
  <2> QED BY <1>1, <1>2, <1>3, <2>2, Widths
<1>5. FullBlobIDSize = CompactBlobIDSize + ShareOffsetSize + ShareSizeSize
  BY DEF FullBlobIDSize
<1>6. ASSUME added < ShareOffsetSize + ShareSizeSize
      PROVE  result.id = id
  <2>1. ~(Len(key) >= 2 + FullBlobIDSize)
    BY <1>3, <1>4, <1>5, <1>6, Widths
  <2>2. /\ result.id.compact = TRUE /\ result.id.height = id.height
        /\ result.id.commitment = id.commitment
    BY <2>1, DecodedHeight
  <2>3. /\ result.id.shareOffset = 0 /\ result.id.shareSize = 0
        /\ result.id = [compact |-> result.id.compact,
                        height |-> result.id.height,
                        commitment |-> result.id.commitment,
                        shareOffset |-> result.id.shareOffset,
                        shareSize |-> result.id.shareSize]
    BY <2>1, AcceptedKey DEF Decode
  <2>4. /\ id.shareOffset = 0 /\ id.shareSize = 0 /\ id.compact = TRUE
        /\ id = [compact |-> id.compact, height |-> id.height,
                 commitment |-> id.commitment,
                 shareOffset |-> id.shareOffset, shareSize |-> id.shareSize]
    BY <1>1, IDsAre
  <2> QED BY <2>2, <2>3, <2>4
<1>7. ASSUME added >= ShareOffsetSize + ShareSizeSize
      PROVE  ~result.id.compact
  <2>1. Len(key) >= 2 + FullBlobIDSize
    BY <1>3, <1>4, <1>5, <1>7, Widths
  <2> QED BY <2>1, DecodedHeight
<1> QED BY <1>6, <1>7

(* UnmarshalBinary: a share range is the published one or absent, or, of a *)
(* compact ID, made of the bytes that were added.                          *)
THEOREM RangesAreTraced == Spec => []RangePublishedOrAdded
<1>1. IInv => RangePublishedOrAdded
  <2> SUFFICES ASSUME IInv, stripped = 0, result \notin {Pending, Invalid}
               PROVE  RangePublishedOrAdded
    BY DEF RangePublishedOrAdded
  <2>1. ASSUME ~id.compact, dropped # 0
        PROVE  result.id.compact
    <3>1. Len(Commitment(id)) = 2 + FullBlobIDSize
      BY <2>1, AcceptedKey, PublishedIs
    <3>2. ~(Len(key) >= 2 + FullBlobIDSize)
      BY <2>1, <3>1, AcceptedKey, Widths
    <3> QED BY <3>2, DecodedHeight
  <2>2. ~id.compact /\ dropped = 0 => result.id = id
    BY DecodedRange
  <2> QED BY <2>1, <2>2, DecodedCompact DEF RangePublishedOrAdded
<1> QED BY <1>1, Invariance, PTL

(* MarshalBinary and UnmarshalBinary: what Put encodes is what Get         *)
(* decodes.                                                                *)
THEOREM EncodedIsDecoded == Spec => []RoundTrip
<1>1. IInv => RoundTrip
  <2> SUFFICES ASSUME IInv, dropped = 0, added = 0, stripped = 0,
                      result # Pending
               PROVE  result = Parsed(id)
    BY DEF RoundTrip, Untouched
  <2>1. key \in Seq(Bytes) /\ id \in CelestiaBlobIDs
    BY DEF IInv, TypeOK
  <2>2. Len(key) = 2 + (IF id.compact THEN CompactBlobIDSize
                        ELSE FullBlobIDSize)
    BY <2>1, PublishedIs, Widths DEF IInv, KeyInv
  <2>3. key[1] = GenericByte /\ key[2] = VersionByte
    <3>1. /\ Commitment(id)[1] = GenericByte /\ Commitment(id)[2] = VersionByte
          /\ Len(Commitment(id)) >= 2 /\ Len(Commitment(id)) \in Nat
      <4>1. Len(Commitment(id)) = 2 + (IF id.compact THEN CompactBlobIDSize
                                       ELSE FullBlobIDSize)
        BY <2>1, PublishedIs
      <4>2. Len(Commitment(id)) \in Nat /\ Len(Commitment(id)) >= 2
        BY <4>1, Widths
      <4> QED BY <2>1, <4>2, PublishedIs
    <3>2. ASSUME NEW i \in 1..2
          PROVE  key[i] = Commitment(id)[i]
      <4>1. i \in 1..Len(key) /\ i + stripped <= Len(Commitment(id))
            /\ i + stripped = i
        BY <2>2, <3>1, Widths
      <4> QED BY <4>1 DEF IInv, KeyInv
    <3> QED BY <3>1, <3>2
  <2>4. result \notin {Pending, Invalid}
    <3>1. Len(key) >= 2 + CompactBlobIDSize
      BY <2>2, Widths
    <3> QED BY <2>3, <3>1, StatusesDiffer DEF IInv, parseBlobIDFromCommitment
  <2>5. result = Parsed(result.id)
    BY <2>4 DEF IInv, TypeOK
  <2>6. CASE ~id.compact
    BY <2>4, <2>5, <2>6, DecodedRange
  <2>7. CASE id.compact
    <3>1. added < ShareOffsetSize + ShareSizeSize
      BY Widths
    <3>2. result.id = id
      BY <2>4, <2>7, <3>1, DecodedCompact
    <3> QED BY <2>5, <3>2
  <2> QED BY <2>6, <2>7
<1> QED BY <1>1, Invariance, PTL

=============================================================================
