--------------------------- MODULE DAServer_proofs ---------------------------
(***************************************************************************)
(* For every number of requests, payloads, heights, configurations and     *)
(* crashes: what is acknowledged, served and kept in the bucket is what    *)
(* Celestia published.  Each of the five parts of IInv is preserved by     *)
(* every step; the properties follow from IInv.                            *)
(***************************************************************************)
EXTENDS DAServer, TLAPS

USE DEF Requests

(* A certificate is a commitment, of the height it was made for.           *)
LEMMA CertificateType ==
    ASSUME NEW h \in Heights, NEW b \in Blobs
    PROVE  /\ Certificate(h, b) \in Commitments
           /\ Certificate(h, b).height = h
           /\ Certificate(h, b) # NoComm
BY CommitAssumption, NoCommAssumption DEF Certificate, Commitments

(* The keys made of a commitment are keys of the bucket.                   *)
LEMMA KeyType ==
    ASSUME NEW c \in Commitments
    PROVE  CanonicalKey(c) \in Keys /\ LegacyKey(c) \in Keys
BY DEF CanonicalKey, LegacyKey, Keys, Commitments

(* Counting keeps the counters natural numbers.                            *)
LEMMA CountType ==
    ASSUME TypeOK, NEW cs, Count(cs)
    PROVE  metrics' \in [Counters -> Nat]
BY DEF Count, TypeOK

(* Registering a writer keeps the types of writers and WaitGroup.          *)
LEMMA RegisterType ==
    ASSUME TypeOK, NEW r \in Requests, RegisterIfEnabled(r)
    PROVE  /\ writer' \in [Requests -> {"none", "ended", "killed"} \cup Writing]
           /\ wg' \in Int
BY DEF RegisterIfEnabled, Register, TypeOK, Writing

(* The bucket after a PutObject is a bucket.                               *)
LEMMA PutObjectType ==
    ASSUME TypeOK, NEW r \in Requests
    PROVE  PutObject(r) \in [Keys -> Blobs \cup {NoData}]
<1>1. data[r] \in Blobs \cup {NoData}
  BY DEF TypeOK
<1>2. bucket \in [Keys -> Blobs \cup {NoData}]
  BY DEF TypeOK
<1> QED
  BY <1>1, <1>2 DEF PutObject

(* What getObject returns is a payload or none, and the handler moves on.  *)
LEMMA ReadObjectType ==
    ASSUME TypeOK, NEW g \in Requests, NEW from, NEW absent, NEW key \in Keys,
           ReadObject(g, from, key, absent), absent \in Running
    PROVE  /\ pc' \in [Requests -> {"idle"} \cup Running \cup Ended]
           /\ data' \in [Requests -> Blobs \cup {NoData}]
<1>1. bucket[key] \in Blobs \cup {NoData}
  BY DEF TypeOK
<1> QED
  BY <1>1 DEF ReadObject, Goto, TypeOK, Running, GetPcs

(* The initial states satisfy the inductive invariant.                     *)
LEMMA InitInv == Init => IInv
<1> SUFFICES ASSUME Init PROVE IInv
  OBVIOUS
<1>1. TypeOK
  BY HeightAssumption, CrashesAssumption, ConfigAssumption
  DEF Init, TypeOK, Zero, Heights
<1>2. ASSUME NEW p \in Puts PROVE PutTracked(p)
  <2>1. /\ pc[p] = "idle" /\ p \notin mempool /\ comm[p] = NoComm
        /\ reply[p] = 0 /\ included[p] = 0
    BY DEF Init
  <2> QED
    BY <2>1 DEF PutTracked, PutPcs
<1>3. ASSUME NEW g \in Gets PROVE GetTracked(g)
  BY DEF Init, GetTracked, GetPcs
<1>4. ASSUME NEW r \in Requests PROVE WriterTracked(r)
  BY DEF Init, WriterTracked, Writing
<1>5. BucketOnlyPublished
  BY DEF Init, BucketOnlyPublished
<1> QED
  BY <1>1, <1>2, <1>3, <1>4, <1>5 DEF IInv

(* Every step keeps the types.                                             *)
LEMMA TypeStep == IInv /\ [Next]_vars => TypeOK'
<1> SUFFICES ASSUME IInv, [Next]_vars PROVE TypeOK'
  OBVIOUS
<1> USE DEF celestia, requests, process
<1>0. /\ TypeOK
      /\ \A p \in Puts: PutTracked(p)
      /\ \A g \in Gets: GetTracked(g)
  BY DEF IInv
<1> USE DEF PutPcs, GetPcs, Running, Ended, Goto, Respond
<1>1. ASSUME NEW p \in Puts, RejectPut(p) PROVE TypeOK'
  BY <1>0, <1>1 DEF RejectPut, TypeOK
<1>2. ASSUME NEW p \in Puts, ReceivePut(p) PROVE TypeOK'
  BY <1>0, <1>2 DEF ReceivePut, TypeOK
<1>3. ASSUME NEW p \in Puts, BroadcastPut(p) PROVE TypeOK'
  BY <1>0, <1>3 DEF BroadcastPut, TypeOK
<1>4. ASSUME NEW p \in Puts, SubmitReturns(p) PROVE TypeOK'
  <2>1. included[p] \in Heights \cup {0} /\ included[p] # 0
    BY <1>0, <1>4 DEF SubmitReturns, TypeOK
  <2>3. included[p] \in Heights /\ data[p] \in Blobs
    BY <2>1, <1>0 DEF PutTracked
  <2>2. Certificate(included[p], data[p]) \in Commitments
    BY <2>3, CertificateType
  <2> QED
    BY <1>0, <1>4, <2>2 DEF SubmitReturns, TypeOK
<1>5. ASSUME NEW p \in Puts, SubmitFails(p) PROVE TypeOK'
  BY <1>0, <1>5 DEF SubmitFails, TypeOK
<1>6. ASSUME NEW p \in Puts, RefetchReturns(p) PROVE TypeOK'
  BY <1>0, <1>6 DEF RefetchReturns, TypeOK
<1>7. ASSUME NEW p \in Puts, RefetchFails(p) PROVE TypeOK'
  BY <1>0, <1>7 DEF RefetchFails, TypeOK
<1>8. ASSUME NEW p \in Puts, RefetchPanics(p) PROVE TypeOK'
  BY <1>0, <1>8 DEF RefetchPanics, TypeOK
<1>9. ASSUME NEW p \in Puts, RecordPut(p) PROVE TypeOK'
  <2>1. comm[p] # NoComm
    BY <1>0, <1>9 DEF RecordPut, PutTracked
  <2>2. comm[p].height \in Heights
    BY <1>0, <2>1 DEF TypeOK, Commitments
  <2>3. metrics' \in [Counters -> Nat]
    BY <1>0, <1>9, CountType DEF RecordPut
  <2> QED
    BY <1>0, <1>9, <2>2, <2>3 DEF RecordPut, TypeOK
<1>10. ASSUME NEW p \in Puts, StorePut(p) PROVE TypeOK'
  <2>1. /\ writer' \in [Requests -> {"none", "ended", "killed"} \cup Writing]
        /\ wg' \in Int
    BY <1>0, <1>10, RegisterType DEF StorePut
  <2> QED
    BY <1>0, <1>10, <2>1 DEF StorePut, TypeOK
<1>11. ASSUME NEW p \in Puts, AnswerPut(p) PROVE TypeOK'
  BY <1>0, <1>11 DEF AnswerPut, TypeOK
<1>12. ASSUME NEW p \in Puts, AnswerPutError(p) PROVE TypeOK'
  <2>1. metrics' \in [Counters -> Nat]
    BY <1>0, <1>12, CountType DEF AnswerPutError
  <2> QED
    BY <1>0, <1>12, <2>1 DEF AnswerPutError, TypeOK
<1>13. ASSUME NEW p \in Puts, IncludePut(p) PROVE TypeOK'
  <2>1. [height |-> head, data |-> data[p]] \in [height: Heights, data: Blobs]
    <3>1. p \in mempool /\ PutTracked(p)
      BY <1>0, <1>13 DEF IncludePut
    <3>2. data[p] \in Blobs /\ head \in Heights
      BY <1>0, <3>1 DEF PutTracked, TypeOK
    <3> QED
      BY <3>2
  <2> QED
    BY <1>0, <1>13, <2>1 DEF IncludePut, TypeOK
<1>14. ASSUME NEW g \in Gets, RejectGet(g) PROVE TypeOK'
  BY <1>0, <1>14 DEF RejectGet, TypeOK
<1>15. ASSUME NEW g \in Gets, ReceiveGet(g) PROVE TypeOK'
  BY <1>0, <1>15 DEF ReceiveGet, TypeOK
<1>16. ASSUME NEW g \in Gets, RetrieveFinds(g) PROVE TypeOK'
  BY <1>0, <1>16 DEF RetrieveFinds, TypeOK
<1>17. ASSUME NEW g \in Gets, RetrieveMisses(g) PROVE TypeOK'
  BY <1>0, <1>17 DEF RetrieveMisses, TypeOK
<1>18. ASSUME NEW g \in Gets, RetrieveFails(g) PROVE TypeOK'
  BY <1>0, <1>18 DEF RetrieveFails, TypeOK
<1>19. ASSUME NEW g \in Gets, ReadCanonical(g) PROVE TypeOK'
  <2>1. comm[g] \in Commitments
    BY <1>0, <1>19 DEF ReadCanonical, ReadObject, GetTracked
  <2>2. /\ pc' \in [Requests -> {"idle"} \cup Running \cup Ended]
        /\ data' \in [Requests -> Blobs \cup {NoData}]
    BY <1>0, <1>19, <2>1, KeyType, ReadObjectType DEF ReadCanonical
  <2> QED
    BY <1>0, <1>19, <2>2 DEF ReadCanonical, TypeOK
<1>20. ASSUME NEW g \in Gets, ReadLegacy(g) PROVE TypeOK'
  <2>1. comm[g] \in Commitments
    BY <1>0, <1>20 DEF ReadLegacy, ReadObject, GetTracked
  <2>2. /\ pc' \in [Requests -> {"idle"} \cup Running \cup Ended]
        /\ data' \in [Requests -> Blobs \cup {NoData}]
    BY <1>0, <1>20, <2>1, KeyType, ReadObjectType DEF ReadLegacy
  <2> QED
    BY <1>0, <1>20, <2>2 DEF ReadLegacy, TypeOK
<1>21. ASSUME NEW g \in Gets, ReadFails(g) PROVE TypeOK'
  BY <1>0, <1>21 DEF ReadFails, TypeOK
<1>22. ASSUME NEW g \in Gets, Verify(g) PROVE TypeOK'
  BY <1>0, <1>22 DEF Verify, TypeOK
<1>23. ASSUME NEW g \in Gets, StoreGet(g) PROVE TypeOK'
  <2>1. /\ writer' \in [Requests -> {"none", "ended", "killed"} \cup Writing]
        /\ wg' \in Int
    BY <1>0, <1>23, RegisterType DEF StoreGet
  <2> QED
    BY <1>0, <1>23, <2>1 DEF StoreGet, TypeOK
<1>24. ASSUME NEW g \in Gets, RecordGet(g) PROVE TypeOK'
  <2>1. metrics' \in [Counters -> Nat]
    BY <1>0, <1>24, CountType DEF RecordGet
  <2> QED
    BY <1>0, <1>24, <2>1 DEF RecordGet, TypeOK
<1>25. ASSUME NEW g \in Gets, AnswerGet(g) PROVE TypeOK'
  BY <1>0, <1>25 DEF AnswerGet, TypeOK
<1>26. ASSUME NEW g \in Gets, AnswerGetError(g) PROVE TypeOK'
  <2>1. metrics' \in [Counters -> Nat]
    BY <1>0, <1>26, CountType DEF AnswerGetError
  <2> QED
    BY <1>0, <1>26, <2>1 DEF AnswerGetError, TypeOK
<1>27. ASSUME NEW r \in Requests, WriterStores(r) PROVE TypeOK'
  <2>1. bucket' \in [Keys -> Blobs \cup {NoData}]
    BY <1>0, <1>27, PutObjectType DEF WriterStores
  <2> QED
    BY <1>0, <1>27, <2>1 DEF WriterStores, TypeOK, Writing
<1>28. ASSUME NEW r \in Requests, WriterFails(r) PROVE TypeOK'
  <2>1. bucket' \in [Keys -> Blobs \cup {NoData}]
    BY <1>0, <1>28, PutObjectType DEF WriterFails, TypeOK
  <2> QED
    BY <1>0, <1>28, <2>1 DEF WriterFails, TypeOK, Writing
<1>29. ASSUME NEW r \in Requests, WriterEnds(r) PROVE TypeOK'
  <2>1. metrics' \in [Counters -> Nat]
    BY <1>0, <1>29, CountType DEF WriterEnds
  <2> QED
    BY <1>0, <1>29, <2>1 DEF WriterEnds, TypeOK
<1>30. ASSUME NEW k \in ForeignKeys, ForeignWrite(k) PROVE TypeOK'
  BY <1>0, <1>30, ForeignAssumption DEF ForeignWrite, TypeOK
<1>31. CASE NextBlock
  BY <1>0, <1>31, HeightAssumption DEF NextBlock, TypeOK, Heights
<1>32. CASE Crash
  BY <1>0, <1>32, CrashesAssumption DEF Crash, TypeOK, Zero
<1>33. CASE UNCHANGED vars
  BY <1>0, <1>33 DEF vars, TypeOK
<1> QED
  BY <1>1, <1>2, <1>3, <1>4, <1>5, <1>6, <1>7, <1>8, <1>9, <1>10, <1>11,
     <1>12, <1>13, <1>14, <1>15, <1>16, <1>17, <1>18, <1>19, <1>20, <1>21,
     <1>22, <1>23, <1>24, <1>25, <1>26, <1>27, <1>28, <1>29, <1>30, <1>31,
     <1>32, <1>33 DEF Next, PutStep, GetStep, WriterStep

(* Included blobs stay on Celestia.                                        *)
LEMMA ChainGrows == [Next]_vars => chain \subseteq chain'
BY DEF Next, PutStep, GetStep, WriterStep, vars, celestia,
       RejectPut, ReceivePut, BroadcastPut, SubmitReturns, SubmitFails,
       RefetchReturns, RefetchFails, RefetchPanics, RecordPut, StorePut,
       AnswerPut, AnswerPutError, IncludePut, RejectGet, ReceiveGet,
       RetrieveFinds, RetrieveMisses, RetrieveFails, ReadCanonical,
       ReadLegacy, ReadFails, Verify, StoreGet, RecordGet, AnswerGet,
       AnswerGetError, WriterStores, WriterFails, WriterEnds, ForeignWrite,
       NextBlock, Crash

(* A step that leaves a PUT alone, at most growing the chain, keeps what is*)
(* known of it.                                                            *)
LEMMA PutFrame ==
    ASSUME NEW q \in Puts, PutTracked(q), chain \subseteq chain',
           pc'[q] = pc[q], comm'[q] = comm[q], data'[q] = data[q],
           reply'[q] = reply[q], included'[q] = included[q],
           q \in mempool' => q \in mempool
    PROVE  PutTracked(q)'
BY DEF PutTracked, Published

(* A handler that holds a certificate moves on, holding it.                *)
LEMMA PutMoves ==
    ASSUME NEW q \in Puts, PutTracked(q), chain' = chain,
           comm[q] # NoComm, comm' = comm, data' = data,
           included' = included, mempool' = mempool,
           pc'[q] \in {"putOk", "putStore", "putAnswer", "done"},
           pc'[q] = "done" \/ reply'[q] = 0
    PROVE  PutTracked(q)'
BY DEF PutTracked, Published, PutPcs, Ended

(* Every step keeps what Celestia and the handler of a PUT agree on.       *)
LEMMA PutsStep ==
    IInv /\ [Next]_vars => \A q \in Puts: PutTracked(q)'
<1> SUFFICES ASSUME IInv, [Next]_vars, NEW q \in Puts PROVE PutTracked(q)'
  OBVIOUS
<1>0. /\ TypeOK
      /\ PutTracked(q)
      /\ chain \subseteq chain'
      /\ \A g \in Gets: g # q
  BY ChainGrows, RequestsAssumption DEF IInv
<1> USE DEF Goto, Respond
<1>1. ASSUME NEW p \in Puts, RejectPut(p) PROVE PutTracked(q)'
  BY <1>0, <1>1, PutFrame
  DEF RejectPut, PutTracked, TypeOK, celestia, PutPcs, Ended
<1>2. ASSUME NEW p \in Puts, ReceivePut(p) PROVE PutTracked(q)'
  BY <1>0, <1>2, PutFrame
  DEF ReceivePut, PutTracked, TypeOK, celestia, PutPcs, Ended
<1>3. ASSUME NEW p \in Puts, BroadcastPut(p) PROVE PutTracked(q)'
  <2>1. CASE p = q
    <3>1. pc[q] = "submit" /\ included[q] = 0
      BY <1>3, <2>1 DEF BroadcastPut
    <3> QED
      BY <1>0, <1>3, <2>1, <3>1
      DEF BroadcastPut, PutTracked, requests, PutPcs, Ended
  <2>2. CASE p # q
    BY <1>0, <1>3, <2>2, PutFrame DEF BroadcastPut, TypeOK, requests
  <2> QED
    BY <2>1, <2>2
<1>4. ASSUME NEW p \in Puts, SubmitReturns(p) PROVE PutTracked(q)'
  <2>1. CASE p = q
    <3>1. /\ included[q] \in Heights
          /\ data[q] \in Blobs
          /\ [height |-> included[q], data |-> data[q]] \in chain
      BY <1>0, <1>4, <2>1 DEF SubmitReturns, PutTracked, TypeOK
    <3>2. /\ comm'[q] = Certificate(included[q], data[q])
          /\ pc'[q] \in {"putOk", "refetch"}
      BY <1>0, <1>4, <2>1 DEF SubmitReturns, TypeOK
    <3>3. Published(comm[q], data[q])' /\ comm'[q] # NoComm
      BY <1>4, <3>1, <3>2, CertificateType
      DEF SubmitReturns, Published, celestia
    <3> QED
      BY <1>0, <1>4, <2>1, <3>1, <3>2, <3>3
      DEF SubmitReturns, PutTracked, celestia, PutPcs, Ended
  <2>2. CASE p # q
    BY <1>0, <1>4, <2>2, PutFrame DEF SubmitReturns, TypeOK, celestia
  <2> QED
    BY <2>1, <2>2
<1>5. ASSUME NEW p \in Puts, SubmitFails(p) PROVE PutTracked(q)'
  BY <1>0, <1>5, PutFrame
  DEF SubmitFails, PutTracked, TypeOK, celestia, PutPcs, Ended
<1>6. ASSUME NEW p \in Puts, RefetchReturns(p) PROVE PutTracked(q)'
  <2>1. CASE p = q
    <3>1. comm[q] # NoComm
      BY <1>0, <1>6, <2>1 DEF RefetchReturns, PutTracked
    <3>2. /\ pc'[q] \in {"putOk", "putStore", "putAnswer", "done"}
          /\ pc'[q] = "done" \/ reply'[q] = 0
      BY <1>0, <1>6, <2>1 DEF RefetchReturns, PutTracked, TypeOK, PutPcs
    <3> QED
      BY <1>0, <1>6, <2>1, <3>1, <3>2, PutMoves DEF RefetchReturns, celestia
  <2>2. CASE p # q
    BY <1>0, <1>6, <2>2, PutFrame DEF RefetchReturns, TypeOK, celestia
  <2> QED
    BY <2>1, <2>2
<1>7. ASSUME NEW p \in Puts, RefetchFails(p) PROVE PutTracked(q)'
  <2>1. CASE p = q
    <3>1. /\ pc[q] = "refetch"
          /\ pc'[q] = "putFailed"
          /\ comm'[q] = NoComm
          /\ reply[q] # 200
      BY <1>0, <1>7, <2>1 DEF RefetchFails, PutTracked, TypeOK, PutPcs
    <3> QED
      BY <1>0, <1>7, <2>1, <3>1
      DEF RefetchFails, PutTracked, celestia, PutPcs, Ended
  <2>2. CASE p # q
    BY <1>0, <1>7, <2>2, PutFrame DEF RefetchFails, TypeOK, celestia
  <2> QED
    BY <2>1, <2>2
<1>8. ASSUME NEW p \in Puts, RefetchPanics(p) PROVE PutTracked(q)'
  BY <1>0, <1>8, PutFrame
  DEF RefetchPanics, PutTracked, TypeOK, celestia, PutPcs, Ended
<1>9. ASSUME NEW p \in Puts, RecordPut(p) PROVE PutTracked(q)'
  <2>1. CASE p = q
    <3>1. comm[q] # NoComm
      BY <1>0, <1>9, <2>1 DEF RecordPut, PutTracked
    <3>2. /\ pc'[q] \in {"putOk", "putStore", "putAnswer", "done"}
          /\ pc'[q] = "done" \/ reply'[q] = 0
      BY <1>0, <1>9, <2>1 DEF RecordPut, PutTracked, TypeOK, PutPcs
    <3> QED
      BY <1>0, <1>9, <2>1, <3>1, <3>2, PutMoves DEF RecordPut, celestia
  <2>2. CASE p # q
    BY <1>0, <1>9, <2>2, PutFrame DEF RecordPut, TypeOK, celestia
  <2> QED
    BY <2>1, <2>2
<1>10. ASSUME NEW p \in Puts, StorePut(p) PROVE PutTracked(q)'
  <2>1. CASE p = q
    <3>1. comm[q] # NoComm
      BY <1>0, <1>10, <2>1 DEF StorePut, PutTracked
    <3>2. /\ pc'[q] \in {"putOk", "putStore", "putAnswer", "done"}
          /\ pc'[q] = "done" \/ reply'[q] = 0
      BY <1>0, <1>10, <2>1 DEF StorePut, PutTracked, TypeOK, PutPcs
    <3> QED
      BY <1>0, <1>10, <2>1, <3>1, <3>2, PutMoves DEF StorePut, celestia
  <2>2. CASE p # q
    BY <1>0, <1>10, <2>2, PutFrame DEF StorePut, TypeOK, celestia
  <2> QED
    BY <2>1, <2>2
<1>11. ASSUME NEW p \in Puts, AnswerPut(p) PROVE PutTracked(q)'
  <2>1. CASE p = q
    <3>1. comm[q] # NoComm
      BY <1>0, <1>11, <2>1 DEF AnswerPut, PutTracked
    <3>2. /\ pc'[q] \in {"putOk", "putStore", "putAnswer", "done"}
          /\ pc'[q] = "done" \/ reply'[q] = 0
      BY <1>0, <1>11, <2>1 DEF AnswerPut, PutTracked, TypeOK, PutPcs
    <3> QED
      BY <1>0, <1>11, <2>1, <3>1, <3>2, PutMoves DEF AnswerPut, celestia, process
  <2>2. CASE p # q
    BY <1>0, <1>11, <2>2, PutFrame DEF AnswerPut, TypeOK, celestia
  <2> QED
    BY <2>1, <2>2
<1>12. ASSUME NEW p \in Puts, AnswerPutError(p) PROVE PutTracked(q)'
  BY <1>0, <1>12, PutFrame
  DEF AnswerPutError, PutTracked, TypeOK, celestia, PutPcs, Ended
<1>13. ASSUME NEW p \in Puts, IncludePut(p) PROVE PutTracked(q)'
  <2>1. CASE p = q
    <3>1. /\ q \in mempool /\ q \notin mempool'
          /\ data[q] \in Blobs
          /\ included'[q] = head
          /\ [height |-> head, data |-> data[q]] \in chain'
          /\ pc[q] # "idle"
      BY <1>0, <1>13, <2>1 DEF IncludePut, PutTracked, TypeOK
    <3> QED
      BY <1>0, <1>13, <2>1, <3>1
      DEF IncludePut, PutTracked, Published, requests, PutPcs
  <2>2. CASE p # q
    BY <1>0, <1>13, <2>2, PutFrame DEF IncludePut, TypeOK, requests
  <2> QED
    BY <2>1, <2>2
<1>14. ASSUME NEW g \in Gets, RejectGet(g) PROVE PutTracked(q)'
  BY <1>0, <1>14, PutFrame DEF RejectGet, TypeOK, celestia
<1>15. ASSUME NEW g \in Gets, ReceiveGet(g) PROVE PutTracked(q)'
  BY <1>0, <1>15, PutFrame DEF ReceiveGet, TypeOK, celestia
<1>16. ASSUME NEW g \in Gets, RetrieveFinds(g) PROVE PutTracked(q)'
  BY <1>0, <1>16, PutFrame DEF RetrieveFinds, TypeOK, celestia
<1>17. ASSUME NEW g \in Gets, RetrieveMisses(g) PROVE PutTracked(q)'
  BY <1>0, <1>17, PutFrame DEF RetrieveMisses, TypeOK, celestia
<1>18. ASSUME NEW g \in Gets, RetrieveFails(g) PROVE PutTracked(q)'
  BY <1>0, <1>18, PutFrame DEF RetrieveFails, TypeOK, celestia
<1>19. ASSUME NEW g \in Gets, ReadCanonical(g) PROVE PutTracked(q)'
  BY <1>0, <1>19, PutFrame DEF ReadCanonical, TypeOK, celestia, ReadObject
<1>20. ASSUME NEW g \in Gets, ReadLegacy(g) PROVE PutTracked(q)'
  BY <1>0, <1>20, PutFrame DEF ReadLegacy, TypeOK, celestia, ReadObject
<1>21. ASSUME NEW g \in Gets, ReadFails(g) PROVE PutTracked(q)'
  BY <1>0, <1>21, PutFrame DEF ReadFails, TypeOK, celestia
<1>22. ASSUME NEW g \in Gets, Verify(g) PROVE PutTracked(q)'
  BY <1>0, <1>22, PutFrame DEF Verify, TypeOK, celestia
<1>23. ASSUME NEW g \in Gets, StoreGet(g) PROVE PutTracked(q)'
  BY <1>0, <1>23, PutFrame DEF StoreGet, TypeOK, celestia
<1>24. ASSUME NEW g \in Gets, RecordGet(g) PROVE PutTracked(q)'
  BY <1>0, <1>24, PutFrame DEF RecordGet, TypeOK, celestia
<1>25. ASSUME NEW g \in Gets, AnswerGet(g) PROVE PutTracked(q)'
  BY <1>0, <1>25, PutFrame DEF AnswerGet, TypeOK, celestia
<1>26. ASSUME NEW g \in Gets, AnswerGetError(g) PROVE PutTracked(q)'
  BY <1>0, <1>26, PutFrame DEF AnswerGetError, TypeOK, celestia
<1>27. ASSUME NEW r \in Requests, WriterStores(r) PROVE PutTracked(q)'
  BY <1>0, <1>27, PutFrame DEF WriterStores, celestia, requests
<1>28. ASSUME NEW r \in Requests, WriterFails(r) PROVE PutTracked(q)'
  BY <1>0, <1>28, PutFrame DEF WriterFails, celestia, requests
<1>29. ASSUME NEW r \in Requests, WriterEnds(r) PROVE PutTracked(q)'
  BY <1>0, <1>29, PutFrame DEF WriterEnds, celestia, requests
<1>30. ASSUME NEW k \in ForeignKeys, ForeignWrite(k) PROVE PutTracked(q)'
  BY <1>0, <1>30, PutFrame DEF ForeignWrite, celestia, requests
<1>31. CASE NextBlock
  BY <1>0, <1>31, PutFrame DEF NextBlock, requests
<1>32. CASE Crash
  BY <1>0, <1>32 DEF Crash, PutTracked, Published, TypeOK, celestia,
     Running, Ended, PutPcs
<1>33. CASE UNCHANGED vars
  BY <1>0, <1>33, PutFrame DEF vars, celestia, requests
<1> QED
  BY <1>1, <1>2, <1>3, <1>4, <1>5, <1>6, <1>7, <1>8, <1>9, <1>10, <1>11,
     <1>12, <1>13, <1>14, <1>15, <1>16, <1>17, <1>18, <1>19, <1>20, <1>21,
     <1>22, <1>23, <1>24, <1>25, <1>26, <1>27, <1>28, <1>29, <1>30, <1>31,
     <1>32, <1>33 DEF Next, PutStep, GetStep, WriterStep

(* A step that leaves a GET alone, at most growing the chain, keeps what is*)
(* known of it.                                                            *)
LEMMA GetFrame ==
    ASSUME NEW q \in Gets, GetTracked(q), chain \subseteq chain',
           pc'[q] = pc[q], comm'[q] = comm[q], data'[q] = data[q],
           reply'[q] = reply[q]
    PROVE  GetTracked(q)'
BY DEF GetTracked, Published, Verifies, Parses

(* Every step keeps what getBlob has found.                                *)
LEMMA GetsStep ==
    IInv /\ [Next]_vars => \A q \in Gets: GetTracked(q)'
<1> SUFFICES ASSUME IInv, [Next]_vars, NEW q \in Gets PROVE GetTracked(q)'
  OBVIOUS
<1>0. /\ TypeOK
      /\ GetTracked(q)
      /\ chain \subseteq chain'
      /\ \A p \in Puts: p # q
  BY ChainGrows, RequestsAssumption DEF IInv
<1> USE DEF Goto, Respond
<1>1. ASSUME NEW p \in Puts, RejectPut(p) PROVE GetTracked(q)'
  BY <1>0, <1>1, GetFrame DEF RejectPut, TypeOK, celestia
<1>2. ASSUME NEW p \in Puts, ReceivePut(p) PROVE GetTracked(q)'
  BY <1>0, <1>2, GetFrame DEF ReceivePut, TypeOK, celestia
<1>3. ASSUME NEW p \in Puts, BroadcastPut(p) PROVE GetTracked(q)'
  BY <1>0, <1>3, GetFrame DEF BroadcastPut, TypeOK, requests
<1>4. ASSUME NEW p \in Puts, SubmitReturns(p) PROVE GetTracked(q)'
  BY <1>0, <1>4, GetFrame DEF SubmitReturns, TypeOK, celestia
<1>5. ASSUME NEW p \in Puts, SubmitFails(p) PROVE GetTracked(q)'
  BY <1>0, <1>5, GetFrame DEF SubmitFails, TypeOK, celestia
<1>6. ASSUME NEW p \in Puts, RefetchReturns(p) PROVE GetTracked(q)'
  BY <1>0, <1>6, GetFrame DEF RefetchReturns, TypeOK, celestia
<1>7. ASSUME NEW p \in Puts, RefetchFails(p) PROVE GetTracked(q)'
  BY <1>0, <1>7, GetFrame DEF RefetchFails, TypeOK, celestia
<1>8. ASSUME NEW p \in Puts, RefetchPanics(p) PROVE GetTracked(q)'
  BY <1>0, <1>8, GetFrame DEF RefetchPanics, TypeOK, celestia
<1>9. ASSUME NEW p \in Puts, RecordPut(p) PROVE GetTracked(q)'
  BY <1>0, <1>9, GetFrame DEF RecordPut, TypeOK, celestia
<1>10. ASSUME NEW p \in Puts, StorePut(p) PROVE GetTracked(q)'
  BY <1>0, <1>10, GetFrame DEF StorePut, TypeOK, celestia
<1>11. ASSUME NEW p \in Puts, AnswerPut(p) PROVE GetTracked(q)'
  BY <1>0, <1>11, GetFrame DEF AnswerPut, TypeOK, celestia
<1>12. ASSUME NEW p \in Puts, AnswerPutError(p) PROVE GetTracked(q)'
  BY <1>0, <1>12, GetFrame DEF AnswerPutError, TypeOK, celestia
<1>13. ASSUME NEW p \in Puts, IncludePut(p) PROVE GetTracked(q)'
  BY <1>0, <1>13, GetFrame DEF IncludePut, TypeOK, requests
<1>14. ASSUME NEW g \in Gets, RejectGet(g) PROVE GetTracked(q)'
  <2>1. CASE g = q
    BY <1>0, <1>14, <2>1
    DEF RejectGet, GetTracked, TypeOK, celestia, GetPcs, Ended
  <2>2. CASE g # q
    BY <1>0, <1>14, <2>2, GetFrame DEF RejectGet, TypeOK, celestia
  <2> QED
    BY <2>1, <2>2
<1>15. ASSUME NEW g \in Gets, ReceiveGet(g) PROVE GetTracked(q)'
  <2>1. CASE g = q
    BY <1>0, <1>15, <2>1
    DEF ReceiveGet, GetTracked, TypeOK, celestia, GetPcs, Ended
  <2>2. CASE g # q
    BY <1>0, <1>15, <2>2, GetFrame DEF ReceiveGet, TypeOK, celestia
  <2> QED
    BY <2>1, <2>2
<1>16. ASSUME NEW g \in Gets, RetrieveFinds(g) PROVE GetTracked(q)'
  <2>1. CASE g = q
    <3>1. PICK e \in chain: /\ Certificate(e.height, e.data) = comm[q]
                            /\ data' = [data EXCEPT ![q] = e.data]
      BY <1>16, <2>1 DEF RetrieveFinds
    <3>2. e \in [height: Heights, data: Blobs]
      BY <1>0 DEF TypeOK
    <3>3. comm[q].height = e.height /\ comm[q] \in Commitments
      BY <3>1, <3>2, CertificateType
    <3>4. data'[q] = e.data /\ e.data \in Blobs
      BY <1>0, <3>1, <3>2 DEF TypeOK
    <3>5. [height |-> comm[q].height, data |-> e.data] = e
      BY <3>2, <3>3
    <3>6. pc[q] = "retrieve" /\ pc'[q] = "getStore" /\ reply[q] = 0
      BY <1>0, <1>16, <2>1 DEF RetrieveFinds, GetTracked, TypeOK, GetPcs
    <3> QED
      BY <1>16, <3>1, <3>3, <3>4, <3>5, <3>6
      DEF RetrieveFinds, GetTracked, Published, celestia, GetPcs
  <2>2. CASE g # q
    BY <1>0, <1>16, <2>2, GetFrame DEF RetrieveFinds, TypeOK, celestia
  <2> QED
    BY <2>1, <2>2
<1>17. ASSUME NEW g \in Gets, RetrieveMisses(g) PROVE GetTracked(q)'
  <2>1. CASE g = q
    BY <1>0, <1>17, <2>1
    DEF RetrieveMisses, GetTracked, TypeOK, celestia, GetPcs, Ended
  <2>2. CASE g # q
    BY <1>0, <1>17, <2>2, GetFrame DEF RetrieveMisses, TypeOK, celestia
  <2> QED
    BY <2>1, <2>2
<1>18. ASSUME NEW g \in Gets, RetrieveFails(g) PROVE GetTracked(q)'
  <2>1. CASE g = q
    BY <1>0, <1>18, <2>1
    DEF RetrieveFails, GetTracked, TypeOK, celestia, GetPcs, Ended
  <2>2. CASE g # q
    BY <1>0, <1>18, <2>2, GetFrame DEF RetrieveFails, TypeOK, celestia
  <2> QED
    BY <2>1, <2>2
<1>19. ASSUME NEW g \in Gets, ReadCanonical(g) PROVE GetTracked(q)'
  <2>1. CASE g = q
    <3>1. comm[q] \in Commitments
      BY <1>0, <1>19, <2>1 DEF ReadCanonical, ReadObject, GetTracked, GetPcs
    <3>2. bucket[CanonicalKey(comm[q])] \in Blobs \cup {NoData}
      BY <1>0, <3>1, KeyType DEF TypeOK
    <3>3. /\ pc'[q] \in {"verify", "legacy", "failed"}
          /\ pc'[q] = "verify" => data'[q] \in Blobs
          /\ reply[q] = 0
      BY <1>0, <1>19, <2>1, <3>2
      DEF ReadCanonical, ReadObject, GetTracked, GetPcs, TypeOK
    <3> QED
      BY <1>19, <2>1, <3>1, <3>3 DEF ReadCanonical, GetTracked, GetPcs
  <2>2. CASE g # q
    BY <1>0, <1>19, <2>2, GetFrame DEF ReadCanonical, ReadObject, TypeOK, celestia
  <2> QED
    BY <2>1, <2>2
<1>20. ASSUME NEW g \in Gets, ReadLegacy(g) PROVE GetTracked(q)'
  <2>1. CASE g = q
    <3>1. comm[q] \in Commitments
      BY <1>0, <1>20, <2>1 DEF ReadLegacy, ReadObject, GetTracked, GetPcs
    <3>2. bucket[LegacyKey(comm[q])] \in Blobs \cup {NoData}
      BY <1>0, <3>1, KeyType DEF TypeOK
    <3>3. /\ pc'[q] \in {"verify", "legacy", "failed"}
          /\ pc'[q] = "verify" => data'[q] \in Blobs
          /\ reply[q] = 0
      BY <1>0, <1>20, <2>1, <3>2
      DEF ReadLegacy, ReadObject, GetTracked, GetPcs, TypeOK
    <3> QED
      BY <1>20, <2>1, <3>1, <3>3 DEF ReadLegacy, GetTracked, GetPcs
  <2>2. CASE g # q
    BY <1>0, <1>20, <2>2, GetFrame DEF ReadLegacy, ReadObject, TypeOK, celestia
  <2> QED
    BY <2>1, <2>2
<1>21. ASSUME NEW g \in Gets, ReadFails(g) PROVE GetTracked(q)'
  <2>1. CASE g = q
    BY <1>0, <1>21, <2>1
    DEF ReadFails, GetTracked, TypeOK, celestia, GetPcs, Ended
  <2>2. CASE g # q
    BY <1>0, <1>21, <2>2, GetFrame DEF ReadFails, TypeOK, celestia
  <2> QED
    BY <2>1, <2>2
<1>22. ASSUME NEW g \in Gets, Verify(g) PROVE GetTracked(q)'
  <2>1. CASE g = q
    BY <1>0, <1>22, <2>1
    DEF Verify, GetTracked, TypeOK, celestia, GetPcs, Ended
  <2>2. CASE g # q
    BY <1>0, <1>22, <2>2, GetFrame DEF Verify, TypeOK, celestia
  <2> QED
    BY <2>1, <2>2
<1>23. ASSUME NEW g \in Gets, StoreGet(g) PROVE GetTracked(q)'
  <2>1. CASE g = q
    <3>1. data[q] \in Blobs /\ Verifies(comm[q], data[q])
      BY <1>0, <1>23, <2>1, CertificateType
      DEF StoreGet, GetTracked, Published, Verifies, Parses, Certificate
    <3>2. pc[q] = "getStore" /\ pc'[q] = "getOk"
      BY <1>0, <1>23, <2>1 DEF StoreGet, TypeOK
    <3> QED
      BY <1>0, <1>23, <3>1, <3>2
      DEF StoreGet, GetTracked, Verifies, Parses, GetPcs
  <2>2. CASE g # q
    BY <1>0, <1>23, <2>2, GetFrame DEF StoreGet, TypeOK, celestia
  <2> QED
    BY <2>1, <2>2
<1>24. ASSUME NEW g \in Gets, RecordGet(g) PROVE GetTracked(q)'
  <2>1. CASE g = q
    BY <1>0, <1>24, <2>1
    DEF RecordGet, GetTracked, TypeOK, celestia, GetPcs, Ended
  <2>2. CASE g # q
    BY <1>0, <1>24, <2>2, GetFrame DEF RecordGet, TypeOK, celestia
  <2> QED
    BY <2>1, <2>2
<1>25. ASSUME NEW g \in Gets, AnswerGet(g) PROVE GetTracked(q)'
  <2>1. CASE g = q
    BY <1>0, <1>25, <2>1
    DEF AnswerGet, GetTracked, TypeOK, celestia, GetPcs, Ended
  <2>2. CASE g # q
    BY <1>0, <1>25, <2>2, GetFrame DEF AnswerGet, TypeOK, celestia
  <2> QED
    BY <2>1, <2>2
<1>26. ASSUME NEW g \in Gets, AnswerGetError(g) PROVE GetTracked(q)'
  <2>1. CASE g = q
    BY <1>0, <1>26, <2>1
    DEF AnswerGetError, GetTracked, TypeOK, celestia, GetPcs, Ended
  <2>2. CASE g # q
    BY <1>0, <1>26, <2>2, GetFrame DEF AnswerGetError, TypeOK, celestia
  <2> QED
    BY <2>1, <2>2
<1>27. ASSUME NEW r \in Requests, WriterStores(r) PROVE GetTracked(q)'
  BY <1>0, <1>27, GetFrame DEF WriterStores, celestia, requests
<1>28. ASSUME NEW r \in Requests, WriterFails(r) PROVE GetTracked(q)'
  BY <1>0, <1>28, GetFrame DEF WriterFails, celestia, requests
<1>29. ASSUME NEW r \in Requests, WriterEnds(r) PROVE GetTracked(q)'
  BY <1>0, <1>29, GetFrame DEF WriterEnds, celestia, requests
<1>30. ASSUME NEW k \in ForeignKeys, ForeignWrite(k) PROVE GetTracked(q)'
  BY <1>0, <1>30, GetFrame DEF ForeignWrite, celestia, requests
<1>31. CASE NextBlock
  BY <1>0, <1>31, GetFrame DEF NextBlock, requests
<1>32. CASE Crash
  BY <1>0, <1>32 DEF Crash, GetTracked, Published, Verifies, Parses, TypeOK,
     celestia, Running, Ended, GetPcs
<1>33. CASE UNCHANGED vars
  BY <1>0, <1>33, GetFrame DEF vars, celestia, requests
<1> QED
  BY <1>1, <1>2, <1>3, <1>4, <1>5, <1>6, <1>7, <1>8, <1>9, <1>10, <1>11,
     <1>12, <1>13, <1>14, <1>15, <1>16, <1>17, <1>18, <1>19, <1>20, <1>21,
     <1>22, <1>23, <1>24, <1>25, <1>26, <1>27, <1>28, <1>29, <1>30, <1>31,
     <1>32, <1>33
     DEF Next, PutStep, GetStep, WriterStep

(* Once a writer may exist, its handler changes neither its commitment nor *)
(* its payload.                                                            *)
Settled == {"putAnswer", "getOk", "getAnswer"} \cup Ended

(* A step that leaves a writer, its payload and its commitment alone keeps *)
(* what is known of it.                                                    *)
LEMMA WriterFrame ==
    ASSUME NEW q \in Requests, WriterTracked(q), chain \subseteq chain',
           writer'[q] \in Writing => writer[q] \in Writing,
           pc[q] \in Settled => /\ pc'[q] \in Settled
                                /\ comm'[q] = comm[q]
                                /\ data'[q] = data[q]
    PROVE  WriterTracked(q)'
BY DEF WriterTracked, Published, Settled

(* Registering a writer leaves every other writer alone.                   *)
LEMMA RegisterFrame ==
    ASSUME TypeOK, NEW q \in Requests, NEW r \in Requests,
           RegisterIfEnabled(r), r # q
    PROVE  writer'[q] = writer[q]
BY DEF RegisterIfEnabled, Register, TypeOK

(* Every step keeps what the fallback writers hold.                        *)
LEMMA WritersStep ==
    IInv /\ [Next]_vars => \A q \in Requests: WriterTracked(q)'
<1> SUFFICES ASSUME IInv, [Next]_vars, NEW q \in Requests
             PROVE  WriterTracked(q)'
  OBVIOUS
<1>0. /\ TypeOK
      /\ WriterTracked(q)
      /\ chain \subseteq chain'
  BY ChainGrows DEF IInv
<1> USE DEF Goto, Respond
<1>1. ASSUME NEW p \in Puts, RejectPut(p) PROVE WriterTracked(q)'
  BY <1>0, <1>1, WriterFrame
  DEF RejectPut, TypeOK, process, Settled, Ended
<1>2. ASSUME NEW p \in Puts, ReceivePut(p) PROVE WriterTracked(q)'
  BY <1>0, <1>2, WriterFrame
  DEF ReceivePut, TypeOK, process, Settled, Ended
<1>3. ASSUME NEW p \in Puts, BroadcastPut(p) PROVE WriterTracked(q)'
  BY <1>0, <1>3, WriterFrame
  DEF BroadcastPut, TypeOK, requests, process, Settled, Ended
<1>4. ASSUME NEW p \in Puts, SubmitReturns(p) PROVE WriterTracked(q)'
  BY <1>0, <1>4, WriterFrame
  DEF SubmitReturns, TypeOK, process, Settled, Ended
<1>5. ASSUME NEW p \in Puts, SubmitFails(p) PROVE WriterTracked(q)'
  BY <1>0, <1>5, WriterFrame
  DEF SubmitFails, TypeOK, process, Settled, Ended
<1>6. ASSUME NEW p \in Puts, RefetchReturns(p) PROVE WriterTracked(q)'
  BY <1>0, <1>6, WriterFrame
  DEF RefetchReturns, TypeOK, process, Settled, Ended
<1>7. ASSUME NEW p \in Puts, RefetchFails(p) PROVE WriterTracked(q)'
  BY <1>0, <1>7, WriterFrame
  DEF RefetchFails, TypeOK, process, Settled, Ended
<1>8. ASSUME NEW p \in Puts, RefetchPanics(p) PROVE WriterTracked(q)'
  BY <1>0, <1>8, WriterFrame
  DEF RefetchPanics, TypeOK, process, Settled, Ended
<1>9. ASSUME NEW p \in Puts, RecordPut(p) PROVE WriterTracked(q)'
  BY <1>0, <1>9, WriterFrame
  DEF RecordPut, TypeOK, process, Settled, Ended
<1>10. ASSUME NEW p \in Puts, StorePut(p) PROVE WriterTracked(q)'
  <2>1. CASE p = q
    <3>1. comm[q] \in Commitments /\ data[q] \in Blobs /\ Published(comm[q], data[q])
      <4>1. PutTracked(q) /\ comm[q] # NoComm
        BY <1>10, <2>1 DEF StorePut, IInv, PutTracked
      <4>2. comm[q] \in Commitments \cup {NoComm}
        BY <1>0 DEF TypeOK
      <4> QED
        BY <4>1, <4>2 DEF PutTracked
    <3>2. pc'[q] = "putAnswer"
      BY <1>0, <1>10, <2>1 DEF StorePut, TypeOK
    <3> QED
      BY <1>10, <3>1, <3>2 DEF StorePut, WriterTracked, Published, celestia
  <2>2. CASE p # q
    BY <1>0, <1>10, <2>2, WriterFrame, RegisterFrame DEF StorePut, TypeOK
  <2> QED
    BY <2>1, <2>2
<1>11. ASSUME NEW p \in Puts, AnswerPut(p) PROVE WriterTracked(q)'
  BY <1>0, <1>11, WriterFrame
  DEF AnswerPut, TypeOK, process, Settled, Ended
<1>12. ASSUME NEW p \in Puts, AnswerPutError(p) PROVE WriterTracked(q)'
  BY <1>0, <1>12, WriterFrame
  DEF AnswerPutError, TypeOK, process, Settled, Ended
<1>13. ASSUME NEW p \in Puts, IncludePut(p) PROVE WriterTracked(q)'
  BY <1>0, <1>13, WriterFrame
  DEF IncludePut, TypeOK, requests, process, Settled, Ended
<1>14. ASSUME NEW g \in Gets, RejectGet(g) PROVE WriterTracked(q)'
  BY <1>0, <1>14, WriterFrame
  DEF RejectGet, TypeOK, process, Settled, Ended
<1>15. ASSUME NEW g \in Gets, ReceiveGet(g) PROVE WriterTracked(q)'
  BY <1>0, <1>15, WriterFrame
  DEF ReceiveGet, TypeOK, process, Settled, Ended
<1>16. ASSUME NEW g \in Gets, RetrieveFinds(g) PROVE WriterTracked(q)'
  BY <1>0, <1>16, WriterFrame
  DEF RetrieveFinds, TypeOK, process, Settled, Ended
<1>17. ASSUME NEW g \in Gets, RetrieveMisses(g) PROVE WriterTracked(q)'
  BY <1>0, <1>17, WriterFrame
  DEF RetrieveMisses, TypeOK, process, Settled, Ended
<1>18. ASSUME NEW g \in Gets, RetrieveFails(g) PROVE WriterTracked(q)'
  BY <1>0, <1>18, WriterFrame
  DEF RetrieveFails, TypeOK, process, Settled, Ended
<1>19. ASSUME NEW g \in Gets, ReadCanonical(g) PROVE WriterTracked(q)'
  BY <1>0, <1>19, WriterFrame
  DEF ReadCanonical, ReadObject, TypeOK, process, Settled, Ended
<1>20. ASSUME NEW g \in Gets, ReadLegacy(g) PROVE WriterTracked(q)'
  BY <1>0, <1>20, WriterFrame
  DEF ReadLegacy, ReadObject, TypeOK, process, Settled, Ended
<1>21. ASSUME NEW g \in Gets, ReadFails(g) PROVE WriterTracked(q)'
  BY <1>0, <1>21, WriterFrame
  DEF ReadFails, TypeOK, process, Settled, Ended
<1>22. ASSUME NEW g \in Gets, Verify(g) PROVE WriterTracked(q)'
  BY <1>0, <1>22, WriterFrame
  DEF Verify, TypeOK, process, Settled, Ended
<1>23. ASSUME NEW g \in Gets, StoreGet(g) PROVE WriterTracked(q)'
  <2>1. CASE g = q
    <3>1. comm[q] \in Commitments /\ data[q] \in Blobs /\ Published(comm[q], data[q])
      BY <1>23, <2>1 DEF StoreGet, IInv, GetTracked, GetPcs
    <3>2. pc'[q] = "getOk"
      BY <1>0, <1>23, <2>1 DEF StoreGet, TypeOK
    <3> QED
      BY <1>23, <3>1, <3>2 DEF StoreGet, WriterTracked, Published, celestia
  <2>2. CASE g # q
    BY <1>0, <1>23, <2>2, WriterFrame, RegisterFrame DEF StoreGet, TypeOK
  <2> QED
    BY <2>1, <2>2
<1>24. ASSUME NEW g \in Gets, RecordGet(g) PROVE WriterTracked(q)'
  BY <1>0, <1>24, WriterFrame
  DEF RecordGet, TypeOK, process, Settled, Ended
<1>25. ASSUME NEW g \in Gets, AnswerGet(g) PROVE WriterTracked(q)'
  BY <1>0, <1>25, WriterFrame
  DEF AnswerGet, TypeOK, process, Settled, Ended
<1>26. ASSUME NEW g \in Gets, AnswerGetError(g) PROVE WriterTracked(q)'
  BY <1>0, <1>26, WriterFrame
  DEF AnswerGetError, TypeOK, process, Settled, Ended
<1>27. ASSUME NEW r \in Requests, WriterStores(r) PROVE WriterTracked(q)'
  BY <1>0, <1>27, WriterFrame DEF WriterStores, TypeOK, requests, Writing
<1>28. ASSUME NEW r \in Requests, WriterFails(r) PROVE WriterTracked(q)'
  BY <1>0, <1>28, WriterFrame DEF WriterFails, TypeOK, requests, Writing
<1>29. ASSUME NEW r \in Requests, WriterEnds(r) PROVE WriterTracked(q)'
  BY <1>0, <1>29, WriterFrame DEF WriterEnds, TypeOK, requests, Writing
<1>30. ASSUME NEW k \in ForeignKeys, ForeignWrite(k) PROVE WriterTracked(q)'
  BY <1>0, <1>30, WriterFrame DEF ForeignWrite, requests, process
<1>31. CASE NextBlock
  BY <1>0, <1>31, WriterFrame DEF NextBlock, requests, process
<1>32. CASE Crash
  BY <1>0, <1>32, WriterFrame
  DEF Crash, TypeOK, Settled, Running, PutPcs, GetPcs, Ended, Writing
<1>33. CASE UNCHANGED vars
  BY <1>0, <1>33, WriterFrame DEF vars, requests, process
<1> QED
  BY <1>1, <1>2, <1>3, <1>4, <1>5, <1>6, <1>7, <1>8, <1>9, <1>10, <1>11,
     <1>12, <1>13, <1>14, <1>15, <1>16, <1>17, <1>18, <1>19, <1>20, <1>21,
     <1>22, <1>23, <1>24, <1>25, <1>26, <1>27, <1>28, <1>29, <1>30, <1>31,
     <1>32, <1>33
     DEF Next, PutStep, GetStep, WriterStep

(* A step that leaves the bucket alone keeps its objects published.        *)
LEMMA BucketFrame ==
    ASSUME BucketOnlyPublished, chain \subseteq chain', bucket' = bucket
    PROVE  BucketOnlyPublished'
BY DEF BucketOnlyPublished, Published

(* A writer puts its payload under the canonical key of its commitment.    *)
LEMMA PutObjectPublished ==
    ASSUME TypeOK, BucketOnlyPublished, chain' = chain, NEW r \in Requests,
           comm[r] \in Commitments, Published(comm[r], data[r]),
           bucket' \in {bucket, PutObject(r)}
    PROVE  BucketOnlyPublished'
<1> SUFFICES ASSUME NEW k \in Keys \ ForeignKeys, bucket'[k] # NoData
             PROVE  /\ k.kind = "canonical"
                    /\ Published(k.id, bucket[k])'
  BY DEF BucketOnlyPublished
<1>1. CASE bucket'[k] = bucket[k]
  BY <1>1 DEF BucketOnlyPublished, Published
<1>2. CASE k = CanonicalKey(comm[r]) /\ bucket'[k] = data[r]
  BY <1>2 DEF CanonicalKey, Published
<1> QED
  BY <1>1, <1>2 DEF PutObject, TypeOK

(* Every step keeps the server's objects published.                        *)
LEMMA BucketStep == IInv /\ [Next]_vars => BucketOnlyPublished'
<1> SUFFICES ASSUME IInv, [Next]_vars PROVE BucketOnlyPublished'
  OBVIOUS
<1>0. /\ TypeOK
      /\ BucketOnlyPublished
      /\ \A r \in Requests: WriterTracked(r)
      /\ chain \subseteq chain'
  BY ChainGrows DEF IInv
<1>1. ASSUME NEW r \in Requests, WriterStores(r) \/ WriterFails(r)
      PROVE  BucketOnlyPublished'
  <2>1. comm[r] \in Commitments /\ Published(comm[r], data[r])
    BY <1>0, <1>1 DEF WriterStores, WriterFails, WriterTracked, Writing
  <2> QED
    BY <1>0, <1>1, <2>1, PutObjectPublished
    DEF WriterStores, WriterFails, celestia
<1>2. ASSUME NEW k \in ForeignKeys, ForeignWrite(k)
      PROVE  BucketOnlyPublished'
  BY <1>0, <1>2, ForeignAssumption
  DEF ForeignWrite, BucketOnlyPublished, Published, TypeOK, celestia
<1>3. CASE bucket' = bucket
  BY <1>0, <1>3, BucketFrame
<1> QED
  BY <1>1, <1>2, <1>3
  DEF Next, PutStep, GetStep, WriterStep, vars,
       RejectPut, ReceivePut, BroadcastPut, SubmitReturns, SubmitFails,
       RefetchReturns, RefetchFails, RefetchPanics, RecordPut, StorePut,
       AnswerPut, AnswerPutError, IncludePut, RejectGet, ReceiveGet,
       RetrieveFinds, RetrieveMisses, RetrieveFails, ReadCanonical,
       ReadLegacy, ReadFails, Verify, StoreGet, RecordGet, AnswerGet,
       AnswerGetError, WriterEnds, NextBlock, Crash

(* Every reachable state satisfies the inductive invariant.                *)
THEOREM Invariance == Spec => []IInv
<1>1. IInv /\ [Next]_vars => IInv'
  BY TypeStep, PutsStep, GetsStep, WritersStep, BucketStep DEF IInv
<1> QED
  BY InitInv, <1>1, PTL DEF Spec

(* Every variable keeps its type, whatever the requests, the node and S3   *)
(* do; in particular a certificate is never built for a blob that is not   *)
(* included.                                                               *)
THEOREM TypeCorrect == Spec => []TypeOK
<1>1. IInv => TypeOK
  BY DEF IInv
<1> QED
  BY Invariance, <1>1, PTL

(* handleGet answers 200 only with the payload that was asked for.         *)
THEOREM Integrity == Spec => []GetIntegrity
<1>1. IInv => GetIntegrity
  BY DEF IInv, GetTracked, GetIntegrity, Verifies
<1> QED
  BY Invariance, <1>1, PTL

(* HandlePut acknowledges only what is on Celestia.                        *)
THEOREM AckedIsPublished == Spec => []AckedPutPublished
<1>1. IInv => AckedPutPublished
  BY DEF IInv, PutTracked, AckedPutPublished
<1> QED
  BY Invariance, <1>1, PTL

(* The objects the server writes to S3 are what Celestia published.        *)
THEOREM FallbackIsPublished == Spec => []BucketOnlyPublished
<1>1. IInv => BucketOnlyPublished
  BY DEF IInv
<1> QED
  BY Invariance, <1>1, PTL

(* Two payloads published under one commitment are the same payload.       *)
LEMMA PublishedOnce ==
    ASSUME TypeOK, NEW c, NEW a \in Blobs, NEW b \in Blobs,
           Published(c, a), Published(c, b)
    PROVE  a = b
<1>1. Certificate(c.height, a).hash = Certificate(c.height, b).hash
  BY DEF Published
<1> QED
  BY <1>1, CollisionFree DEF Certificate

(* No fallback write changes an object of the server's.                    *)
THEOREM Immutability == Spec => ObjectsImmutable
<1> DEFINE Kept == \A k \in Keys \ ForeignKeys:
                      bucket[k] # NoData => bucket'[k] = bucket[k]
<1>1. ASSUME IInv, [Next]_vars PROVE Kept
  <2>0. /\ TypeOK
        /\ BucketOnlyPublished
        /\ \A r \in Requests: WriterTracked(r)
    BY <1>1 DEF IInv
  <2>1. ASSUME NEW r \in Requests, WriterStores(r) \/ WriterFails(r),
               NEW k \in Keys \ ForeignKeys, bucket[k] # NoData
        PROVE  bucket'[k] = bucket[k]
    <3>1. bucket' \in {bucket, PutObject(r)}
      BY <2>1 DEF WriterStores, WriterFails
    <3>2. data[r] \in Blobs /\ Published(comm[r], data[r])
      BY <2>0, <2>1 DEF WriterStores, WriterFails, WriterTracked, Writing
    <3>3. bucket[k] \in Blobs /\ Published(k.id, bucket[k])
      BY <2>0, <2>1 DEF BucketOnlyPublished, TypeOK
    <3>4. CASE k = CanonicalKey(comm[r])
      <4>1. k.id = comm[r]
        BY <3>4 DEF CanonicalKey
      <4>2. bucket[k] = data[r]
        BY <2>0, <3>2, <3>3, <4>1, PublishedOnce
      <4> QED
        BY <2>0, <3>1, <3>4, <4>2 DEF PutObject, TypeOK
    <3>5. CASE k # CanonicalKey(comm[r])
      BY <2>0, <3>1, <3>5 DEF PutObject, TypeOK
    <3> QED
      BY <3>4, <3>5
  <2>2. ASSUME NEW k \in ForeignKeys, ForeignWrite(k) PROVE Kept
    BY <2>0, <2>2, ForeignAssumption DEF ForeignWrite, TypeOK
  <2>3. CASE bucket' = bucket
    BY <2>3
  <2> QED
    BY <1>1, <2>1, <2>2, <2>3
    DEF Next, PutStep, GetStep, WriterStep, vars,
        RejectPut, ReceivePut, BroadcastPut, SubmitReturns, SubmitFails,
        RefetchReturns, RefetchFails, RefetchPanics, RecordPut, StorePut,
        AnswerPut, AnswerPutError, IncludePut, RejectGet, ReceiveGet,
        RetrieveFinds, RetrieveMisses, RetrieveFails, ReadCanonical,
        ReadLegacy, ReadFails, Verify, StoreGet, RecordGet, AnswerGet,
        AnswerGetError, WriterEnds, NextBlock, Crash
<1>2. IInv /\ [Next]_vars => [Kept]_vars
  BY <1>1
<1> QED
  BY Invariance, <1>2, PTL DEF Spec, ObjectsImmutable
=============================================================================
