--------------------------- MODULE Service_proofs ---------------------------
(***************************************************************************)
(* For every number of requests, payloads, heights, configurations and     *)
(* crashes: the handlers implement the alt-DA service that op-batcher and  *)
(* op-node rely on.  Every step of DAServer publishes one blob, gives one  *)
(* answer, or changes nothing that a client sees.                          *)
(***************************************************************************)
EXTENDS DAServer_proofs

USE DEF Requests

(* What the clients have received.                                         *)
Seen == [r \in Requests |-> ClientSees(r)]

(* Steps that answer nobody, and change no request that was answered.      *)
LEMMA NothingSeen ==
    ASSUME reply' = reply,
           \A r \in Requests: reply[r] = 200 => /\ comm'[r] = comm[r]
                                                /\ data'[r] = data[r]
    PROVE  Seen' = Seen
<1>1. ASSUME NEW r \in Requests PROVE ClientSees(r)' = ClientSees(r)
  BY <1>1 DEF ClientSees
<1> QED
  BY <1>1 DEF Seen

(* One request, not answered before, gets the answer s, or none.           *)
Replies(r, s) ==
    /\ reply[r] = 0
    /\ reply' = [reply EXCEPT ![r] = s]
    /\ \A q \in Requests: q # r => comm'[q] = comm[q] /\ data'[q] = data[q]

LEMMA OneSees ==
    ASSUME TypeOK, NEW r \in Requests, NEW s, Replies(r, s)
    PROVE  /\ Seen[r] = [status |-> 0]
           /\ Seen' = [Seen EXCEPT ![r] = Seen'[r]]
           /\ s = 0 => Seen' = Seen
           /\ s \notin {0, 200} => Seen'[r] = [status |-> s]
<1>1. ASSUME NEW q \in Requests, q # r PROVE ClientSees(q)' = ClientSees(q)
  BY <1>1 DEF ClientSees, Replies, TypeOK
<1>2. ClientSees(r) = [status |-> 0]
  BY DEF ClientSees, Replies
<1>3. reply'[r] = s
  BY DEF Replies, TypeOK
<1>4. s = 0 => ClientSees(r)' = [status |-> 0]
  BY <1>3 DEF ClientSees
<1>5. s \notin {0, 200} => ClientSees(r)' = [status |-> s]
  BY <1>3 DEF ClientSees
<1>6. Seen[r] = ClientSees(r) /\ Seen'[r] = ClientSees(r)'
  BY DEF Seen
<1>7. Seen' = [Seen EXCEPT ![r] = Seen'[r]]
  BY <1>1, <1>6 DEF Seen
<1>8. s = 0 => Seen' = Seen
  BY <1>1, <1>2, <1>4 DEF Seen
<1> QED
  BY <1>2, <1>5, <1>6, <1>7, <1>8

(* A refused PUT, and a refused GET.                                       *)
LEMMA RefusedPut ==
    ASSUME TypeOK, NEW p \in Puts, chain' = chain,
           NEW s \in {400, 405, 413, 500, 0}, Replies(p, s)
    PROVE  Service!Next \/ UNCHANGED <<chain, Seen>>
<1>0. /\ Seen[p] = [status |-> 0]
      /\ Seen' = [Seen EXCEPT ![p] = Seen'[p]]
      /\ s = 0 => Seen' = Seen
      /\ s \notin {0, 200} => Seen'[p] = [status |-> s]
  BY OneSees
<1>1. CASE s = 0
  BY <1>0, <1>1
<1>2. CASE s # 0
  <2>1. Seen' = [Seen EXCEPT ![p] = [status |-> s]]
    BY <1>0, <1>2
  <2>2. Service!Refuse(p, s)
    BY <1>0, <2>1 DEF Service!Refuse, Service!Answer, Service!Nothing,
                      Service!Refused, Seen
  <2> QED
    BY <1>2, <2>2 DEF Service!Next
<1> QED
  BY <1>1, <1>2

LEMMA RefusedGet ==
    ASSUME TypeOK, NEW g \in Gets, chain' = chain,
           NEW s \in {400, 404, 405, 500, 0}, Replies(g, s)
    PROVE  Service!Next \/ UNCHANGED <<chain, Seen>>
<1>0. /\ Seen[g] = [status |-> 0]
      /\ Seen' = [Seen EXCEPT ![g] = Seen'[g]]
      /\ s = 0 => Seen' = Seen
      /\ s \notin {0, 200} => Seen'[g] = [status |-> s]
  BY OneSees
<1>1. CASE s = 0
  BY <1>0, <1>1
<1>2. CASE s # 0
  <2>1. Seen' = [Seen EXCEPT ![g] = [status |-> s]]
    BY <1>0, <1>2
  <2>2. Service!Refuse(g, s)
    BY <1>0, <2>1 DEF Service!Refuse, Service!Answer, Service!Nothing,
                      Service!Refused, Seen
  <2> QED
    BY <1>2, <2>2 DEF Service!Next
<1> QED
  BY <1>1, <1>2

(* HandlePut answers 200: the certificate's blob is in the ledger.         *)
LEMMA Acknowledged ==
    ASSUME TypeOK, NEW p \in Puts, chain' = chain, NEW s \in {200, 0},
           Replies(p, s), comm'[p] = comm[p], Published(comm[p], data[p])
    PROVE  Service!Next \/ UNCHANGED <<chain, Seen>>
<1>0. /\ Seen[p] = [status |-> 0]
      /\ Seen' = [Seen EXCEPT ![p] = Seen'[p]]
      /\ s = 0 => Seen' = Seen
  BY OneSees
<1>1. CASE s = 0
  BY <1>0, <1>1
<1>2. CASE s = 200
  <2> DEFINE e == [height |-> comm[p].height, data |-> data[p]]
  <2>1. e \in chain /\ comm[p] = Certificate(e.height, e.data)
    BY DEF Published
  <2>2. Seen'[p] = [status |-> 200, comm |-> comm[p]]
    <3>1. reply'[p] = 200 /\ p \notin Gets
      BY <1>2, RequestsAssumption DEF Replies, TypeOK
    <3> QED
      BY <3>1 DEF Seen, ClientSees
  <2>3. Service!Acknowledge(p, e)
    BY <1>0, <2>1, <2>2 DEF Service!Acknowledge, Service!Answer,
       Service!Nothing, Service!Committed, Service!Certificate, Certificate,
       Seen
  <2> QED
    BY <2>1, <2>3 DEF Service!Next
<1> QED
  BY <1>1, <1>2

(* handleGet answers 200: the payload has the commitment that was asked.   *)
LEMMA ServedGet ==
    ASSUME TypeOK, NEW g \in Gets, chain' = chain, NEW s \in {200, 0},
           Replies(g, s), comm'[g] = comm[g], data'[g] = data[g],
           comm[g] \in Commitments, data[g] \in Blobs,
           Verifies(comm[g], data[g])
    PROVE  Service!Next \/ UNCHANGED <<chain, Seen>>
<1>0. /\ Seen[g] = [status |-> 0]
      /\ Seen' = [Seen EXCEPT ![g] = Seen'[g]]
      /\ s = 0 => Seen' = Seen
  BY OneSees
<1>1. CASE s = 0
  BY <1>0, <1>1
<1>2. CASE s = 200
  <2>1. /\ comm[g] = Certificate(comm[g].height, data[g])
        /\ comm[g].height \in Heights
    BY DEF Verifies, Parses, Certificate, Commitments
  <2>2. Seen'[g] = [status |-> 200, comm |-> comm[g], data |-> data[g]]
    <3>1. reply'[g] = 200 /\ g \notin Puts
      BY <1>2, RequestsAssumption DEF Replies, TypeOK
    <3> QED
      BY <3>1 DEF Seen, ClientSees
  <2>3. Service!Serve(g, comm[g].height, data[g])
    BY <1>0, <2>1, <2>2 DEF Service!Serve, Service!Answer, Service!Nothing,
       Service!Served, Service!Certificate, Certificate, Seen
  <2> QED
    BY <2>1, <2>3 DEF Service!Next, Service!Heights, Heights
<1> QED
  BY <1>1, <1>2

(* The initial states are the service's.                                   *)
LEMMA InitSeen == Init => Service!Init
<1> SUFFICES ASSUME Init PROVE Service!Init
  OBVIOUS
<1>1. ASSUME NEW r \in Requests PROVE ClientSees(r) = [status |-> 0]
  BY <1>1 DEF Init, ClientSees
<1> QED
  BY <1>1 DEF Init, Service!Init, Service!Nothing

(* Every step of a handler, a writer or the world is one of the service's, *)
(* or is not seen by any client.                                           *)
LEMMA StepSeen ==
    IInv /\ [Next]_vars => Service!Next \/ UNCHANGED <<chain, Seen>>
<1> SUFFICES ASSUME IInv, [Next]_vars
             PROVE  Service!Next \/ UNCHANGED <<chain, Seen>>
  OBVIOUS
<1> USE DEF celestia, requests, process, Goto
<1>0. /\ TypeOK
      /\ \A p \in Puts: PutTracked(p) /\ p \notin Gets
      /\ \A g \in Gets: GetTracked(g)
  BY RequestsAssumption DEF IInv
<1>1. ASSUME NEW p \in Puts, RejectPut(p)
      PROVE  Service!Next \/ UNCHANGED <<chain, Seen>>
  <2>0. PICK t \in {405, 400, 413}: Respond(p, "idle", t)
    BY <1>1 DEF RejectPut
  <2>1. PICK s \in {t, 0}: reply' = [reply EXCEPT ![p] = s]
    BY <2>0 DEF Respond
  <2>2. Replies(p, s)
    <3>1. pc[p] = "idle" /\ PutTracked(p) /\ UNCHANGED <<comm, data>>
      BY <1>0, <1>1, <2>0 DEF RejectPut, Respond
    <3>2. reply[p] = 0
      BY <3>1 DEF PutTracked
    <3> QED
      BY <2>1, <3>1, <3>2 DEF Replies
  <2> QED
    BY <1>0, <1>1, <2>2, RefusedPut DEF RejectPut
<1>2. ASSUME NEW p \in Puts, AnswerPutError(p)
      PROVE  Service!Next \/ UNCHANGED <<chain, Seen>>
  <2>1. PICK s \in {500, 0}: reply' = [reply EXCEPT ![p] = s]
    BY <1>2 DEF AnswerPutError, Respond
  <2>2. Replies(p, s)
    BY <1>0, <1>2, <2>1 DEF AnswerPutError, Respond, Replies, PutTracked, PutPcs
  <2> QED
    BY <1>0, <1>2, <2>2, RefusedPut DEF AnswerPutError
<1>3. ASSUME NEW p \in Puts, RefetchPanics(p)
      PROVE  Service!Next \/ UNCHANGED <<chain, Seen>>
  <2>1. PICK s \in {500, 0}: reply' = [reply EXCEPT ![p] = s]
    BY <1>3 DEF RefetchPanics
  <2>2. Replies(p, s)
    <3>1. pc[p] = "refetch" /\ PutTracked(p)
      BY <1>0, <1>3 DEF RefetchPanics
    <3>2. reply[p] = 0
      BY <3>1 DEF PutTracked, PutPcs
    <3>3. \A q \in Requests: q # p => comm'[q] = comm[q] /\ data'[q] = data[q]
      BY <1>0, <1>3 DEF RefetchPanics, TypeOK
    <3> QED
      BY <2>1, <3>2, <3>3 DEF Replies
  <2> QED
    BY <1>0, <1>3, <2>2, RefusedPut DEF RefetchPanics
<1>4. ASSUME NEW p \in Puts, AnswerPut(p)
      PROVE  Service!Next \/ UNCHANGED <<chain, Seen>>
  <2>1. PICK s \in {200, 0}: reply' = [reply EXCEPT ![p] = s]
    BY <1>4 DEF AnswerPut, Respond
  <2>2. Replies(p, s)
    BY <1>0, <1>4, <2>1 DEF AnswerPut, Respond, Replies, PutTracked, PutPcs
  <2>3. Published(comm[p], data[p])
    BY <1>0, <1>4 DEF AnswerPut, Respond, PutTracked
  <2> QED
    BY <1>0, <1>4, <2>2, <2>3, Acknowledged DEF AnswerPut
<1>5. ASSUME NEW g \in Gets, RejectGet(g)
      PROVE  Service!Next \/ UNCHANGED <<chain, Seen>>
  <2>0. PICK t \in {405, 400}: Respond(g, "idle", t)
    BY <1>5 DEF RejectGet
  <2>1. PICK s \in {t, 0}: reply' = [reply EXCEPT ![g] = s]
    BY <2>0 DEF Respond
  <2>2. Replies(g, s)
    <3>1. pc[g] = "idle" /\ GetTracked(g) /\ UNCHANGED <<comm, data>>
      BY <1>0, <1>5, <2>0 DEF RejectGet, Respond
    <3>2. reply[g] = 0
      BY <3>1 DEF GetTracked
    <3> QED
      BY <2>1, <3>1, <3>2 DEF Replies
  <2> QED
    BY <1>0, <1>5, <2>2, RefusedGet DEF RejectGet
<1>6. ASSUME NEW g \in Gets, AnswerGetError(g)
      PROVE  Service!Next \/ UNCHANGED <<chain, Seen>>
  <2>1. PICK s \in {404, 500, 0}: reply' = [reply EXCEPT ![g] = s]
    BY <1>6 DEF AnswerGetError, Respond
  <2>2. Replies(g, s)
    BY <1>0, <1>6, <2>1 DEF AnswerGetError, Respond, Replies, GetTracked, GetPcs
  <2> QED
    BY <1>0, <1>6, <2>2, RefusedGet DEF AnswerGetError
<1>7. ASSUME NEW g \in Gets, AnswerGet(g)
      PROVE  Service!Next \/ UNCHANGED <<chain, Seen>>
  <2>1. PICK s \in {200, 0}: reply' = [reply EXCEPT ![g] = s]
    BY <1>7 DEF AnswerGet, Respond
  <2>2. Replies(g, s)
    BY <1>0, <1>7, <2>1 DEF AnswerGet, Respond, Replies, GetTracked, GetPcs
  <2>3. /\ comm[g] \in Commitments /\ data[g] \in Blobs
        /\ Verifies(comm[g], data[g])
    BY <1>0, <1>7 DEF AnswerGet, Respond, GetTracked
  <2> QED
    BY <1>0, <1>7, <2>2, <2>3, ServedGet DEF AnswerGet
<1>8. ASSUME NEW p \in Puts, IncludePut(p)
      PROVE  Service!Next \/ UNCHANGED <<chain, Seen>>
  <2>0. PutTracked(p) /\ p \in mempool
    BY <1>0, <1>8 DEF IncludePut
  <2>1. /\ chain' = chain \cup {[height |-> head, data |-> data[p]]}
        /\ head \in Heights /\ data[p] \in Blobs
    <3>1. chain' = chain \cup {[height |-> head, data |-> data[p]]}
      BY <1>8 DEF IncludePut
    <3>2. head \in Heights
      BY <1>0 DEF TypeOK
    <3>3. data[p] \in Blobs
      BY <2>0 DEF PutTracked
    <3> QED
      BY <3>1, <3>2, <3>3
  <2>2. Seen' = Seen
    BY <1>8, NothingSeen DEF IncludePut
  <2>3. Service!Publish(head, data[p])
    BY <2>1, <2>2 DEF Service!Publish, Seen
  <2> QED
    BY <2>1, <2>3 DEF Service!Next, Service!Heights, Heights
(* The steps that answer nobody change only requests not yet answered.     *)
<1>9. ASSUME NEW p \in Puts,
             \/ ReceivePut(p) \/ SubmitReturns(p) \/ RefetchFails(p)
      PROVE  UNCHANGED <<chain, Seen>>
  <2>1. reply[p] = 0
    BY <1>0, <1>9
    DEF ReceivePut, SubmitReturns, RefetchFails, PutTracked, PutPcs
  <2>2. chain' = chain /\ reply' = reply
    BY <1>9 DEF ReceivePut, SubmitReturns, RefetchFails
  <2>3. ASSUME NEW r \in Requests, r # p
        PROVE  comm'[r] = comm[r] /\ data'[r] = data[r]
    BY <1>0, <1>9, <2>3 DEF ReceivePut, SubmitReturns, RefetchFails, TypeOK
  <2> QED
    BY <2>1, <2>2, <2>3, NothingSeen
<1>10. ASSUME NEW g \in Gets,
              \/ ReceiveGet(g) \/ RetrieveFinds(g)
              \/ ReadCanonical(g) \/ ReadLegacy(g) \/ Verify(g)
       PROVE  UNCHANGED <<chain, Seen>>
  <2>1. reply[g] = 0
    BY <1>0, <1>10 DEF ReceiveGet, RetrieveFinds, ReadCanonical, ReadLegacy,
                       ReadObject, Verify, GetTracked, GetPcs
  <2>2. chain' = chain /\ reply' = reply
    BY <1>10
    DEF ReceiveGet, RetrieveFinds, ReadCanonical, ReadLegacy, Verify
  <2>3. ASSUME NEW r \in Requests, r # g
        PROVE  comm'[r] = comm[r] /\ data'[r] = data[r]
    BY <1>0, <1>10, <2>3 DEF ReceiveGet, RetrieveFinds, ReadCanonical,
                             ReadLegacy, ReadObject, Verify, TypeOK
  <2> QED
    BY <2>1, <2>2, <2>3, NothingSeen
<1>11. CASE UNCHANGED <<chain, reply, comm, data>>
  BY <1>11, NothingSeen
<1> QED
  BY <1>1, <1>2, <1>3, <1>4, <1>5, <1>6, <1>7, <1>8, <1>9, <1>10, <1>11
  DEF Next, PutStep, GetStep, WriterStep, vars, BroadcastPut, SubmitFails,
      RefetchReturns, RecordPut, StorePut, RetrieveMisses, RetrieveFails,
      ReadFails, StoreGet, RecordGet, WriterStores, WriterFails, WriterEnds,
      ForeignWrite, NextBlock, Crash

(* op-batcher and op-node may take the server for the ledger and the       *)
(* answers of DAService: whatever S3, the node, timeouts and crashes do,   *)
(* published blobs stay, and each request is answered at most once, a PUT  *)
(* with a certificate of what is published, a GET with what it asked for.  *)
THEOREM RefinesService == Spec => ImplementsService
<1>1. IInv /\ [Next]_vars
      => [Service!Next]_<<chain, [r \in Requests |-> ClientSees(r)]>>
  BY StepSeen DEF Seen
<1> QED
  BY InitSeen, Invariance, <1>1, PTL DEF Spec, ImplementsService, Service!Spec
=============================================================================
