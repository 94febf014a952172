--------------------------- MODULE Server_proofs ---------------------------
(***************************************************************************)
(* For every number of requests, payloads and configurations: the server   *)
(* is DAServer's handlers in the process that Lifecycle starts and stops,  *)
(* so what is proved of each of the two holds of the whole; and a clean    *)
(* stop loses no acknowledged batch.                                       *)
(***************************************************************************)
EXTENDS Server, Counting_proofs

P == INSTANCE Lifecycle_proofs WITH
         Handlers <- Requests,
         handler <- [r \in Requests |-> HandlerSeen(r)],
         writer <- [r \in Requests |-> WriterSeen(r)]

USE DEF Requests

(* Every step of the server is one of DAServer's, or leaves it alone.      *)
LEMMA StepOfHandlers == [ServerNext]_serverVars => [Next]_vars
<1> SUFFICES ASSUME [ServerNext]_serverVars PROVE [Next]_vars
  OBVIOUS
<1>1. CASE Starting \/ Interrupted \/ Stopping \/ Waiting
  BY <1>1 DEF Starting, Interrupted, Stopping, Waiting
<1>2. CASE Returns \/ Panics
  BY <1>2 DEF Returns, Panics, Ends, Next
<1>3. ASSUME NEW r \in Requests,
             \/ Accept(r) \/ Arrives(r) \/ Handles(r) \/ Writes(r) \/ Done(r)
      PROVE  [Next]_vars
  BY <1>3 DEF Accept, Arrives, Handles, Writes, Done, Next, WriterStep
<1>4. ASSUME NEW p \in Puts, Broadcasts(p) PROVE [Next]_vars
  BY <1>4 DEF Broadcasts, Next
<1>5. CASE World
  BY <1>5 DEF World, Next
<1>6. CASE UNCHANGED serverVars
  BY <1>6 DEF serverVars
<1> QED
  BY <1>1, <1>2, <1>3, <1>4, <1>5, <1>6 DEF ServerNext

(* The server's behaviours are behaviours of DAServer: what is proved of   *)
(* the handlers holds in the process.                                      *)
THEOREM ServerIsDAServer == ServerSpec => Spec
<1>1. ServerInit => Init
  BY DEF ServerInit
<1> QED
  BY <1>1, StepOfHandlers, PTL DEF ServerSpec, Spec

(* What Lifecycle sees.                                                    *)
Handler == [r \in Requests |-> HandlerSeen(r)]
Writer == [r \in Requests |-> WriterSeen(r)]

(* A step that moves no handler and no writer, as far as Lifecycle sees.   *)
LEMMA NothingMoves ==
    ASSUME main' = main, accepted' = accepted, pc' = pc,
           \A q \in Requests: /\ writer'[q] = "none" <=> writer[q] = "none"
                              /\ WriterSeen(q)' = WriterSeen(q)
    PROVE  UNCHANGED <<Handler, Writer>>
<1>1. ASSUME NEW q \in Requests PROVE HandlerSeen(q)' = HandlerSeen(q)
  BY DEF HandlerSeen
<1> QED
  BY <1>1 DEF Handler, Writer

(* A handler that is at work moves on, or ends.                            *)
AtWork(r) == /\ L!Alive
             /\ \/ pc[r] \in Running
                \/ pc[r] = "idle" /\ r \in accepted /\ writer[r] = "none"

LEMMA HandlerMoves ==
    ASSUME TypeOK, main' = main, accepted' = accepted, writer' = writer,
           NEW r \in Requests, AtWork(r), NEW to, pc' = [pc EXCEPT ![r] = to],
           to \in Running \cup {"done", "panicked"}
    PROVE  /\ Writer' = Writer
           /\ to \in Running => Handler' = Handler
           /\ to \in {"done", "panicked"} =>
                  /\ Handler[r] \in {"active", "registered"}
                  /\ Handler' = [Handler EXCEPT ![r] = "answered"]
<1>1. ASSUME NEW q \in Requests, q # r PROVE HandlerSeen(q)' = HandlerSeen(q)
  <2>1. pc'[q] = pc[q]
    BY <1>1 DEF TypeOK
  <2> QED
    BY <2>1 DEF HandlerSeen
<1>2. ASSUME NEW q \in Requests PROVE WriterSeen(q)' = WriterSeen(q)
  BY DEF WriterSeen
<1>3. HandlerSeen(r) = IF writer[r] = "none" THEN "active" ELSE "registered"
  BY DEF HandlerSeen, AtWork, L!Alive, Running, PutPcs, GetPcs
<1>4. pc'[r] = to
  BY DEF TypeOK
<1>5. to \in Running => HandlerSeen(r)' = HandlerSeen(r)
  BY <1>3, <1>4 DEF HandlerSeen, Running, PutPcs, GetPcs
<1>6. to \in {"done", "panicked"} => HandlerSeen(r)' = "answered"
  BY <1>4 DEF HandlerSeen, Running, PutPcs, GetPcs
<1> QED
  BY <1>1, <1>2, <1>3, <1>5, <1>6 DEF Handler, Writer

(* The handler's answer is Lifecycle's.                                    *)
LEMMA HandlerAnswers ==
    ASSUME TypeOK, UNCHANGED <<control, accepted, writer, wg>>,
           NEW r \in Requests, AtWork(r),
           NEW to \in {"done", "panicked"}, pc' = [pc EXCEPT ![r] = to]
    PROVE  L!Answer(r)
<1>1. /\ Writer' = Writer
      /\ Handler[r] \in {"active", "registered"}
      /\ Handler' = [Handler EXCEPT ![r] = "answered"]
  BY HandlerMoves DEF control
<1> QED
  BY <1>1 DEF L!Answer, AtWork, control, Handler, Writer

(* The handler's registration of a writer is Lifecycle's.                  *)
LEMMA HandlerRegisters ==
    ASSUME TypeOK, UNCHANGED <<control, accepted>>, L!Alive,
           NEW r \in Requests, pc[r] \in Running, writer[r] = "none",
           NEW to \in Running, pc' = [pc EXCEPT ![r] = to], Register(r)
    PROVE  L!Register(r)
<1> USE DEF Register, Running, PutPcs, GetPcs
<1>1. ASSUME NEW q \in Requests, q # r
      PROVE  HandlerSeen(q)' = HandlerSeen(q) /\ WriterSeen(q)' = WriterSeen(q)
  <2>1. pc'[q] = pc[q] /\ writer'[q] = writer[q]
    BY <1>1 DEF TypeOK
  <2> QED
    BY <2>1 DEF HandlerSeen, WriterSeen, control
<1>2. HandlerSeen(r) = "active"
  BY DEF HandlerSeen
<1>3. pc'[r] = to /\ writer'[r] = "writing"
  BY DEF TypeOK
<1>4. HandlerSeen(r)' = "registered" /\ WriterSeen(r)' = "running"
  BY <1>3 DEF HandlerSeen, WriterSeen, Writing
<1>5. Handler[r] = "active"
  BY <1>2 DEF Handler
<1>6. Handler' = [Handler EXCEPT ![r] = "registered"]
  BY <1>1, <1>4 DEF Handler
<1>7. Writer' = [Writer EXCEPT ![r] = "running"]
  BY <1>1, <1>4 DEF Writer
<1> QED
  BY <1>5, <1>6, <1>7 DEF L!Register, control, Handler, Writer

(* The end of a writer is Lifecycle's.                                     *)
LEMMA WriterIsDone ==
    ASSUME TypeOK, NEW r \in Requests, Done(r)
    PROVE  L!WriterEnds(r)
<1>0. /\ writer[r] \in Writing
      /\ writer' = [writer EXCEPT ![r] = "ended"]
      /\ UNCHANGED <<pc, main, accepted>>
  BY DEF Done, WriterEnds, Writing, requests
<1>1. ASSUME NEW q \in Requests, q # r PROVE WriterSeen(q)' = WriterSeen(q)
  BY <1>0, <1>1 DEF WriterSeen, TypeOK
<1>2. WriterSeen(r) = "running" /\ WriterSeen(r)' = "ended"
  BY <1>0 DEF WriterSeen, Writing, TypeOK
<1>3. ASSUME NEW q \in Requests PROVE HandlerSeen(q)' = HandlerSeen(q)
  BY <1>0 DEF HandlerSeen, Writing, TypeOK
<1>4. /\ Writer[r] = "running"
      /\ Writer' = [Writer EXCEPT ![r] = "ended"]
      /\ Handler' = Handler
  BY <1>1, <1>2, <1>3 DEF Writer, Handler
<1> QED
  BY <1>4 DEF Done, WriterEnds, L!WriterEnds, Handler, Writer

(* The steps of a handler that answer, and those that go on.               *)
LEMMA AnswersSeen ==
    ASSUME TypeOK, UNCHANGED <<control, accepted>>, NEW r \in Requests, AtWork(r),
           \/ RejectPut(r) \/ RefetchPanics(r) \/ AnswerPut(r)
           \/ AnswerPutError(r) \/ RejectGet(r) \/ AnswerGet(r)
           \/ AnswerGetError(r)
    PROVE  L!Answer(r)
<1>1. PICK to \in {"done", "panicked"}: pc' = [pc EXCEPT ![r] = to]
  BY DEF RejectPut, RefetchPanics, AnswerPut, AnswerPutError, RejectGet,
         AnswerGet, AnswerGetError, Respond, Goto
<1>2. UNCHANGED <<writer, wg>>
  BY DEF RejectPut, RefetchPanics, AnswerPut, AnswerPutError, RejectGet,
         AnswerGet, AnswerGetError, process
<1> QED
  BY <1>1, <1>2, HandlerAnswers

GoesOn(r) ==
    \/ ReceivePut(r) \/ SubmitReturns(r) \/ SubmitFails(r)
    \/ RefetchReturns(r) \/ RefetchFails(r) \/ RecordPut(r)
    \/ ReceiveGet(r) \/ RetrieveFinds(r) \/ RetrieveMisses(r)
    \/ RetrieveFails(r) \/ ReadCanonical(r) \/ ReadLegacy(r)
    \/ ReadFails(r) \/ Verify(r) \/ RecordGet(r)

LEMMA GoesOnUnseen ==
    ASSUME TypeOK, UNCHANGED <<control, accepted>>, NEW r \in Requests, AtWork(r),
           GoesOn(r)
    PROVE  UNCHANGED <<Handler, Writer, wg>>
<1>1. PICK to \in Running: pc' = [pc EXCEPT ![r] = to]
  BY DEF GoesOn, ReceivePut, SubmitReturns, SubmitFails, RefetchReturns,
         RefetchFails, RecordPut, ReceiveGet, RetrieveFinds, RetrieveMisses,
         RetrieveFails, ReadCanonical, ReadLegacy, ReadFails, ReadObject,
         Verify, RecordGet, Goto, Running, PutPcs, GetPcs
<1>2. UNCHANGED <<writer, wg>>
  BY DEF GoesOn, ReceivePut, SubmitReturns, SubmitFails, RefetchReturns,
         RefetchFails, RecordPut, ReceiveGet, RetrieveFinds, RetrieveMisses,
         RetrieveFails, ReadCanonical, ReadLegacy, ReadFails, Verify,
         RecordGet, process
<1> QED
  BY <1>1, <1>2, HandlerMoves DEF control

LEMMA StoresSeen ==
    ASSUME TypeOK, UNCHANGED <<control, accepted>>, L!Alive,
           NEW r \in Requests, WriterOnce(r), StorePut(r) \/ StoreGet(r)
    PROVE  L!Register(r) \/ UNCHANGED <<Handler, Writer, wg>>
<1>1. pc[r] \in Running /\ writer[r] = "none"
  BY DEF StorePut, StoreGet, Goto, WriterOnce, Ended, Running, PutPcs, GetPcs
<1>2. PICK to \in Running: pc' = [pc EXCEPT ![r] = to]
  BY DEF StorePut, StoreGet, Goto, Running, PutPcs, GetPcs
<1>3. Register(r) \/ UNCHANGED <<writer, wg>>
  BY DEF StorePut, StoreGet, RegisterIfEnabled
<1>4. CASE Register(r)
  BY <1>1, <1>2, <1>4, HandlerRegisters
<1>5. CASE UNCHANGED <<writer, wg>>
  BY <1>1, <1>2, <1>5, HandlerMoves DEF AtWork, control
<1> QED
  BY <1>3, <1>4, <1>5

(* Every step of the server is one of Lifecycle's, or is not seen by it.   *)
LEMMA StepOfLifecycle ==
    IInv /\ CountInv /\ [ServerNext]_serverVars =>
        L!Next \/ UNCHANGED <<control, wg, Handler, Writer>>
<1> SUFFICES ASSUME IInv, CountInv, [ServerNext]_serverVars
             PROVE  L!Next \/ UNCHANGED <<control, wg, Handler, Writer>>
  OBVIOUS
<1>0. TypeOK /\ \A r \in Requests: WriterOnce(r)
  BY DEF IInv, CountInv
<1>1. CASE Starting \/ Interrupted \/ Stopping \/ Waiting
  BY <1>1 DEF Starting, Interrupted, Stopping, Waiting, L!Next, L!StartStep,
              L!StopStep, L!WaiterStep
<1>2. CASE Returns \/ Panics
  BY <1>2 DEF Returns, Panics, L!Next, L!StopStep, L!WaiterStep
<1>3. ASSUME NEW r \in Requests, Accept(r) PROVE L!Next
  BY <1>3 DEF Accept, L!Next
<1>4. ASSUME NEW r \in Requests, Arrives(r)
      PROVE  L!Next \/ UNCHANGED <<control, wg, Handler, Writer>>
  <2>1. pc[r] = "idle" /\ r \in accepted /\ L!Alive
    BY <1>4 DEF Arrives, Alone, RejectPut, ReceivePut, RejectGet, ReceiveGet,
                Respond, Goto
  <2>2. AtWork(r)
    BY <1>0, <2>1 DEF AtWork, WriterOnce, Ended
  <2>3. UNCHANGED <<control, accepted>>
    BY <1>4 DEF Arrives, Alone
  <2>4. \/ RejectPut(r) \/ RejectGet(r)
        \/ ReceivePut(r) \/ ReceiveGet(r)
    BY <1>4 DEF Arrives
  <2>5. CASE RejectPut(r) \/ RejectGet(r)
    BY <1>0, <2>2, <2>3, <2>5, AnswersSeen DEF L!Next
  <2>6. CASE ReceivePut(r) \/ ReceiveGet(r)
    BY <1>0, <2>2, <2>3, <2>6, GoesOnUnseen DEF GoesOn
  <2> QED
    BY <2>4, <2>5, <2>6
<1>5. ASSUME NEW r \in Requests, Handles(r)
      PROVE  L!Next \/ UNCHANGED <<control, wg, Handler, Writer>>
  <2>1. L!Alive /\ UNCHANGED <<control, accepted>>
    BY <1>5 DEF Handles, Alone
  <2>2. \/ GoesOn(r) \/ StorePut(r) \/ StoreGet(r)
        \/ RefetchPanics(r) \/ AnswerPut(r) \/ AnswerPutError(r)
        \/ AnswerGet(r) \/ AnswerGetError(r)
    BY <1>5 DEF Handles, PutStep, GetStep, GoesOn
  <2>3. pc[r] \in Running
    BY <1>5
    DEF Handles, PutStep, GetStep, SubmitReturns, SubmitFails, RefetchReturns,
        RefetchFails, RefetchPanics, RecordPut, StorePut, AnswerPut,
        AnswerPutError, RetrieveFinds, RetrieveMisses, RetrieveFails,
        ReadCanonical, ReadLegacy, ReadFails, ReadObject, Verify, StoreGet,
        RecordGet, AnswerGet, AnswerGetError, Respond, Goto, Running, PutPcs,
        GetPcs
  <2>4. AtWork(r)
    BY <2>1, <2>3 DEF AtWork
  <2>5. CASE GoesOn(r)
    BY <1>0, <2>1, <2>4, <2>5, GoesOnUnseen
  <2>6. CASE StorePut(r) \/ StoreGet(r)
    BY <1>0, <2>1, <2>6, StoresSeen DEF L!Next
  <2>7. CASE RefetchPanics(r) \/ AnswerPut(r) \/ AnswerPutError(r)
             \/ AnswerGet(r) \/ AnswerGetError(r)
    BY <1>0, <2>1, <2>4, <2>7, AnswersSeen DEF L!Next
  <2> QED
    BY <2>2, <2>5, <2>6, <2>7
<1>6. ASSUME NEW r \in Requests, Writes(r)
      PROVE  UNCHANGED <<control, wg, Handler, Writer>>
  <2>1. UNCHANGED <<control, accepted, pc, wg>>
    BY <1>6 DEF Writes, Alone, WriterStores, WriterFails, requests
  <2>2. ASSUME NEW q \in Requests
        PROVE  /\ writer'[q] = "none" <=> writer[q] = "none"
               /\ WriterSeen(q)' = WriterSeen(q)
    BY <1>0, <1>6
    DEF Writes, WriterStores, WriterFails, WriterSeen, Writing, TypeOK
  <2> QED
    BY <2>1, <2>2, NothingMoves DEF control
<1>7. ASSUME NEW r \in Requests, Done(r) PROVE L!Next
  BY <1>0, <1>7, WriterIsDone DEF L!Next
<1>8. CASE World \/ (\E p \in Puts: Broadcasts(p)) \/ UNCHANGED serverVars
  <2>1. UNCHANGED <<control, accepted, pc, writer, wg>>
    BY <1>8 DEF World, NextBlock, IncludePut, Broadcasts, Alone, BroadcastPut,
                serverVars, vars, requests, process
  <2>2. ASSUME NEW q \in Requests PROVE WriterSeen(q)' = WriterSeen(q)
    BY <2>1 DEF WriterSeen
  <2> QED
    BY <2>1, <2>2, NothingMoves DEF control
<1> QED
  BY <1>1, <1>2, <1>3, <1>4, <1>5, <1>6, <1>7, <1>8 DEF ServerNext

(* The initial states are Lifecycle's.                                     *)
LEMMA InitOfLifecycle == ServerInit => L!Init
<1> SUFFICES ASSUME ServerInit PROVE L!Init
  OBVIOUS
<1>1. ASSUME NEW r \in Requests
      PROVE  HandlerSeen(r) = "none" /\ WriterSeen(r) = "none"
  BY <1>1 DEF ServerInit, Init, HandlerSeen, WriterSeen, Writing, Running,
              PutPcs, GetPcs
<1> QED
  BY <1>1 DEF ServerInit, Init, L!Init

(* The handlers and the writers are what Start and Stop take them for:     *)
(* handlers register at most one writer, while they are at work, and each  *)
(* writer leaves the WaitGroup once.                                       *)
THEOREM RefinesLifecycle == ServerSpec => ImplementsLifecycle
<1>1. IInv /\ CountInv /\ [ServerNext]_serverVars => [L!Next]_(L!vars)
  BY StepOfLifecycle DEF L!vars, control, Handler, Writer
<1>2. ServerSpec => []IInv /\ []CountInv
  BY ServerIsDAServer, Invariance, CountInvariance, PTL
<1> QED
  BY InitOfLifecycle, <1>1, <1>2, PTL
  DEF ServerSpec, ImplementsLifecycle, L!Spec

(* L and P are the same specification.                                     *)
LEMMA SameLifecycle == L!Spec => P!Spec
<1>1. L!Init => P!Init
  BY DEF L!Init, P!Init
<1>2. L!Next => P!Next
  BY DEF L!Next, P!Next, L!StartStep, P!StartStep, L!ListenFails,
         P!ListenFails, L!Listen, P!Listen, L!SelectFails, P!SelectFails,
         L!SelectTimer, P!SelectTimer, L!ServeFails, P!ServeFails,
         L!MetricsFails, P!MetricsFails, L!Interrupt, P!Interrupt,
         L!StopStep, P!StopStep, L!ShutdownIdle, P!ShutdownIdle,
         L!ShutdownExpires, P!ShutdownExpires, L!ShutdownMetrics,
         P!ShutdownMetrics, L!WaitDone, P!WaitDone, L!WaitExpires,
         P!WaitExpires, L!Exit, P!Exit, L!Die, P!Die, L!WaiterStep,
         P!WaiterStep, L!WaiterEnters, P!WaiterEnters, L!WaiterReturns,
         P!WaiterReturns, L!WaiterPanics, P!WaiterPanics, L!Accept,
         P!Accept, L!Register, P!Register, L!Answer, P!Answer,
         L!WriterEnds, P!WriterEnds, L!Goto, P!Goto, L!Alive, P!Alive,
         L!Active, P!Active, L!Writers, P!Writers, L!vars, P!vars
<1>3. [L!Next]_(L!vars) => [P!Next]_(P!vars)
  BY <1>2 DEF L!vars, P!vars
<1> QED
  BY <1>1, <1>3, PTL DEF L!Spec, P!Spec

-----------------------------------------------------------------------------
(* No acknowledged batch is lost                                           *)

(* The lost writes are finitely many.                                      *)
LEMMA LostFinite ==
    ASSUME IInv, CountInv
    PROVE  IsFiniteSet(Lost) /\ Cardinality(Lost) \in Nat
<1>1. Lost \subseteq Registered /\ IsFiniteSet(Registered)
  BY CountedFinite DEF Lost, Registered
<1> QED
  BY <1>1, FS_Subset, FS_CardinalityType

(* A step that ends no failed write keeps what is over, and what it has    *)
(* left in the bucket.                                                     *)
Keeps(r) ==
    /\ writer'[r] \in {"none", "killed"} => writer'[r] = writer[r]
    /\ writer'[r] = "ended" => writer[r] \in {"stored", "ended"}
    /\ writer'[r] \in {"stored", "ended"} =>
           /\ comm'[r] = comm[r] /\ comm[r] \in Commitments
           /\ data'[r] = data[r] /\ data[r] \in Blobs
           /\ Published(comm[r], data[r])
    /\ writer'[r] = "stored" \/ (writer'[r] = "ended" /\ InFallback(r)) =>
           bucket'[CanonicalKey(comm[r])] = data[r]

LEMMA KeptFrame ==
    ASSUME IInv, CountInv, Kept, chain \subseteq chain', crashes' = crashes,
           conf' = conf,
           metrics'["fallbackWriteErrors"] = metrics["fallbackWriteErrors"],
           \A r \in Requests: Keeps(r),
           \A p \in Puts: reply'[p] = 200 => reply[p] = 200 \/ pc[p] = "putAnswer"
    PROVE  Kept'
<1>1. Lost' \subseteq Lost
  BY DEF Lost, Keeps, InFallback, Kept, FinalWrite
<1>2. Cardinality(Lost') <= Cardinality(Lost)
  BY <1>1, LostFinite, FS_Subset
<1>3. Cardinality(Lost') \in Nat /\ Cardinality(Lost) \in Nat
  BY <1>1, LostFinite, FS_Subset, FS_CardinalityType
<1>4. metrics["fallbackWriteErrors"] \in Nat
  BY DEF IInv, TypeOK, Counters
<1>5. ASSUME NEW r \in Requests PROVE FinalWrite(r)'
  BY <1>5 DEF Kept, FinalWrite, Keeps, Published, InFallback
<1>6. ASSUME NEW p \in Puts PROVE AckedRegistered(p)'
  <2>1. writer'[p] = "none" => writer[p] = "none"
    BY <1>6 DEF Keeps
  <2>2. AckedRegistered(p) /\ WriterOnce(p)
    BY <1>6 DEF Kept, CountInv
  <2> QED
    BY <2>1, <2>2, <1>6 DEF AckedRegistered, WriterOnce
<1> QED
  BY <1>2, <1>3, <1>4, <1>5, <1>6 DEF Kept

(* The steps of the handlers, of Celestia and of Start and Stop.           *)
LEMMA KeptByOthers ==
    ASSUME IInv, CountInv, Kept, chain \subseteq chain', bucket' = bucket,
           UNCHANGED <<crashes, conf>>,
           metrics'["fallbackWriteErrors"] = metrics["fallbackWriteErrors"],
           \A r \in Requests:
               /\ writer'[r] # writer[r] =>
                      writer[r] = "none" /\ writer'[r] = "writing"
               /\ writer[r] # "none" => comm'[r] = comm[r] /\ data'[r] = data[r],
           \A p \in Puts: reply'[p] = 200 => reply[p] = 200 \/ pc[p] = "putAnswer"
    PROVE  Kept'
<1>1. ASSUME NEW r \in Requests PROVE Keeps(r)
  BY <1>1 DEF Keeps, Kept, FinalWrite, InFallback
<1> QED
  BY <1>1, KeptFrame

(* A write may store its object and no other.                              *)
LEMMA WritesKept ==
    ASSUME IInv, CountInv, Kept, NEW r \in Requests, Writes(r)
    PROVE  Kept'
<1>1. /\ UNCHANGED <<chain, comm, data, reply, conf, crashes, metrics>>
      /\ writer[r] = "writing"
      /\ bucket' \in {bucket, PutObject(r)}
      /\ \/ writer' = [writer EXCEPT ![r] = "stored"] /\ bucket' = PutObject(r)
         \/ writer' = [writer EXCEPT ![r] = "error"]
  BY DEF Writes, WriterStores, WriterFails, celestia, requests
<1>2. TypeOK /\ WriterTracked(r)
  BY DEF IInv
<1>3. /\ comm[r] \in Commitments /\ data[r] \in Blobs
      /\ Published(comm[r], data[r])
      /\ CanonicalKey(comm[r]) \in Keys
  BY <1>1, <1>2, KeyType DEF WriterTracked, Writing
<1>4. ASSUME NEW q \in Requests, q # r PROVE Keeps(q)
  <2>1. writer'[q] = writer[q] /\ FinalWrite(q)
    BY <1>1, <1>2, <1>4 DEF TypeOK, Kept
  <2>2. ASSUME writer[q] \in {"stored", "ended"}, InFallback(q)
        PROVE  bucket'[CanonicalKey(comm[q])] = data[q]
    <3>1. CASE CanonicalKey(comm[q]) = CanonicalKey(comm[r])
      <4>1. comm[q] = comm[r]
        BY <3>1 DEF CanonicalKey
      <4>2. data[q] = data[r]
        BY <1>2, <1>3, <2>1, <2>2, <4>1, PublishedOnce DEF FinalWrite
      <4> QED
        BY <1>1, <1>2, <1>3, <2>2, <3>1, <4>2 DEF PutObject, TypeOK, InFallback
    <3>2. CASE CanonicalKey(comm[q]) # CanonicalKey(comm[r])
      <4>1. CanonicalKey(comm[q]) \in Keys
        BY <2>1, <2>2, KeyType DEF FinalWrite
      <4> QED
        BY <1>1, <1>2, <2>2, <3>2, <4>1 DEF PutObject, TypeOK, InFallback
    <3> QED
      BY <3>1, <3>2
  <2> QED
    BY <1>1, <2>1, <2>2 DEF Keeps, FinalWrite
<1>5. Keeps(r)
  <2>1. writer'[r] \in {"stored", "error"}
    BY <1>1, <1>2 DEF TypeOK
  <2>2. writer'[r] = "stored" => bucket' = PutObject(r)
    BY <1>1, <1>2 DEF TypeOK
  <2> QED
    BY <1>1, <1>2, <1>3, <2>1, <2>2 DEF Keeps, PutObject, TypeOK
<1> QED
  BY <1>1, <1>4, <1>5, KeptFrame

(* A write that has failed is counted when it ends.                        *)
LEMMA DoneKept ==
    ASSUME IInv, CountInv, Kept, NEW r \in Requests, Done(r)
    PROVE  Kept'
<1>1. /\ UNCHANGED <<chain, bucket, comm, data, reply, conf, crashes>>
      /\ writer' = [writer EXCEPT ![r] = "ended"]
  BY DEF Done, WriterEnds, celestia, requests
<1>2. TypeOK /\ WriterTracked(r)
  BY DEF IInv
<1>3. \A q \in Requests: writer'[q] = IF q = r THEN "ended" ELSE writer[q]
  BY <1>1, <1>2 DEF TypeOK
<1>4. CASE writer[r] = "stored" /\ Count({"fallbackWrites"})
  <2>1. metrics'["fallbackWriteErrors"] = metrics["fallbackWriteErrors"]
    BY <1>2, <1>4, CountOf DEF Counters
  <2>2. ASSUME NEW q \in Requests PROVE Keeps(q)
    BY <1>1, <1>3, <1>4 DEF Keeps, Kept, FinalWrite, InFallback
  <2> QED
    BY <1>1, <2>1, <2>2, KeptFrame
<1>5. CASE writer[r] = "error" /\ Count({"fallbackWrites", "fallbackWriteErrors"})
  <2>1. /\ metrics["fallbackWriteErrors"] \in Nat
        /\ conf.metrics => metrics'["fallbackWriteErrors"] =
                               metrics["fallbackWriteErrors"] + 1
    BY <1>2, <1>5, CountOf DEF Counters
  <2>2. Lost' \subseteq Lost \cup {r} /\ r \notin Lost
    BY <1>1, <1>3, <1>5 DEF Lost, InFallback
  <2>3. /\ IsFiniteSet(Lost \cup {r})
        /\ Cardinality(Lost \cup {r}) = Cardinality(Lost) + 1
        /\ Cardinality(Lost) \in Nat
    BY <2>2, LostFinite, OneMore
  <2>4. Cardinality(Lost') <= Cardinality(Lost) + 1 /\ Cardinality(Lost') \in Nat
    BY <2>2, <2>3, FS_Subset, FS_CardinalityType
  <2>5. ASSUME NEW q \in Requests PROVE FinalWrite(q)'
    BY <1>1, <1>2, <1>3, <1>5
    DEF Kept, FinalWrite, Published, InFallback, WriterTracked, Writing
  <2>6. ASSUME NEW p \in Puts PROVE AckedRegistered(p)'
    BY <1>1, <1>3 DEF Kept, AckedRegistered
  <2> QED
    BY <1>1, <2>1, <2>3, <2>4, <2>5, <2>6 DEF Kept
<1> QED
  BY <1>4, <1>5 DEF Done, WriterEnds

(* A process that has ended does not start again.                          *)
LEMMA StaysEnded == [ServerNext]_serverVars /\ ~L!Alive => ~L!Alive'
<1> SUFFICES ASSUME [ServerNext]_serverVars, ~L!Alive, main' # main
             PROVE  FALSE
  BY DEF L!Alive
<1>1. Starting \/ Interrupted \/ Stopping \/ Waiting \/ Returns \/ Panics
  BY DEF ServerNext, serverVars, control, Accept, Arrives, Handles, Writes,
         Done, Broadcasts, World, Alone
<1> QED
  BY <1>1
  DEF Starting, Interrupted, Stopping, Waiting, Returns, Panics, L!Alive,
      L!ListenFails, L!Listen, L!SelectFails, L!SelectTimer, L!ServeFails,
      L!MetricsFails, L!Interrupt, L!ShutdownIdle, L!ShutdownExpires,
      L!ShutdownMetrics, L!WaitDone, L!WaitExpires, L!WaiterEnters,
      L!WaiterReturns, L!WaiterPanics, L!Exit, L!Die, L!Goto

(* The handlers' steps change nothing of a write that is registered.       *)
LEMMA HandlesKept ==
    ASSUME IInv, CountInv, Kept, NEW r \in Requests,
           Arrives(r) \/ Handles(r)
    PROVE  Kept'
<1> USE DEF Arrives, Handles, PutStep, GetStep
<1>0. /\ TypeOK /\ Alone
      /\ \A q \in Requests: WriterOnce(q)
  BY DEF IInv, CountInv
<1>1. UNCHANGED <<chain, bucket, crashes, conf>>
  BY DEF RejectPut, ReceivePut, SubmitReturns, SubmitFails, RefetchReturns,
         RefetchFails, RefetchPanics, RecordPut, StorePut, AnswerPut,
         AnswerPutError, RejectGet, ReceiveGet, RetrieveFinds, RetrieveMisses,
         RetrieveFails, ReadCanonical, ReadLegacy, ReadFails, Verify, StoreGet,
         RecordGet, AnswerGet, AnswerGetError, celestia, process
<1>2. metrics'["fallbackWriteErrors"] = metrics["fallbackWriteErrors"]
  <2>1. \/ metrics' = metrics
        \/ \E cs \in SUBSET (Counters \ {"fallbackWriteErrors"}): Count(cs)
    BY DEF RejectPut, ReceivePut, SubmitReturns, SubmitFails, RefetchReturns,
           RefetchFails, RefetchPanics, RecordPut, StorePut, AnswerPut,
           AnswerPutError, RejectGet, ReceiveGet, RetrieveFinds,
           RetrieveMisses, RetrieveFails, ReadCanonical, ReadLegacy, ReadFails,
           Verify, StoreGet, RecordGet, AnswerGet, AnswerGetError, process,
           Counters
  <2> QED
    BY <1>0, <2>1, CountOf DEF Counters
<1>3. CASE StorePut(r) \/ StoreGet(r)
  <2>1. writer[r] = "none" /\ UNCHANGED <<comm, data, reply>>
    BY <1>0, <1>3 DEF StorePut, StoreGet, Goto, WriterOnce, Ended
  <2>2. ASSUME NEW q \in Requests, writer'[q] # writer[q]
        PROVE  writer[q] = "none" /\ writer'[q] = "writing"
    BY <1>0, <1>3, <2>1, <2>2
    DEF StorePut, StoreGet, RegisterIfEnabled, Register, TypeOK
  <2> QED
    BY <1>1, <1>2, <2>1, <2>2, KeptByOthers
<1>4. CASE ~(StorePut(r) \/ StoreGet(r))
  <2>1. writer' = writer
    BY <1>4 DEF RejectPut, ReceivePut, SubmitReturns, SubmitFails,
                RefetchReturns, RefetchFails, RefetchPanics, RecordPut,
                AnswerPut, AnswerPutError, RejectGet, ReceiveGet,
                RetrieveFinds, RetrieveMisses, RetrieveFails, ReadCanonical,
                ReadLegacy, ReadFails, Verify, RecordGet, AnswerGet,
                AnswerGetError, process
  <2>2. ASSUME NEW q \in Requests, writer[q] # "none"
        PROVE  comm'[q] = comm[q] /\ data'[q] = data[q]
    <3>1. pc[q] \in {"putAnswer", "getOk", "getAnswer"} \cup Ended
      BY <1>0, <2>2 DEF WriterOnce
    <3>3. CASE q # r
      BY <1>0, <1>4, <3>3
      DEF TypeOK, RejectPut, ReceivePut, SubmitReturns, SubmitFails,
          RefetchReturns, RefetchFails, RefetchPanics, RecordPut, AnswerPut,
          AnswerPutError, RejectGet, ReceiveGet, RetrieveFinds, RetrieveMisses,
          RetrieveFails, ReadCanonical, ReadLegacy, ReadFails, ReadObject,
          Verify, RecordGet, AnswerGet, AnswerGetError
    <3>4. CASE q = r
      <4>1. \/ AnswerPut(r) \/ RecordGet(r) \/ AnswerGet(r)
            \/ ~(pc[r] \in {"putAnswer", "getOk", "getAnswer"} \cup Ended)
        BY <1>4
        DEF RejectPut, ReceivePut, SubmitReturns, SubmitFails, RefetchReturns,
            RefetchFails, RefetchPanics, RecordPut, AnswerPutError, RejectGet,
            ReceiveGet, RetrieveFinds, RetrieveMisses, RetrieveFails,
            ReadCanonical, ReadLegacy, ReadFails, ReadObject, Verify,
            AnswerGetError, Respond, Goto, Ended
      <4> QED
        BY <3>1, <3>4, <4>1 DEF AnswerPut, RecordGet, AnswerGet
    <3> QED
      BY <3>3, <3>4
  <2>3. ASSUME NEW p \in Puts, reply'[p] = 200, reply[p] # 200
        PROVE  pc[p] = "putAnswer"
    <3>1. p \notin Gets /\ reply' # reply
      BY <2>3, RequestsAssumption
    <3>2. r = p
      BY <1>0, <1>4, <2>3, <3>1
      DEF TypeOK, RejectPut, ReceivePut, SubmitReturns, SubmitFails,
          RefetchReturns, RefetchFails, RefetchPanics, RecordPut, AnswerPut,
          AnswerPutError, RejectGet, ReceiveGet, RetrieveFinds, RetrieveMisses,
          RetrieveFails, ReadCanonical, ReadLegacy, ReadFails, Verify,
          RecordGet, AnswerGet, AnswerGetError, Respond
    <3> QED
      BY <1>0, <1>4, <2>3, <3>1, <3>2
      DEF TypeOK, RejectPut, ReceivePut, SubmitReturns, SubmitFails,
          RefetchReturns, RefetchFails, RefetchPanics, RecordPut, AnswerPut,
          AnswerPutError, Respond, Goto
  <2> QED
    BY <1>1, <1>2, <2>1, <2>2, <2>3, KeptByOthers
<1> QED
  BY <1>3, <1>4

(* Every step keeps what has to be kept.                                   *)
LEMMA StoreStep ==
    IInv /\ CountInv /\ StoreInv /\ [ServerNext]_serverVars => StoreInv'
<1> SUFFICES ASSUME IInv, CountInv, StoreInv, [ServerNext]_serverVars, L!Alive'
             PROVE  Kept'
  BY DEF StoreInv
<1>1. Kept
  BY StaysEnded DEF StoreInv
<1>2. ASSUME \/ Starting \/ Interrupted \/ Stopping \/ Waiting
             \/ UNCHANGED serverVars \/ World
             \/ (\E p \in Puts: Broadcasts(p))
             \/ (\E r \in Requests: Accept(r))
      PROVE  Kept'
  <2>1. /\ chain \subseteq chain'
        /\ UNCHANGED <<bucket, requests, process>>
    BY <1>2 DEF Starting, Interrupted, Stopping, Waiting, serverVars, vars,
                celestia, World, NextBlock, IncludePut, Broadcasts, BroadcastPut,
                Accept
  <2> QED
    BY <1>1, <2>1, KeptByOthers DEF requests, process
<1>3. CASE Returns \/ Panics
  BY <1>3 DEF Returns, Panics, L!Exit, L!WaiterPanics, L!Die, L!Goto, L!Alive
<1>4. ASSUME NEW r \in Requests, Arrives(r) \/ Handles(r) PROVE Kept'
  BY <1>1, <1>4, HandlesKept
<1>5. ASSUME NEW r \in Requests, Writes(r) PROVE Kept'
  BY <1>1, <1>5, WritesKept
<1>6. ASSUME NEW r \in Requests, Done(r) PROVE Kept'
  BY <1>1, <1>6, DoneKept
<1> QED
  BY <1>2, <1>3, <1>4, <1>5, <1>6 DEF ServerNext

(* While the server's process lives, each fallback write that is over is   *)
(* in the bucket for good, or in celestia_fallback_write_errors_total.     *)
THEOREM StoreInvariance == ServerSpec => []StoreInv
<1>1. ServerInit => StoreInv
  <2> SUFFICES ASSUME ServerInit PROVE Kept
    BY DEF StoreInv
  <2>1. Lost = {} /\ Cardinality(Lost) = 0
    BY FS_EmptySet DEF ServerInit, Init, Lost
  <2> QED
    BY <2>1 DEF ServerInit, Init, Kept, FinalWrite, AckedRegistered, Zero,
                Counters
<1>2. ServerSpec => []IInv /\ []CountInv
  BY ServerIsDAServer, Invariance, CountInvariance, PTL
<1> QED
  BY <1>1, <1>2, StoreStep, PTL DEF ServerSpec

(* Stop that returns without having given up on a handler or a write has   *)
(* lost no batch that op-batcher was told is stored: each is in the        *)
(* fallback, or its loss is in the metrics.                                *)
THEOREM AckedNotLost == ServerSpec => []CleanStopStored
<1>1. IInv /\ CountInv /\ StoreInv /\ P!IInv => CleanStopStored
  <2> SUFFICES ASSUME IInv, CountInv, StoreInv, P!IInv,
                      main = "completed", "http" \notin errs, conf.metrics
               PROVE  Cardinality({p \in Puts:
                                      /\ reply[p] = 200
                                      /\ conf.available
                                      /\ conf.mode \in {"write_through", "both"}
                                      /\ ~InFallback(p)})
                          <= metrics["fallbackWriteErrors"]
    BY DEF CleanStopStored
  <2> DEFINE missing == {p \in Puts: /\ reply[p] = 200
                                     /\ conf.available
                                     /\ conf.mode \in {"write_through", "both"}
                                     /\ ~InFallback(p)}
  <2>1. wg = 0
    BY DEF P!IInv, P!WaitSeen, P!Alive
  <2>2. Writers = {}
    BY <2>1, CountedFinite, FS_EmptySet DEF CountInv, WaitGroupExact
  <2>3. Kept /\ metrics["fallbackWriteErrors"] \in Nat
    BY DEF StoreInv, L!Alive, IInv, TypeOK, Counters
  <2>4. ASSUME NEW p \in missing PROVE p \in Lost
    <3>1. writer[p] # "none" /\ FinalWrite(p)
      BY <2>3, <2>4 DEF Kept, AckedRegistered, WriteEnabled
    <3>2. writer[p] \notin Writing
      BY <2>2, <2>4 DEF Writers
    <3>3. writer[p] = "ended"
      BY <2>4, <3>1, <3>2 DEF IInv, TypeOK, FinalWrite
    <3> QED
      BY <2>4, <3>3 DEF Lost
  <2>5. Cardinality(missing) <= Cardinality(Lost)
    BY <2>4, LostFinite, FS_Subset
  <2>6. Cardinality(missing) \in Nat /\ Cardinality(Lost) \in Nat
    BY <2>4, LostFinite, FS_Subset, FS_CardinalityType
  <2>7. Cardinality(missing) <= metrics["fallbackWriteErrors"]
    BY <2>3, <2>5, <2>6 DEF Kept
  <2> QED
    BY <2>7
<1>2. ServerSpec => []IInv /\ []CountInv
  BY ServerIsDAServer, Invariance, CountInvariance, PTL
<1>3. ServerSpec => []P!IInv
  BY RefinesLifecycle, SameLifecycle, P!Invariance, PTL DEF ImplementsLifecycle
<1> QED
  BY <1>1, <1>2, <1>3, StoreInvariance, PTL

(* What is proved of Lifecycle's Stop holds of the server's own handlers   *)
(* and writers: a stop that reports no error has cut none of them short,   *)
(* and the WaitGroup brings the process down only after Shutdown gave up.  *)
THEOREM ServerStopsClean ==
    ServerSpec => [](L!CleanStop /\ L!PanicOnlyAfterTimeout)
<1>1. P!IInv => L!CleanStop /\ L!PanicOnlyAfterTimeout
  BY DEF P!IInv, P!CleanStop, P!PanicOnlyAfterTimeout, L!CleanStop,
         L!PanicOnlyAfterTimeout
<1> QED
  BY <1>1, RefinesLifecycle, SameLifecycle, P!Invariance, PTL
  DEF ImplementsLifecycle
=============================================================================
