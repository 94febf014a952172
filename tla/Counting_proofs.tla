--------------------------- MODULE Counting_proofs ---------------------------
(***************************************************************************)
(* For every number of requests, configurations and crashes: the WaitGroup *)
(* and the counters of metrics.go agree with what the handlers and their   *)
(* writers did.  Nothing is assumed finite but what has happened so far.   *)
(***************************************************************************)
EXTENDS DAServer_proofs, FiniteSetTheorems

USE DEF Requests

(* One more, and one less.                                                 *)
LEMMA OneMore ==
    ASSUME NEW S, IsFiniteSet(S), NEW x, x \notin S
    PROVE  /\ IsFiniteSet(S \cup {x})
           /\ Cardinality(S \cup {x}) = Cardinality(S) + 1
           /\ Cardinality(S) \in Nat
BY FS_AddElement, FS_CardinalityType

LEMMA OneLess ==
    ASSUME NEW S, IsFiniteSet(S), NEW x \in S
    PROVE  /\ Cardinality(S \ {x}) = Cardinality(S) - 1
           /\ Cardinality(S) \in Nat
BY FS_RemoveElement, FS_CardinalityType

(* What Count does to each counter.                                        *)
LEMMA CountOf ==
    ASSUME TypeOK, NEW cs, Count(cs), NEW c \in Counters
    PROVE  /\ metrics[c] \in Nat
           /\ c \notin cs => metrics'[c] = metrics[c]
           /\ c \in cs /\ conf.metrics => metrics'[c] = metrics[c] + 1
BY DEF Count, TypeOK

(* What is counted is finite: it belongs to requests that have arrived.    *)
LEMMA CountedFinite ==
    ASSUME IInv, CountInv
    PROVE  /\ IsFiniteSet(Registered) /\ IsFiniteSet(Writers)
           /\ IsFiniteSet(Submitted) /\ IsFiniteSet(Failed)
<1>1. Registered \subseteq Arrived /\ Writers \subseteq Arrived
  BY DEF CountInv, WriterOnce, Registered, Writers, Writing, Arrived, Ended
<1>2. Submitted \subseteq Arrived /\ Failed \subseteq Arrived
  BY DEF IInv, PutTracked, Submitted, Failed, Arrived
<1>3. IsFiniteSet(Arrived)
  BY DEF CountInv
<1> QED
  BY <1>1, <1>2, <1>3, FS_Subset

(* The initial states satisfy the inductive invariant.                     *)
LEMMA InitCount == Init => CountInv
<1> SUFFICES ASSUME Init PROVE CountInv
  OBVIOUS
<1>1. ASSUME NEW r \in Requests PROVE WriterOnce(r)
  BY DEF Init, WriterOnce
<1>2. Registered = {} /\ Submitted = {} /\ Failed = {} /\ Writers = {}
  BY DEF Init, Registered, Submitted, Failed, Writers, Writing
<1>3. Arrived = {} /\ IsFiniteSet(Arrived)
  BY FS_EmptySet DEF Init, Arrived
<1>4. WaitGroupExact /\ ReadOnlyNeverWrites
  BY <1>2, FS_EmptySet DEF Init, WaitGroupExact, ReadOnlyNeverWrites
<1>5. MetricsAccount
  BY <1>2, FS_EmptySet DEF Init, MetricsAccount, Zero, Counters
<1>6. \A p \in Puts: pc[p] = "idle" => data[p] = NoData
  BY DEF Init
<1> QED
  BY <1>1, <1>3, <1>4, <1>5, <1>6 DEF CountInv

(* A handler that registers does so once: its writer is new.               *)
LEMMA OnceStep ==
    IInv /\ CountInv /\ [Next]_vars => \A q \in Requests: WriterOnce(q)'
<1> SUFFICES ASSUME IInv, CountInv, [Next]_vars, NEW q \in Requests
             PROVE  WriterOnce(q)'
  OBVIOUS
<1>0. TypeOK /\ WriterOnce(q)
  BY DEF IInv, CountInv
<1> USE DEF WriterOnce, Goto, celestia, requests, process, Ended
<1>1. ASSUME NEW p \in Puts, PutStep(p) PROVE WriterOnce(q)'
  <2>1. CASE StorePut(p)
    BY <1>0, <2>1 DEF StorePut, RegisterIfEnabled, Register, TypeOK
  <2>2. CASE SubmitReturns(p) \/ SubmitFails(p) \/ RefetchReturns(p)
             \/ RefetchFails(p) \/ RefetchPanics(p)
    BY <1>0, <2>2 DEF SubmitReturns, SubmitFails, RefetchReturns,
                      RefetchFails, RefetchPanics, TypeOK
  <2>3. CASE RecordPut(p) \/ AnswerPut(p) \/ AnswerPutError(p)
    BY <1>0, <2>3 DEF RecordPut, AnswerPut, AnswerPutError, Respond, TypeOK
  <2> QED
    BY <1>1, <2>1, <2>2, <2>3 DEF PutStep
<1>2. ASSUME NEW g \in Gets, GetStep(g) PROVE WriterOnce(q)'
  <2>1. CASE StoreGet(g)
    BY <1>0, <2>1 DEF StoreGet, RegisterIfEnabled, Register, TypeOK
  <2>2. CASE RetrieveFinds(g) \/ RetrieveMisses(g) \/ RetrieveFails(g)
    BY <1>0, <2>2 DEF RetrieveFinds, RetrieveMisses, RetrieveFails, TypeOK
  <2>3. CASE ReadCanonical(g) \/ ReadLegacy(g) \/ ReadFails(g)
    BY <1>0, <2>3
    DEF ReadCanonical, ReadLegacy, ReadFails, ReadObject, TypeOK
  <2>4. CASE Verify(g) \/ RecordGet(g) \/ AnswerGet(g) \/ AnswerGetError(g)
    BY <1>0, <2>4
    DEF Verify, RecordGet, AnswerGet, AnswerGetError, Respond, TypeOK
  <2> QED
    BY <1>2, <2>1, <2>2, <2>3, <2>4 DEF GetStep
<1>3. ASSUME NEW r \in Requests, WriterStep(r) PROVE WriterOnce(q)'
  BY <1>0, <1>3
  DEF WriterStep, WriterStores, WriterFails, WriterEnds, Writing, TypeOK
<1>4. ASSUME NEW p \in Puts, RejectPut(p) \/ ReceivePut(p)
      PROVE  WriterOnce(q)'
  BY <1>0, <1>4 DEF RejectPut, ReceivePut, Respond, TypeOK
<1>5. ASSUME NEW g \in Gets, RejectGet(g) \/ ReceiveGet(g)
      PROVE  WriterOnce(q)'
  BY <1>0, <1>5 DEF RejectGet, ReceiveGet, Respond, TypeOK
<1>6. CASE Crash
  BY <1>0, <1>6 DEF Crash, Running, PutPcs, GetPcs, Writing, TypeOK
<1>7. CASE UNCHANGED <<pc, writer, conf>>
  BY <1>0, <1>7
<1> QED
  BY <1>1, <1>2, <1>3, <1>4, <1>5, <1>6, <1>7
  DEF Next, vars, BroadcastPut, IncludePut, ForeignWrite, NextBlock

(* A PUT that has not been received has sent nothing.                      *)
LEMMA IdleStep ==
    IInv /\ CountInv /\ [Next]_vars =>
        \A q \in Puts: pc'[q] = "idle" => data'[q] = NoData
<1> SUFFICES ASSUME IInv, CountInv, [Next]_vars, NEW q \in Puts,
                    pc'[q] = "idle"
             PROVE  data'[q] = NoData
  OBVIOUS
<1>0. /\ TypeOK
      /\ pc[q] = "idle" => data[q] = NoData
      /\ \A g \in Gets: g # q
  BY RequestsAssumption DEF IInv, CountInv
<1> USE DEF Goto, celestia, requests, process
<1>1. ASSUME NEW p \in Puts, RejectPut(p) \/ ReceivePut(p) \/ PutStep(p)
      PROVE  data'[q] = NoData
  BY <1>0, <1>1
  DEF RejectPut, ReceivePut, PutStep, SubmitReturns, SubmitFails,
      RefetchReturns, RefetchFails, RefetchPanics, RecordPut, StorePut,
      AnswerPut, AnswerPutError, Respond, TypeOK
<1>2. ASSUME NEW g \in Gets, RejectGet(g) \/ ReceiveGet(g)
      PROVE  data'[q] = NoData
  BY <1>0, <1>2 DEF RejectGet, ReceiveGet, Respond, TypeOK
<1>3. ASSUME NEW g \in Gets, GetStep(g) PROVE data'[q] = NoData
  <2>1. pc'[q] = pc[q]
    BY <1>0, <1>3
    DEF GetStep, RetrieveFinds, RetrieveMisses, RetrieveFails, ReadCanonical,
        ReadLegacy, ReadFails, ReadObject, Verify, StoreGet, RecordGet,
        AnswerGet, AnswerGetError, Respond, TypeOK
  <2>2. data'[q] = data[q]
    BY <1>0, <1>3
    DEF GetStep, RetrieveFinds, RetrieveMisses, RetrieveFails, ReadCanonical,
        ReadLegacy, ReadFails, ReadObject, Verify, StoreGet, RecordGet,
        AnswerGet, AnswerGetError, TypeOK
  <2> QED
    BY <1>0, <2>1, <2>2
<1>4. CASE Crash
  BY <1>0, <1>4 DEF Crash, TypeOK
<1>5. CASE UNCHANGED <<pc, data>>
  BY <1>0, <1>5
<1> QED
  BY <1>1, <1>2, <1>3, <1>4, <1>5
  DEF Next, WriterStep, WriterStores, WriterFails, WriterEnds, vars,
      BroadcastPut, IncludePut, ForeignWrite, NextBlock

(* In the step of a handler that registers or not, the WaitGroup follows.  *)
Balanced == crashes = 0 /\ conf.metrics =>
                metrics["fallbackWrites"] + wg = Cardinality(Registered)

LEMMA RegisterCounts ==
    ASSUME IInv, CountInv, NEW r \in Requests, writer[r] = "none",
           RegisterIfEnabled(r), UNCHANGED <<conf, metrics, crashes>>
    PROVE  (WaitGroupExact /\ ReadOnlyNeverWrites /\ Balanced)'
<1>0. /\ TypeOK
      /\ IsFiniteSet(Registered) /\ IsFiniteSet(Writers)
      /\ WaitGroupExact /\ ReadOnlyNeverWrites /\ Balanced
      /\ metrics["fallbackWrites"] \in Nat /\ wg \in Int
  BY CountedFinite DEF IInv, CountInv, MetricsAccount, Balanced, TypeOK, Counters
<1>1. CASE conf.available /\ WriteEnabled(conf.mode)
  <2>1. /\ writer' = [writer EXCEPT ![r] = "writing"]
        /\ wg' = wg + 1
    BY <1>1 DEF RegisterIfEnabled, Register
  <2>2. /\ Registered' = Registered \cup {r} /\ r \notin Registered
        /\ Writers' = Writers \cup {r} /\ r \notin Writers
    BY <1>0, <2>1 DEF Registered, Writers, Writing, TypeOK
  <2>3. /\ Cardinality(Registered') = Cardinality(Registered) + 1
        /\ Cardinality(Writers') = Cardinality(Writers) + 1
        /\ Cardinality(Registered) \in Nat
    BY <1>0, <2>2, OneMore
  <2>4. conf.mode # "read_fallback" /\ conf.available
    BY <1>1 DEF WriteEnabled
  <2> QED
    BY <1>0, <2>1, <2>3, <2>4
    DEF WaitGroupExact, ReadOnlyNeverWrites, Balanced
<1>2. CASE ~(conf.available /\ WriteEnabled(conf.mode))
  <2>1. UNCHANGED <<writer, wg>>
    BY <1>2 DEF RegisterIfEnabled
  <2>2. Registered' = Registered /\ Writers' = Writers
    BY <2>1 DEF Registered, Writers
  <2> QED
    BY <1>0, <2>1, <2>2 DEF WaitGroupExact, ReadOnlyNeverWrites, Balanced
<1> QED
  BY <1>1, <1>2

(* Every step keeps the WaitGroup and the fallback counter balanced.       *)
LEMMA BalanceStep ==
    IInv /\ CountInv /\ [Next]_vars =>
        (WaitGroupExact /\ ReadOnlyNeverWrites /\ Balanced)'
<1> SUFFICES ASSUME IInv, CountInv, [Next]_vars
             PROVE  (WaitGroupExact /\ ReadOnlyNeverWrites /\ Balanced)'
  OBVIOUS
<1>0. /\ TypeOK
      /\ \A r \in Requests: WriterOnce(r)
      /\ IsFiniteSet(Registered) /\ IsFiniteSet(Writers)
      /\ WaitGroupExact /\ ReadOnlyNeverWrites /\ Balanced
      /\ metrics["fallbackWrites"] \in Nat /\ wg \in Int
  BY CountedFinite DEF IInv, CountInv, MetricsAccount, Balanced, TypeOK, Counters
<1> USE DEF celestia, requests, process
<1>1. ASSUME NEW r \in Requests,
             \/ r \in Puts /\ StorePut(r)
             \/ r \in Gets /\ StoreGet(r)
      PROVE  (WaitGroupExact /\ ReadOnlyNeverWrites /\ Balanced)'
  <2>1. pc[r] \in {"putStore", "getStore"}
    BY <1>1 DEF StorePut, StoreGet, Goto
  <2>2. writer[r] = "none"
    BY <1>0, <2>1 DEF WriterOnce, Ended
  <2>3. RegisterIfEnabled(r) /\ UNCHANGED <<conf, metrics, crashes>>
    BY <1>1 DEF StorePut, StoreGet
  <2> QED
    BY <1>0, <2>2, <2>3, RegisterCounts
<1>2. ASSUME NEW r \in Requests, WriterStores(r) \/ WriterFails(r)
      PROVE  (WaitGroupExact /\ ReadOnlyNeverWrites /\ Balanced)'
  <2>1. UNCHANGED <<wg, conf, metrics, crashes>>
    BY <1>2 DEF WriterStores, WriterFails
  <2>2. Registered' = Registered /\ Writers' = Writers
    BY <1>0, <1>2
    DEF WriterStores, WriterFails, Registered, Writers, Writing, TypeOK
  <2> QED
    BY <1>0, <2>1, <2>2 DEF WaitGroupExact, ReadOnlyNeverWrites, Balanced
<1>3. ASSUME NEW r \in Requests, WriterEnds(r)
      PROVE  (WaitGroupExact /\ ReadOnlyNeverWrites /\ Balanced)'
  <2>1. /\ writer[r] \in Writing
        /\ writer' = [writer EXCEPT ![r] = "ended"]
        /\ wg' = wg - 1
        /\ UNCHANGED <<conf, crashes>>
    BY <1>3 DEF WriterEnds, Writing
  <2>2. /\ Registered' = Registered
        /\ Writers' = Writers \ {r} /\ r \in Writers
    BY <1>0, <2>1 DEF Registered, Writers, Writing, TypeOK
  <2>3. conf.metrics =>
            metrics'["fallbackWrites"] = metrics["fallbackWrites"] + 1
    BY <1>0, <1>3, CountOf DEF WriterEnds, Counters
  <2>4. Cardinality(Writers') = Cardinality(Writers) - 1
    BY <1>0, <2>2, OneLess
  <2>5. Writers' = {} \/ Writers # {}
    BY <2>2
  <2> QED
    BY <1>0, <2>1, <2>2, <2>3, <2>4, <2>5
    DEF WaitGroupExact, ReadOnlyNeverWrites, Balanced
<1>4. CASE Crash
  <2>1. Registered' = Registered /\ Writers' = {}
    BY <1>0, <1>4 DEF Crash, Registered, Writers, Writing, TypeOK
  <2>2. wg' = 0 /\ crashes' # 0
    BY <1>0, <1>4, CrashesAssumption DEF Crash, TypeOK
  <2> QED
    BY <1>0, <2>1, <2>2, FS_EmptySet
    DEF WaitGroupExact, ReadOnlyNeverWrites, Balanced
<1>5. CASE /\ UNCHANGED <<writer, wg, conf, crashes>>
           /\ metrics'["fallbackWrites"] = metrics["fallbackWrites"]
  <2>1. Registered' = Registered /\ Writers' = Writers
    BY <1>5 DEF Registered, Writers
  <2> QED
    BY <1>0, <1>5, <2>1 DEF WaitGroupExact, ReadOnlyNeverWrites, Balanced
<1>6. ASSUME NEW r \in Requests,
             \/ RecordPut(r) \/ AnswerPutError(r)
             \/ RecordGet(r) \/ AnswerGetError(r)
      PROVE  /\ UNCHANGED <<writer, wg, conf, crashes>>
             /\ metrics'["fallbackWrites"] = metrics["fallbackWrites"]
  BY <1>0, <1>6, CountOf
  DEF RecordPut, AnswerPutError, RecordGet, AnswerGetError, Counters
<1> QED
  BY <1>1, <1>2, <1>3, <1>4, <1>5, <1>6
  DEF Next, PutStep, GetStep, WriterStep, vars,
      RejectPut, ReceivePut, BroadcastPut, SubmitReturns, SubmitFails,
      RefetchReturns, RefetchFails, RefetchPanics, AnswerPut, IncludePut,
      RejectGet, ReceiveGet, RetrieveFinds, RetrieveMisses, RetrieveFails,
      ReadCanonical, ReadLegacy, ReadFails, Verify, AnswerGet, ForeignWrite,
      NextBlock

(* A step moves one request, or kills those that run.                      *)
LEMMA ArrivedStep == IInv /\ CountInv /\ [Next]_vars => IsFiniteSet(Arrived')
<1> SUFFICES ASSUME IInv, CountInv, [Next]_vars PROVE IsFiniteSet(Arrived')
  OBVIOUS
<1>0. TypeOK /\ IsFiniteSet(Arrived)
  BY DEF IInv, CountInv
<1> USE DEF Goto, celestia, requests, process
<1>1. ASSUME NEW r \in Requests, NEW to, pc' = [pc EXCEPT ![r] = to]
      PROVE  IsFiniteSet(Arrived')
  <2>1. Arrived' \subseteq Arrived \cup {r}
    BY <1>0, <1>1 DEF Arrived, TypeOK
  <2> QED
    BY <1>0, <2>1, FS_AddElement, FS_Subset
<1>2. CASE Crash
  <2>1. Arrived' = Arrived
    BY <1>0, <1>2 DEF Crash, Arrived, TypeOK, Running, PutPcs, GetPcs
  <2> QED
    BY <1>0, <2>1
<1>3. CASE pc' = pc
  BY <1>0, <1>3 DEF Arrived
<1>4. ASSUME NEW p \in Puts, RejectPut(p) \/ ReceivePut(p) \/ PutStep(p)
      PROVE  \E to: pc' = [pc EXCEPT ![p] = to]
  BY <1>4
  DEF RejectPut, ReceivePut, PutStep, SubmitReturns, SubmitFails,
      RefetchReturns, RefetchFails, RefetchPanics, RecordPut, StorePut,
      AnswerPut, AnswerPutError, Respond
<1>5. ASSUME NEW g \in Gets, RejectGet(g) \/ ReceiveGet(g) \/ GetStep(g)
      PROVE  \E to: pc' = [pc EXCEPT ![g] = to]
  BY <1>5
  DEF RejectGet, ReceiveGet, GetStep, RetrieveFinds, RetrieveMisses,
      RetrieveFails, ReadCanonical, ReadLegacy, ReadFails, ReadObject, Verify,
      StoreGet, RecordGet, AnswerGet, AnswerGetError, Respond
<1> QED
  BY <1>1, <1>2, <1>3, <1>4, <1>5
  DEF Next, WriterStep, WriterStores, WriterFails, WriterEnds, vars,
      BroadcastPut, IncludePut, ForeignWrite, NextBlock

(* The submissions, their errors and the inclusion height are as counted.  *)
Tallied ==
    crashes = 0 /\ conf.metrics =>
        /\ metrics["submissions"] = Cardinality(Submitted)
        /\ metrics["submissionErrors"] = Cardinality(Failed)
        /\ gauge \in {0} \cup {comm[p].height: p \in Submitted}

(* A step that counts no submission and changes no set of PUTs.            *)
LEMMA TallyFrame ==
    ASSUME Tallied, UNCHANGED <<conf, crashes, gauge, Submitted, Failed>>,
           \A p \in Submitted: comm'[p] = comm[p],
           metrics'["submissions"] = metrics["submissions"],
           metrics'["submissionErrors"] = metrics["submissionErrors"]
    PROVE  Tallied'
BY DEF Tallied

(* Every step keeps the tally.                                             *)
LEMMA TallyStep == IInv /\ CountInv /\ [Next]_vars => Tallied'
<1> SUFFICES ASSUME IInv, CountInv, [Next]_vars PROVE Tallied'
  OBVIOUS
<1>0. /\ TypeOK /\ Tallied
      /\ \A p \in Puts: PutTracked(p) /\ p \notin Gets
      /\ \A p \in Puts: pc[p] = "idle" => data[p] = NoData
      /\ IsFiniteSet(Submitted) /\ IsFiniteSet(Failed)
  BY CountedFinite, RequestsAssumption
  DEF IInv, CountInv, MetricsAccount, Tallied
<1> USE DEF Goto, celestia, requests, process
<1>1. ASSUME NEW p \in Puts, RecordPut(p) PROVE Tallied'
  <2>1. /\ pc[p] = "putOk" /\ comm[p] # NoComm
        /\ pc' = [pc EXCEPT ![p] = "putStore"]
        /\ UNCHANGED <<comm, data, conf, crashes>>
        /\ gauge' = IF conf.metrics THEN comm[p].height ELSE gauge
    <3>1. pc[p] = "putOk" /\ pc' = [pc EXCEPT ![p] = "putStore"]
      BY <1>1 DEF RecordPut
    <3>2. comm[p] # NoComm
      BY <1>0, <3>1 DEF PutTracked
    <3> QED
      BY <1>1, <3>1, <3>2 DEF RecordPut
  <2>2. Submitted' = Submitted \cup {p} /\ p \notin Submitted
    BY <1>0, <2>1 DEF Submitted, TypeOK
  <2>3. Failed' = Failed
    BY <1>0, <2>1 DEF Failed, TypeOK
  <2>4. conf.metrics =>
            /\ metrics'["submissions"] = metrics["submissions"] + 1
            /\ metrics'["submissionErrors"] = metrics["submissionErrors"]
    BY <1>0, <1>1, CountOf DEF RecordPut, Counters
  <2>5. Cardinality(Submitted') = Cardinality(Submitted) + 1
    BY <1>0, <2>2, OneMore
  <2> QED
    BY <1>0, <2>1, <2>2, <2>3, <2>4, <2>5 DEF Tallied
<1>2. ASSUME NEW p \in Puts, AnswerPutError(p) PROVE Tallied'
  <2>1. /\ pc[p] = "putFailed" /\ comm[p] = NoComm /\ data[p] # NoData
        /\ pc' = [pc EXCEPT ![p] = "done"]
        /\ UNCHANGED <<comm, data, conf, crashes, gauge>>
    <3>1. pc[p] = "putFailed" /\ pc' = [pc EXCEPT ![p] = "done"]
      BY <1>2 DEF AnswerPutError, Respond
    <3>2. comm[p] = NoComm /\ data[p] \in Blobs
      BY <1>0, <3>1 DEF PutTracked, PutPcs
    <3> QED
      BY <1>2, <3>1, <3>2, NoDataAssumption DEF AnswerPutError
  <2>2. Failed' = Failed \cup {p} /\ p \notin Failed
    BY <1>0, <2>1 DEF Failed, TypeOK
  <2>3. Submitted' = Submitted
    BY <1>0, <2>1 DEF Submitted, TypeOK
  <2>4. conf.metrics =>
            /\ metrics'["submissions"] = metrics["submissions"]
            /\ metrics'["submissionErrors"] = metrics["submissionErrors"] + 1
    BY <1>0, <1>2, CountOf DEF AnswerPutError, Counters
  <2>5. Cardinality(Failed') = Cardinality(Failed) + 1
    BY <1>0, <2>2, OneMore
  <2> QED
    BY <1>0, <2>1, <2>3, <2>4, <2>5 DEF Tallied
<1>3. ASSUME NEW p \in Puts,
             \/ RejectPut(p) \/ ReceivePut(p) \/ SubmitReturns(p)
             \/ SubmitFails(p) \/ RefetchReturns(p) \/ RefetchFails(p)
             \/ RefetchPanics(p) \/ StorePut(p) \/ AnswerPut(p)
      PROVE  Tallied'
  <2> USE DEF RejectPut, ReceivePut, SubmitReturns, SubmitFails,
              RefetchReturns, RefetchFails, RefetchPanics, StorePut,
              AnswerPut, Respond
  <2>1. UNCHANGED <<conf, crashes, gauge, metrics>>
    BY <1>3
  <2>2. ASSUME NEW q \in Puts, q # p
        PROVE  UNCHANGED <<comm[q], data[q], pc[q]>>
    BY <1>0, <1>3, <2>2 DEF TypeOK
  <2>3. /\ p \in Submitted <=> p \in Submitted'
        /\ p \in Submitted => comm'[p] = comm[p]
    <3>1. PutTracked(p)
      BY <1>0
    <3>2. CASE RejectPut(p) \/ ReceivePut(p) \/ SubmitFails(p)
      BY <1>0, <3>1, <3>2 DEF Submitted, PutTracked, TypeOK
    <3>3. CASE SubmitReturns(p)
      BY <1>0, <3>1, <3>3 DEF Submitted, PutTracked, TypeOK
    <3>4. CASE RefetchReturns(p) \/ RefetchFails(p) \/ RefetchPanics(p)
      BY <1>0, <3>1, <3>4 DEF Submitted, PutTracked, TypeOK
    <3>5. CASE StorePut(p) \/ AnswerPut(p)
      BY <1>0, <3>1, <3>5 DEF Submitted, PutTracked, TypeOK
    <3> QED
      BY <1>3, <3>2, <3>3, <3>4, <3>5
  <2>4. p \in Failed <=> p \in Failed'
    <3>1. PutTracked(p) /\ (pc[p] = "idle" => data[p] = NoData)
      BY <1>0
    <3>2. pc[p] # "done"
      BY <1>3
    <3>3. CASE RejectPut(p)
      BY <1>0, <3>1, <3>2, <3>3 DEF Failed, TypeOK
    <3>4. CASE AnswerPut(p)
      <4>1. comm[p] # NoComm /\ comm' = comm
        BY <3>1, <3>4 DEF PutTracked
      <4> QED
        BY <3>2, <4>1 DEF Failed
    <3>5. CASE pc'[p] # "done"
      BY <3>2, <3>5 DEF Failed
    <3> QED
      BY <1>0, <1>3, <3>3, <3>4, <3>5 DEF TypeOK
  <2>5. Submitted' = Submitted /\ Failed' = Failed
    BY <2>2, <2>3, <2>4 DEF Submitted, Failed
  <2>6. \A q \in Submitted: comm'[q] = comm[q]
    BY <2>2, <2>3 DEF Submitted
  <2> QED
    BY <1>0, <2>1, <2>5, <2>6, TallyFrame
<1>4. ASSUME NEW r \in Requests,
             \/ r \in Gets /\ (RejectGet(r) \/ ReceiveGet(r) \/ GetStep(r))
             \/ WriterStep(r)
      PROVE  Tallied'
  <2> USE DEF RejectGet, ReceiveGet, GetStep, RetrieveFinds, RetrieveMisses,
              RetrieveFails, ReadCanonical, ReadLegacy, ReadFails, ReadObject,
              Verify, StoreGet, RecordGet, AnswerGet, AnswerGetError, Respond,
              WriterStep, WriterStores, WriterFails, WriterEnds
  <2>1. /\ UNCHANGED <<conf, crashes, gauge>>
        /\ metrics'["submissions"] = metrics["submissions"]
        /\ metrics'["submissionErrors"] = metrics["submissionErrors"]
    BY <1>0, <1>4, CountOf DEF Counters
  <2>2. ASSUME NEW q \in Puts PROVE UNCHANGED <<comm[q], data[q], pc[q]>>
    <3>1. CASE WriterStep(r)
      BY <3>1
    <3>2. CASE r \in Gets /\ (RejectGet(r) \/ ReceiveGet(r) \/ GetStep(r))
      <4>0. r # q
        BY <1>0, <3>2
      <4>1. CASE RejectGet(r) \/ ReceiveGet(r) \/ RetrieveFinds(r)
                 \/ RetrieveMisses(r) \/ RetrieveFails(r)
        BY <1>0, <4>0, <4>1 DEF TypeOK
      <4>2. CASE ReadCanonical(r) \/ ReadLegacy(r) \/ ReadFails(r) \/ Verify(r)
        BY <1>0, <4>0, <4>2 DEF TypeOK
      <4>3. CASE StoreGet(r) \/ RecordGet(r) \/ AnswerGet(r) \/ AnswerGetError(r)
        BY <1>0, <4>0, <4>3 DEF TypeOK
      <4> QED
        BY <3>2, <4>1, <4>2, <4>3
    <3> QED
      BY <1>4, <3>1, <3>2
  <2>3. UNCHANGED <<Submitted, Failed>>
    BY <2>2 DEF Submitted, Failed
  <2>4. \A q \in Submitted: comm'[q] = comm[q]
    BY <2>2 DEF Submitted
  <2> QED
    BY <1>0, <2>1, <2>3, <2>4, TallyFrame
<1>5. CASE Crash
  BY <1>0, <1>5, CrashesAssumption DEF Crash, Tallied, TypeOK
<1>6. CASE UNCHANGED <<pc, comm, data, conf, crashes, gauge, metrics>>
  BY <1>0, <1>6 DEF Tallied, Submitted, Failed
<1> QED
  BY <1>1, <1>2, <1>3, <1>4, <1>5, <1>6
  DEF Next, PutStep, vars, BroadcastPut, IncludePut, ForeignWrite, NextBlock

(* Every reachable state satisfies the invariant behind the counts.        *)
THEOREM CountInvariance == Spec => []CountInv
<1>1. IInv /\ CountInv /\ [Next]_vars => CountInv'
  BY OnceStep, IdleStep, ArrivedStep, BalanceStep, TallyStep
  DEF CountInv, MetricsAccount, Balanced, Tallied
<1> QED
  BY Invariance, InitCount, <1>1, PTL DEF Spec

(* sync.WaitGroup's counter is the number of putFallback goroutines that   *)
(* have not returned: it never drops below zero, which would panic, and    *)
(* Stop's Wait returns when, and only when, none of them runs.             *)
THEOREM WaitGroupCounts == Spec => []WaitGroupExact
<1>1. CountInv => WaitGroupExact
  BY DEF CountInv
<1> QED
  BY CountInvariance, <1>1, PTL

(* A server in read_fallback mode, or without a provider, never has a      *)
(* fallback writer, whatever the process before the restart had.           *)
THEOREM ReadOnlyServes == Spec => []ReadOnlyNeverWrites
<1>1. CountInv => ReadOnlyNeverWrites
  BY DEF CountInv
<1> QED
  BY CountInvariance, <1>1, PTL

(* The Prometheus counters of a process account for its PUTs, for its      *)
(* fallback writes and for the inclusion height it reports.                *)
THEOREM MetricsAreExact == Spec => []MetricsAccount
<1>1. CountInv => MetricsAccount
  BY DEF CountInv
<1> QED
  BY CountInvariance, <1>1, PTL

(* HandlePut answers 200 after its wg.Add(1): a Stop that begins when the  *)
(* batcher has its answer waits for the write.                             *)
THEOREM RegistersBeforeAck == Spec => RegisterBeforeAck
<1> DEFINE Kept == \A p \in Puts:
                      /\ reply[p] = 0 /\ reply'[p] = 200
                      /\ conf.available /\ conf.mode \in {"write_through", "both"}
                      => writer[p] # "none"
<1>1. ASSUME IInv, CountInv, [Next]_vars PROVE Kept
  <2> SUFFICES ASSUME NEW p \in Puts, reply[p] = 0, reply'[p] = 200,
                      conf.available, conf.mode \in {"write_through", "both"}
               PROVE  writer[p] # "none"
    OBVIOUS
  <2>0. TypeOK /\ WriterOnce(p) /\ \A g \in Gets: g # p
    BY <1>1, RequestsAssumption DEF IInv, CountInv
  <2>1. pc[p] = "putAnswer"
    <3> USE DEF celestia, requests, Respond, Goto
    <3>1. ASSUME NEW r \in Puts,
                 \/ RejectPut(r) \/ ReceivePut(r) \/ SubmitReturns(r)
                 \/ SubmitFails(r) \/ RefetchReturns(r) \/ RefetchFails(r)
          PROVE  FALSE
      BY <2>0, <3>1
      DEF RejectPut, ReceivePut, SubmitReturns, SubmitFails, RefetchReturns,
          RefetchFails, TypeOK
    <3>2. ASSUME NEW r \in Puts,
                 \/ RefetchPanics(r) \/ RecordPut(r) \/ StorePut(r)
                 \/ AnswerPutError(r) \/ BroadcastPut(r) \/ IncludePut(r)
          PROVE  FALSE
      BY <2>0, <3>2
      DEF RefetchPanics, RecordPut, StorePut, AnswerPutError, BroadcastPut,
          IncludePut, TypeOK
    <3>3. ASSUME NEW r \in Puts, AnswerPut(r)
          PROVE  pc[p] = "putAnswer"
      BY <2>0, <3>3 DEF AnswerPut, TypeOK
    <3>4. ASSUME NEW g \in Gets, RejectGet(g) \/ ReceiveGet(g) \/ GetStep(g)
          PROVE  FALSE
      <4>1. reply'[p] = reply[p]
        BY <2>0, <3>4
        DEF RejectGet, ReceiveGet, GetStep, RetrieveFinds, RetrieveMisses,
            RetrieveFails, ReadCanonical, ReadLegacy, ReadFails, ReadObject,
            Verify, StoreGet, RecordGet, AnswerGet, AnswerGetError, TypeOK
      <4> QED
        BY <4>1
    <3>5. CASE UNCHANGED reply
      BY <3>5
    <3> QED
      BY <1>1, <3>1, <3>2, <3>3, <3>4, <3>5
      DEF Next, PutStep, WriterStep, vars, WriterStores, WriterFails,
          WriterEnds, ForeignWrite, NextBlock, Crash
  <2> QED
    BY <2>0, <2>1 DEF WriterOnce, WriteEnabled
<1>2. IInv /\ CountInv /\ [Next]_vars => [Kept]_vars
  BY <1>1
<1> QED
  BY Invariance, CountInvariance, <1>2, PTL DEF Spec, RegisterBeforeAck
=============================================================================
