------------------------------ MODULE DAServer ------------------------------
(***************************************************************************)
(* The HTTP handlers of celestia_server.go over the Celestia store of      *)
(* celestia_storage.go and the S3 fallback provider of fallback/s3/s3.go.  *)
(*                                                                         *)
(* Every request is handled by a goroutine of its own; pc[r] is where that *)
(* goroutine stands.  A step ends where the code reads or changes          *)
(* something others see: Celestia, the bucket, the WaitGroup, the metrics  *)
(* or the HTTP response.  A request that registers a fallback write has a  *)
(* second goroutine, putFallback, whose state is writer[r]: it outlives    *)
(* the request.  Timeouts, cancelled contexts and node or S3 errors are    *)
(* the failing outcomes of the calls they interrupt.                       *)
(***************************************************************************)
EXTENDS Commitments, Integers, FiniteSets

CONSTANTS
    Configs,      \* the configurations the operator starts the server with
    ForeignKeys,  \* the S3 keys that programs other than the server write
    MaxCrashes,   \* bound: how often the process crashes and is restarted
    NoData,       \* no payload
    NoComm        \* no commitment

ASSUME NoDataAssumption == NoData \notin Blobs
ASSUME NoCommAssumption == NoComm \notin Commitments

Modes == {"write_through", "read_fallback", "both"}
Configurations ==
    [mode: Modes, available: BOOLEAN, readLegacy: BOOLEAN, compact: BOOLEAN,
     metrics: BOOLEAN]

ASSUME CrashesAssumption == MaxCrashes \in Nat
ASSUME ConfigAssumption == Configs \subseteq Configurations

(* The S3 keys: makeKey hashes the whole commitment, the legacy key is made *)
(* of the blob ID alone, whether or not the commitment has its prefix.      *)
CanonicalKey_HeightOnly(c) ==
    [kind |-> "canonical", id |-> [c EXCEPT !.hash = CHOOSE h \in Hashes: TRUE]]
CanonicalKey(c) == [kind |-> "canonical", id |-> c]
LegacyKey(c) == [kind |-> "legacy", id |-> [c EXCEPT !.prefix = "bare"]]
Keys == [kind: {"canonical", "legacy"}, id: Commitments]

ASSUME ForeignAssumption == ForeignKeys \subseteq Keys

VARIABLES
    \* Celestia and S3, which survive the process
    head,      \* the height Celestia is building
    chain,     \* the blobs included so far
    mempool,   \* the PUTs whose transaction is broadcast and not included
    included,  \* the height a PUT's blob was included at, 0 if none
    bucket,    \* the objects in the S3 bucket
    \* the requests
    pc,        \* where the handler of each request is
    comm,      \* the commitment requested by a GET, obtained by a PUT
    data,      \* the payload sent by a PUT, found by a GET
    reply,     \* the HTTP status the client received, 0 if none
    \* the process
    conf,      \* its configuration
    writer,    \* the putFallback goroutine of each request
    wg,        \* the counter of the server's WaitGroup
    metrics,   \* the counters of metrics.go
    gauge,     \* op_altda_inclusion_height
    crashes    \* the crashes so far

celestia == <<head, chain, mempool, included>>
requests == <<pc, comm, data, reply>>
process == <<conf, writer, wg, metrics, gauge, crashes>>
vars == <<celestia, bucket, requests, process>>

Counters == {"submissions", "submissionErrors", "retrievals",
             "retrievalErrors", "httpPut", "httpGet",
             "fallbackWrites", "fallbackWriteErrors"}

PutPcs == {"submit", "refetch", "putFailed", "putOk", "putStore", "putAnswer"}
GetPcs == {"retrieve", "notFound", "failed", "canonical", "legacy", "verify",
           "getStore", "getOk", "getAnswer"}
Running == PutPcs \cup GetPcs
Ended == {"done", "panicked", "killed"}
Writing == {"writing", "stored", "error"}

TypeOK ==
    /\ head \in Heights
    /\ chain \subseteq [height: Heights, data: Blobs]
    /\ mempool \subseteq Puts
    /\ included \in [Puts -> Heights \cup {0}]
    /\ bucket \in [Keys -> Blobs \cup {NoData}]
    /\ pc \in [Requests -> {"idle"} \cup Running \cup Ended]
    /\ comm \in [Requests -> Commitments \cup {NoComm}]
    /\ data \in [Requests -> Blobs \cup {NoData}]
    /\ reply \in [Requests -> {0, 200, 400, 404, 405, 413, 500}]
    /\ conf \in Configs
    /\ writer \in [Requests -> {"none", "ended", "killed"} \cup Writing]
    /\ wg \in Int
    /\ metrics \in [Counters -> Nat]
    /\ gauge \in Heights \cup {0}
    /\ crashes \in 0..MaxCrashes

Zero == [c \in Counters |-> 0]

Init ==
    /\ head = 1
    /\ chain = {}
    /\ mempool = {}
    /\ included = [p \in Puts |-> 0]
    /\ bucket = [k \in Keys |-> NoData]
    /\ pc = [r \in Requests |-> "idle"]
    /\ comm = [r \in Requests |-> NoComm]
    /\ data = [r \in Requests |-> NoData]
    /\ reply = [r \in Requests |-> 0]
    /\ conf \in Configs
    /\ writer = [r \in Requests |-> "none"]
    /\ wg = 0
    /\ metrics = Zero
    /\ gauge = 0
    /\ crashes = 0

-----------------------------------------------------------------------------
(* Helpers of the handlers                                                 *)

Goto(r, from, to) == /\ pc[r] = from
                     /\ pc' = [pc EXCEPT ![r] = to]

(* The response is written last; a client that has gone does not read it.  *)
Respond(r, from, status) ==
    /\ Goto(r, from, "done")
    /\ \E s \in {status, 0}: reply' = [reply EXCEPT ![r] = s]

(* With metrics disabled d.metrics is nil and nothing is counted.          *)
Count(cs) ==
    metrics' = [c \in Counters |->
                   metrics[c] + (IF conf.metrics /\ c \in cs THEN 1 ELSE 0)]

(* WriteEnabled of fallback/mode.go: only read_fallback disables writes.   *)
WriteEnabled_Always(mode) == mode \in Modes
WriteEnabled(mode) == mode # "read_fallback"

(* wg.Add(1) in the handler, then the putFallback goroutine is started.    *)
Register_NoAdd(r) == /\ writer' = [writer EXCEPT ![r] = "writing"]
                     /\ wg' = wg
Register(r) == /\ writer' = [writer EXCEPT ![r] = "writing"]
               /\ wg' = wg + 1

RegisterIfEnabled(r) ==
    IF conf.available /\ WriteEnabled(conf.mode)
    THEN Register(r)
    ELSE UNCHANGED <<writer, wg>>

-----------------------------------------------------------------------------
(* HandlePut and CelestiaStore.Put                                         *)

(* Wrong method, wrong route, unreadable, empty or oversized body.         *)
RejectPut(p) ==
    /\ \E s \in {405, 400, 413}: Respond(p, "idle", s)
    /\ UNCHANGED <<celestia, bucket, comm, data, process>>

ReceivePut(p) ==
    /\ Goto(p, "idle", "submit")
    /\ \E b \in Blobs: data' = [data EXCEPT ![p] = b]
    /\ UNCHANGED <<celestia, bucket, comm, reply, process>>

(* Submit broadcasts the transaction and waits until it is included.       *)
BroadcastPut(p) ==
    /\ pc[p] = "submit"
    /\ included[p] = 0 /\ p \notin mempool
    /\ mempool' = mempool \cup {p}
    /\ UNCHANGED <<head, chain, included, bucket, requests, process>>

(* A full blob ID needs the share range, which is fetched from the node.   *)
SubmitReturns_NotIncluded(p) ==
    /\ Goto(p, "submit", IF conf.compact THEN "putOk" ELSE "refetch")
    /\ comm' = [comm EXCEPT ![p] = Certificate(included[p], data[p])]
    /\ UNCHANGED <<celestia, bucket, data, reply, process>>
SubmitReturns_AtHead(p) ==
    /\ included[p] # 0
    /\ Goto(p, "submit", IF conf.compact THEN "putOk" ELSE "refetch")
    /\ comm' = [comm EXCEPT ![p] = Certificate(head, data[p])]
    /\ UNCHANGED <<celestia, bucket, data, reply, process>>
SubmitReturns(p) ==
    /\ included[p] # 0
    /\ Goto(p, "submit", IF conf.compact THEN "putOk" ELSE "refetch")
    /\ comm' = [comm EXCEPT ![p] = Certificate(included[p], data[p])]
    /\ UNCHANGED <<celestia, bucket, data, reply, process>>

(* An error, the submit timeout or a cancelled request.  A transaction that *)
(* is already in the mempool is not withdrawn: it may still be included.   *)
SubmitFails_NoTimeout(p) ==
    /\ p \notin mempool /\ included[p] = 0
    /\ Goto(p, "submit", "putFailed")
    /\ UNCHANGED <<celestia, bucket, comm, data, reply, process>>
SubmitFails(p) ==
    /\ Goto(p, "submit", "putFailed")
    /\ UNCHANGED <<celestia, bucket, comm, data, reply, process>>

RefetchReturns(p) ==
    /\ Goto(p, "refetch", "putOk")
    /\ UNCHANGED <<celestia, bucket, comm, data, reply, process>>

(* The blob is included, yet the PUT fails.                                *)
RefetchFails(p) ==
    /\ Goto(p, "refetch", "putFailed")
    /\ comm' = [comm EXCEPT ![p] = NoComm]
    /\ UNCHANGED <<celestia, bucket, data, reply, process>>

(* submitBlob uses the fetched blob without the nil check that Get has:    *)
(* the handler panics and recoveryMiddleware answers, counting nothing.    *)
RefetchPanics(p) ==
    /\ Goto(p, "refetch", "panicked")
    /\ comm' = [comm EXCEPT ![p] = NoComm]
    /\ \E s \in {500, 0}: reply' = [reply EXCEPT ![p] = s]
    /\ UNCHANGED <<celestia, bucket, data, process>>

AnswerPutError(p) ==
    /\ Respond(p, "putFailed", 500)
    /\ Count({"submissionErrors", "httpPut"})
    /\ UNCHANGED <<celestia, bucket, comm, data, conf, writer, wg, gauge,
                   crashes>>

RecordPut_GaugeAtHead(p) ==
    /\ Goto(p, "putOk", "putStore")
    /\ Count({"submissions", "httpPut"})
    /\ gauge' = IF conf.metrics THEN head ELSE gauge
    /\ UNCHANGED <<celestia, bucket, comm, data, reply, conf, writer, wg,
                   crashes>>
RecordPut(p) ==
    /\ Goto(p, "putOk", "putStore")
    /\ Count({"submissions", "httpPut"})
    /\ gauge' = IF conf.metrics THEN comm[p].height ELSE gauge
    /\ UNCHANGED <<celestia, bucket, comm, data, reply, conf, writer, wg,
                   crashes>>

StorePut(p) ==
    /\ Goto(p, "putStore", "putAnswer")
    /\ RegisterIfEnabled(p)
    /\ UNCHANGED <<celestia, bucket, comm, data, reply, conf, metrics, gauge,
                   crashes>>

AnswerPut_BeforeStore(p) ==
    /\ Respond(p, "putStore", 200)
    /\ UNCHANGED <<celestia, bucket, comm, data, process>>
AnswerPut(p) ==
    /\ Respond(p, "putAnswer", 200)
    /\ UNCHANGED <<celestia, bucket, comm, data, process>>

-----------------------------------------------------------------------------
(* HandleGet, getBlob and S3Provider.Get                                   *)

(* Wrong method, wrong route or no hexadecimal.                            *)
RejectGet(g) ==
    /\ \E s \in {405, 400}: Respond(g, "idle", s)
    /\ UNCHANGED <<celestia, bucket, comm, data, process>>

ReceiveGet(g) ==
    /\ Goto(g, "idle", "retrieve")
    /\ \E c \in Commitments: comm' = [comm EXCEPT ![g] = c]
    /\ UNCHANGED <<celestia, bucket, data, reply, process>>

(* The node answers with the blob at that height with that commitment.     *)
RetrieveFinds_AnyAtHeight(g) ==
    /\ Goto(g, "retrieve", "getStore")
    /\ Parses(comm[g])
    /\ \E e \in chain: /\ e.height = comm[g].height
                       /\ data' = [data EXCEPT ![g] = e.data]
    /\ UNCHANGED <<celestia, bucket, comm, reply, process>>
RetrieveFinds(g) ==
    /\ Goto(g, "retrieve", "getStore")
    /\ Parses(comm[g])
    /\ \E e \in chain:
          /\ Certificate(e.height, e.data) = comm[g]
          /\ data' = [data EXCEPT ![g] = e.data]
    /\ UNCHANGED <<celestia, bucket, comm, reply, process>>

(* isBlobNotFoundError takes any error text with "not found" for it, so a  *)
(* node that lacks the block says so of a blob that is on chain.           *)
RetrieveMisses(g) ==
    /\ Goto(g, "retrieve", "notFound")
    /\ Parses(comm[g])
    /\ UNCHANGED <<celestia, bucket, comm, data, reply, process>>

(* Any other error, the get timeout, or a commitment that does not parse.  *)
RetrieveFails(g) ==
    /\ Goto(g, "retrieve", IF conf.available THEN "canonical" ELSE "failed")
    /\ UNCHANGED <<celestia, bucket, comm, data, reply, process>>

(* getObject of a key: the object, or none.                                *)
ReadObject(g, from, key, absent) ==
    \/ /\ Goto(g, from, "verify")
       /\ bucket[key] # NoData
       /\ data' = [data EXCEPT ![g] = bucket[key]]
    \/ /\ Goto(g, from, absent)
       /\ bucket[key] = NoData
       /\ UNCHANGED data

ReadCanonical(g) ==
    /\ ReadObject(g, "canonical", CanonicalKey(comm[g]),
                  IF conf.readLegacy THEN "legacy" ELSE "failed")
    /\ UNCHANGED <<celestia, bucket, comm, reply, process>>

ReadLegacy(g) ==
    /\ ReadObject(g, "legacy", LegacyKey(comm[g]), "failed")
    /\ UNCHANGED <<celestia, bucket, comm, reply, process>>

(* An S3 error, the fallback timeout or a cancelled request: the Celestia  *)
(* error is what the client is told, and the legacy key is not tried.      *)
ReadFails(g) ==
    /\ Goto(g, "canonical", "failed") \/ Goto(g, "legacy", "failed")
    /\ UNCHANGED <<celestia, bucket, comm, data, reply, process>>

Verify_WritesBack(g) ==
    /\ \/ /\ Goto(g, "verify", "getStore")
          /\ Verifies(comm[g], data[g])
          /\ UNCHANGED data
       \/ /\ Goto(g, "verify", "failed")
          /\ ~Verifies(comm[g], data[g])
          /\ data' = [data EXCEPT ![g] = NoData]
    /\ UNCHANGED <<celestia, bucket, comm, reply, process>>
Verify(g) ==
    /\ \/ /\ Goto(g, "verify", "getOk")
          /\ Verifies(comm[g], data[g])
          /\ UNCHANGED data
       \/ /\ Goto(g, "verify", "failed")
          /\ ~Verifies(comm[g], data[g])
          /\ data' = [data EXCEPT ![g] = NoData]
    /\ UNCHANGED <<celestia, bucket, comm, reply, process>>

(* Read-through: what Celestia returned is also written to the fallback.   *)
StoreGet(g) ==
    /\ Goto(g, "getStore", "getOk")
    /\ RegisterIfEnabled(g)
    /\ UNCHANGED <<celestia, bucket, comm, data, reply, conf, metrics, gauge,
                   crashes>>

RecordGet(g) ==
    /\ Goto(g, "getOk", "getAnswer")
    /\ Count({"retrievals", "httpGet"})
    /\ UNCHANGED <<celestia, bucket, comm, data, reply, conf, writer, wg,
                   gauge, crashes>>

AnswerGet(g) ==
    /\ Respond(g, "getAnswer", 200)
    /\ UNCHANGED <<celestia, bucket, comm, data, process>>

(* handleGetError: 404 for the not-found error, 500 for any other.         *)
AnswerGetError(g) ==
    /\ Respond(g, "notFound", 404) \/ Respond(g, "failed", 500)
    /\ Count({"retrievalErrors", "httpGet"})
    /\ UNCHANGED <<celestia, bucket, comm, data, conf, writer, wg, gauge,
                   crashes>>

-----------------------------------------------------------------------------
(* putFallback and S3Provider.Put                                          *)

PutObject_LegacyKey(r) == [bucket EXCEPT ![LegacyKey(comm[r])] = data[r]]
PutObject(r) == [bucket EXCEPT ![CanonicalKey(comm[r])] = data[r]]

WriterStores(r) ==
    /\ writer[r] = "writing"
    /\ writer' = [writer EXCEPT ![r] = "stored"]
    /\ bucket' = PutObject(r)
    /\ UNCHANGED <<celestia, requests, conf, wg, metrics, gauge, crashes>>

(* An S3 error or the timeout, which may come after the object is stored.  *)
WriterFails(r) ==
    /\ writer[r] = "writing"
    /\ writer' = [writer EXCEPT ![r] = "error"]
    /\ bucket' \in {bucket, PutObject(r)}
    /\ UNCHANGED <<celestia, requests, conf, wg, metrics, gauge, crashes>>

(* The metric is counted, then the deferred wg.Done runs.                  *)
WriterEnds_ErrorUncounted(r) ==
    /\ \/ writer[r] = "stored" /\ Count({"fallbackWrites"})
       \/ writer[r] = "error" /\ Count({"fallbackWriteErrors"})
    /\ writer' = [writer EXCEPT ![r] = "ended"]
    /\ wg' = wg - 1
    /\ UNCHANGED <<celestia, bucket, requests, conf, gauge, crashes>>
WriterEnds_ErrorNotDone(r) ==
    /\ \/ writer[r] = "stored" /\ Count({"fallbackWrites"}) /\ wg' = wg - 1
       \/ /\ writer[r] = "error" /\ wg' = wg
          /\ Count({"fallbackWrites", "fallbackWriteErrors"})
    /\ writer' = [writer EXCEPT ![r] = "ended"]
    /\ UNCHANGED <<celestia, bucket, requests, conf, gauge, crashes>>
WriterEnds(r) ==
    /\ \/ writer[r] = "stored" /\ Count({"fallbackWrites"})
       \/ writer[r] = "error" /\ Count({"fallbackWrites",
                                        "fallbackWriteErrors"})
    /\ writer' = [writer EXCEPT ![r] = "ended"]
    /\ wg' = wg - 1
    /\ UNCHANGED <<celestia, bucket, requests, conf, gauge, crashes>>

-----------------------------------------------------------------------------
(* The world outside the server                                            *)

IncludePut(p) ==
    /\ p \in mempool
    /\ mempool' = mempool \ {p}
    /\ included' = [included EXCEPT ![p] = head]
    /\ chain' = chain \cup {[height |-> head, data |-> data[p]]}
    /\ UNCHANGED <<head, bucket, requests, process>>

NextBlock ==
    /\ head < MaxHeight
    /\ head' = head + 1
    /\ UNCHANGED <<chain, mempool, included, bucket, requests, process>>

(* Another program writes or deletes one of its objects.                   *)
ForeignWrite(k) ==
    /\ \E b \in Blobs \cup {NoData}: bucket' = [bucket EXCEPT ![k] = b]
    /\ UNCHANGED <<celestia, requests, process>>

(* The process dies and is started again.  Nothing of it is persisted.     *)
Crash ==
    /\ crashes < MaxCrashes
    /\ crashes' = crashes + 1
    /\ pc' = [r \in Requests |->
                 IF pc[r] \in Running THEN "killed" ELSE pc[r]]
    /\ writer' = [r \in Requests |->
                     IF writer[r] \in Writing THEN "killed" ELSE writer[r]]
    /\ wg' = 0
    /\ metrics' = Zero
    /\ gauge' = 0
    /\ conf' \in Configs
    /\ UNCHANGED <<celestia, bucket, comm, data, reply>>

-----------------------------------------------------------------------------

PutStep(p) ==
    \/ SubmitReturns(p) \/ SubmitFails(p)
    \/ RefetchReturns(p) \/ RefetchFails(p) \/ RefetchPanics(p)
    \/ RecordPut(p) \/ StorePut(p) \/ AnswerPut(p) \/ AnswerPutError(p)

GetStep(g) ==
    \/ RetrieveFinds(g) \/ RetrieveMisses(g) \/ RetrieveFails(g)
    \/ ReadCanonical(g) \/ ReadLegacy(g) \/ ReadFails(g) \/ Verify(g)
    \/ StoreGet(g) \/ RecordGet(g) \/ AnswerGet(g) \/ AnswerGetError(g)

WriterStep(r) == WriterStores(r) \/ WriterFails(r) \/ WriterEnds(r)

Next ==
    \/ \E p \in Puts: \/ RejectPut(p) \/ ReceivePut(p) \/ PutStep(p)
                      \/ BroadcastPut(p) \/ IncludePut(p)
    \/ \E g \in Gets: RejectGet(g) \/ ReceiveGet(g) \/ GetStep(g)
    \/ \E r \in Requests: WriterStep(r)
    \/ \E k \in ForeignKeys: ForeignWrite(k)
    \/ NextBlock
    \/ Crash

Spec == Init /\ [][Next]_vars

(* The fallback timeout bounds each write, and the runtime schedules the   *)
(* writer.  The handlers' fairness is stated with the process, in Server.  *)
FairWriters == \A r \in Requests: WF_vars(WriterStep(r))

-----------------------------------------------------------------------------
(* Properties                                                              *)

Registered == {r \in Requests: writer[r] # "none"}
Writers == {r \in Requests: writer[r] \in Writing}
Submitted == {p \in Puts: comm[p] # NoComm /\ pc[p] \notin {"refetch", "putOk"}}
Failed == {p \in Puts: pc[p] = "done" /\ data[p] # NoData /\ comm[p] = NoComm}

(* The payload is on Celestia under this commitment.                       *)
Published(c, b) == /\ [height |-> c.height, data |-> b] \in chain
                   /\ c = Certificate(c.height, b)

(* A GET answered 200 carries a payload with the share commitment that was *)
(* asked for, whether getBlob took it from Celestia or from an S3 object   *)
(* that another program may have overwritten.                              *)
GetIntegrity ==
    \A g \in Gets:
        reply[g] = 200 => /\ Parses(comm[g])
                          /\ ShareCommitment[data[g]] = comm[g].hash

(* A commitment HandlePut has answered, or is about to, is the certificate *)
(* of that PUT's own payload, on chain at that height: op-batcher may post *)
(* it to L1, even if the server crashes before it answers.                 *)
AckedPutPublished ==
    \A p \in Puts:
        reply[p] = 200 \/ pc[p] \in {"putStore", "putAnswer"} =>
            Published(comm[p], data[p])

(* Whoever fills the fallback, a PUT, a read-through GET or their writers  *)
(* that outlive them: every object under a key no other program writes is  *)
(* the payload Celestia published under the commitment the key is made of, *)
(* and the legacy keys, which the server only reads, stay empty.           *)
BucketOnlyPublished ==
    \A k \in Keys \ ForeignKeys:
        bucket[k] # NoData =>
            k.kind = "canonical" /\ Published(k.id, bucket[k])

(* Two writers of one key never disagree: putFallback overwrites an object *)
(* of the server's only with the bytes it already holds, across requests   *)
(* and restarts.                                                           *)
ObjectsImmutable ==
    [][\A k \in Keys \ ForeignKeys:
          bucket[k] # NoData => bucket'[k] = bucket[k]]_vars

(* The WaitGroup that Stop waits on counts exactly the putFallback         *)
(* goroutines that have not returned, whatever their handlers have done.   *)
WaitGroupExact == wg = Cardinality(Writers)

(* HandlePut answers 200 only after its fallback write is registered, so a *)
(* Stop that begins after the answer waits for the write.                  *)
RegisterBeforeAck ==
    [][\A p \in Puts:
          /\ reply[p] = 0 /\ reply'[p] = 200
          /\ conf.available /\ conf.mode \in {"write_through", "both"}
          => writer[p] # "none"]_vars

(* In read_fallback mode, or without a provider, no goroutine writes, also *)
(* when a process in another mode ran before.                              *)
ReadOnlyNeverWrites ==
    conf.mode = "read_fallback" \/ ~conf.available => Writers = {}

(* The counters of a process that has not restarted: each PUT that got an  *)
(* answer from the store is counted once, as a submission or as an error,  *)
(* unless it panicked; each registered write is in the WaitGroup or in     *)
(* celestia_fallback_writes_total; the gauge is the height of a submission.*)
MetricsAccount ==
    crashes = 0 /\ conf.metrics =>
        /\ metrics["submissions"] = Cardinality(Submitted)
        /\ metrics["submissionErrors"] = Cardinality(Failed)
        /\ metrics["fallbackWrites"] + wg = Cardinality(Registered)
        /\ gauge \in {0} \cup {comm[p].height: p \in Submitted}

(* Every request is answered or dies with the process, although Celestia   *)
(* may never include a blob and no fallback write need ever return.        *)
EveryRequestEnds ==
    \A r \in Requests: pc[r] \in Running ~> pc[r] \in Ended

(* If the fallback writers are scheduled too, they drain: Stop's wait for  *)
(* the WaitGroup can succeed.                                              *)
WritersDrain == FairWriters => (wg > 0 ~> wg = 0)

(* What the client of a request has received.                              *)
ClientSees(r) ==
    CASE reply[r] = 0 -> [status |-> 0]
      [] reply[r] = 200 /\ r \in Puts -> [status |-> 200, comm |-> comm[r]]
      [] reply[r] = 200 /\ r \in Gets ->
             [status |-> 200, comm |-> comm[r], data |-> data[r]]
      [] OTHER -> [status |-> reply[r]]

(* The handlers implement the alt-DA service: published blobs stay, each   *)
(* request is answered at most once, and with what the service promises.   *)
Service == INSTANCE DAService WITH
               ledger <- chain,
               answer <- [r \in Requests |-> ClientSees(r)]

ImplementsService == Service!Spec

-----------------------------------------------------------------------------
(* The inductive invariant behind the properties of the payloads: what the *)
(* handlers and the writers hold at each of their steps.                   *)

(* What Celestia knows of a PUT and what its handler holds agree.          *)
PutTracked(p) ==
    /\ pc[p] \in {"idle"} \cup PutPcs \cup Ended
    /\ pc[p] \in {"idle"} \cup PutPcs => reply[p] = 0
    /\ pc[p] \in PutPcs \/ p \in mempool => data[p] \in Blobs
    /\ pc[p] = "idle" => included[p] = 0 /\ p \notin mempool
    /\ pc[p] \in {"idle", "submit", "putFailed"} => comm[p] = NoComm
    /\ pc[p] \in {"refetch", "putOk", "putStore", "putAnswer"}
       \/ reply[p] = 200 => comm[p] # NoComm
    /\ included[p] # 0 => /\ data[p] \in Blobs
                          /\ [height |-> included[p], data |-> data[p]] \in chain
    /\ comm[p] # NoComm => data[p] \in Blobs /\ Published(comm[p], data[p])

(* What getBlob has found, and where it found it.                          *)
GetTracked(g) ==
    /\ pc[g] \in {"idle"} \cup GetPcs \cup Ended
    /\ pc[g] \in {"idle"} \cup GetPcs => reply[g] = 0
    /\ pc[g] \in GetPcs => comm[g] \in Commitments
    /\ pc[g] = "verify" => data[g] \in Blobs
    /\ pc[g] = "getStore" => data[g] \in Blobs /\ Published(comm[g], data[g])
    /\ pc[g] \in {"getOk", "getAnswer"} \/ reply[g] = 200 =>
           /\ comm[g] \in Commitments
           /\ data[g] \in Blobs
           /\ Verifies(comm[g], data[g])

(* A fallback writer holds a published payload, and the handler that gave  *)
(* it to the writer will not change it.                                    *)
WriterTracked(r) ==
    writer[r] \in Writing =>
        /\ pc[r] \in {"putAnswer", "getOk", "getAnswer"} \cup Ended
        /\ comm[r] \in Commitments
        /\ data[r] \in Blobs
        /\ Published(comm[r], data[r])

IInv == /\ TypeOK
        /\ \A p \in Puts: PutTracked(p)
        /\ \A g \in Gets: GetTracked(g)
        /\ \A r \in Requests: WriterTracked(r)
        /\ BucketOnlyPublished

-----------------------------------------------------------------------------
(* The inductive invariant behind the WaitGroup and the metrics.           *)

(* A handler registers at most one writer, at one place in its course.     *)
WriterOnce(r) ==
    /\ writer[r] # "none" =>
           pc[r] \in {"putAnswer", "getOk", "getAnswer"} \cup Ended
    /\ pc[r] = "putAnswer" /\ conf.available /\ WriteEnabled(conf.mode) =>
           writer[r] # "none"

(* Finitely many requests have arrived, however many may arrive.           *)
Arrived == {r \in Requests: pc[r] # "idle"}

CountInv == /\ \A r \in Requests: WriterOnce(r)
            /\ \A p \in Puts: pc[p] = "idle" => data[p] = NoData
            /\ IsFiniteSet(Arrived)
            /\ WaitGroupExact
            /\ ReadOnlyNeverWrites
            /\ MetricsAccount
=============================================================================
