# A formal model of op-plasma-celestia

TLA+ modules, TLC configurations and TLAPS proofs for the alt-DA server in
`src/`: an HTTP server that publishes the batches of an OP Stack chain on
Celestia and gives them back, with an optional S3 copy ("fallback").  Its two
clients are op-batcher, which PUTs a batch and posts the commitment it is
answered to L1, and op-node, which GETs the batch of a commitment found on L1.
The server keeps no state of its own across restarts.  Paths are relative to
`src/`.

1. [The system](#1-the-system)
2. [The modules](#2-the-modules)
3. [What the runs check](#3-what-the-runs-check)
4. [Fairness](#4-fairness)
5. [What is proved](#5-what-is-proved)
6. [Where code and documents disagree](#6-where-code-and-documents-disagree)
7. [What is not modelled](#7-what-is-not-modelled)
8. [Plan](#8-plan)

## 1. The system

| Component | Source | State | Operations | Correct if |
|---|---|---|---|---|
| HTTP handlers | `celestia_server.go` | `wg`, one goroutine per request, one per fallback write | `HandlePut`, `HandleGet` with `getBlob`, `getFallback`, `verifyFallbackCommitment`, `handleGetError`; `putFallback`; `recoveryMiddleware` | an acknowledged PUT is on Celestia under the commitment answered; a GET is answered 200 only with the payload of its commitment; every request ends; the fallback holds only what was published |
| Celestia store | `celestia_storage.go` | none (a client of a node) | `Put`/`submitBlob`, `Get`, `CreateCommitment` | the commitment names the height the blob was included at |
| Blob ID codec | `celestia_storage.go` | none | `MarshalBinary`, `UnmarshalBinary`, `parseBlobIDFromCommitment` | a commitment decodes to the blob it was made for, or is refused |
| Fallback mode, provider | `fallback/mode.go`, `fallback/provider.go` | none | `WriteEnabled`, `NormalizeMode`, `ValidateMode`; `NoopProvider` | `read_fallback` never writes |
| S3 provider | `fallback/s3/s3.go` | the bucket | `Put`, `Get` (canonical key, then the legacy key), `makeKey` | an object is what was published under the commitment its key is made of |
| Metrics | `metrics/metrics.go` | counters, the inclusion-height gauge | `Record*`, `SetInclusionHeight` | the counters account for every request and every write |
| Lifecycle | `celestia_server.go`, `cmd/daserver/entrypoint.go` | listener, `errCh`, metrics server, `wg` | `Start`, `Stop`, the interrupt | a Stop without error cut nothing short; Stop returns |
| Configuration | `cmd/daserver/{flags,config,config_builder,entrypoint}.go` | the `Config`, built once | `BuildConfigFromCLI`, `Validate`, `buildSignerConfig`, `ToCelestiaRPCConfig`, `StartDAServer` | what was validated is what the store and the fallback are made with |
| Signers | `signer/*.go` | keyrings of external libraries | `Config.Validate`, `NewKeyring` | a signer that passes `Validate` is one `NewKeyring` accepts |
| Health endpoint, headers, log sanitising, `main.go`, throughput tool | | none | | |

How they interact:

- Each request runs in a goroutine of its own; the handlers share only the
  metrics and the `WaitGroup`.  They meet at Celestia (a PUT's blob is what a
  later GET retrieves) and in the bucket.
- A PUT waits for Celestia, records the metrics, does `wg.Add(1)`, starts
  `putFallback` with a context of its own, and only then answers.  A GET that
  Celestia answers does the same ("read-through").  The writer outlives the
  request and, if it crashes with the process, nothing repeats it.
- A GET that Celestia fails (with anything but "not found") is tried on S3:
  canonical key, then the legacy key if that is configured.  What S3 returns is
  verified against the requested share commitment before it is served.
- `Stop` shuts the listener and waits 5 s for handlers, shuts the metrics
  server, then waits 10 s for the `WaitGroup`; when it returns the process
  exits with whatever still runs.

What is hard, and hardly reachable by tests: the order in which handlers and
their writers reach Celestia, S3, the metrics and the `WaitGroup`; the submit
timeout racing the inclusion of a transaction that is already broadcast; a
failing re-fetch after a successful submission; crashes between the answer and
the write; a bucket that other programs write; handlers that outlive `Shutdown`
and register writes while `Stop` is in `wg.Wait`; commitments whose bytes were
cut, lengthened or stripped on the way; configuration layers that override one
another.  `PROJECT.json` lists each such hazard at its line with the properties
that cover it.

## 2. The modules

| Module | Models | Extends |
|---|---|---|
| `Commitments` | payloads, share commitments, commitments as handlers see them, `verifyFallbackCommitment` | |
| `DAService` | abstract specification: a ledger that grows and answers that are given once | `Commitments` |
| `DAServer` | handlers, store, S3 provider, metrics, crashes | `Commitments` |
| `DAServer_proofs` | theorems about what `DAServer` answers and stores | `DAServer`, `TLAPS` |
| `Counting_proofs` | theorems about its `WaitGroup` and its counters | `DAServer_proofs`, `FiniteSetTheorems` |
| `Service_proofs` | `DAServer` refines `DAService` | `DAServer_proofs` |
| `MCDAServer` | the configurations and instances TLC uses | `DAServer` |
| `DocClaims` | claims of the documents that the handlers do not satisfy | `MCDAServer` |
| `Lifecycle` | `Start`, `Stop`, the `WaitGroup`, exit | |
| `Lifecycle_proofs` | theorems about `Lifecycle` | `Lifecycle`, `FiniteSetTheorems`, `TLAPS` |
| `Server`, `MCServer` | the handlers of `DAServer` inside the process of `Lifecycle` | `DAServer`, `Lifecycle` (instance) |
| `Server_proofs` | theorems about `Server`: it refines both, and loses no acknowledged batch | `Server`, `Counting_proofs`, `Lifecycle_proofs` (instance) |
| `Limits`, `MCLimits` | durations and sizes from the settings to one request, its writer and `Stop`, on a clock | `Integers` |
| `Limits_proofs` | theorems about `Limits` | `Limits`, `TLAPS` |
| `BlobID` | the bytes of a commitment | `Naturals`, `Sequences` |
| `MCBlobID` | the little-endian encoding, for TLC | `BlobID`, `SequencesExt` |
| `BlobID_proofs` | theorems about `BlobID` | `BlobID`, `SequenceTheorems`, `TLAPS` |
| `Config` | from file, flags and environment to the store's keyring and the fallback provider | |
| `MCConfig` | the files and command lines TLC uses | `Config`, `TLC` |
| `Config_proofs` | theorems about `Config` | `Config`, `TLAPS` |

Operators named `Action_Variant` are the code with a plausible bug; no action
uses them.  Each is paired in `PROJECT.json` with the property it breaks, to
show that the property could fail.

### DAServer

`pc[r]` is where the goroutine of request `r` stands, `writer[r]` where the
`putFallback` goroutine it registered stands.

| pc | Code |
|---|---|
| `submit` | `store.Put` is in the node's or the TX client's `Submit` |
| `refetch` | the blob is fetched back for its share range (full blob IDs only) |
| `putOk`, `putStore`, `putAnswer` | metrics, `wg.Add` and `go putFallback`, `w.Write` |
| `putFailed` | the error metrics and the 500 |
| `retrieve` | `store.Get` |
| `canonical`, `legacy`, `verify` | `S3Provider.Get`'s two lookups, `verifyFallbackCommitment` |
| `getStore`, `getOk`, `getAnswer` | read-through, metrics, `w.Write` |
| `notFound`, `failed` | `handleGetError` |
| `done`, `panicked`, `killed` | returned; recovered by the middleware; the process crashed |

A step ends where the code reads or changes something that others see.  The
choices of the environment are the outcomes the code can meet:

- A submission is broadcast (`BroadcastPut`) and later included (`IncludePut`),
  at whatever height Celestia is building, before or after the handler gave
  up.  `SubmitFails` is every error, the submit timeout and a client that hangs
  up; it does not withdraw the transaction.
- `RetrieveMisses` is also possible when the blob is on chain:
  `isBlobNotFoundError` takes any error text with "not found" for it.
  `RetrieveFails` covers errors, the get timeout and a commitment that does
  not parse.
- `WriterFails` may come after the object was stored (a lost answer).
- A client that hung up does not see the status: `Respond` leaves `reply` at 0.
- `ForeignWrite` is another program writing or deleting an object of the keys
  in `ForeignKeys`.
- `Crash` ends every goroutine and resets the `WaitGroup` and the metrics; the
  process comes back in any configuration.  Chain, mempool and bucket stay.

Abstractions.  A payload is a member of `Blobs`, its share commitment an
injective function (`CollisionFree`).  A commitment is its prefix (there or
stripped), height and share commitment; the share range is left out since no
handler uses it, and `BlobID` shows that the bytes determine the fields.
Commitments with trailing or missing bytes are aliases that can only miss the
fallback (`AliasOfSameBlob`).  For the one height in 65,536 whose own bytes
read as the prefix, a stripped commitment parses as another blob's; `BlobID`
has that case, `DAServer` takes every stripped commitment for invalid.
With `metrics` FALSE in the configuration nothing is counted.  `httpPut`, `httpGet` stand for the request histogram's count.

### DAService, the abstract specification

A ledger of published blobs and one answer per request.  A PUT is acknowledged
with the certificate of a ledger entry; a GET is served a payload of the
requested share commitment; either may be refused at any time.  It does not
mention S3, timeouts or crashes.  `ImplementsService` says that `DAServer`
refines it with the ledger mapped to the chain and the answers to the statuses
the clients received.

Note what it does *not* promise: that an acknowledged PUT carries the height at
which *this* PUT's transaction was included is `AckedPutPublished` (below); and
a GET that S3 served need not be on chain at the requested height, because the
handler compares the share commitment only.

### Lifecycle

`main` is `StartDAServer` from `net.Listen` to the end of `Stop`; `waiter` is
the goroutine `Stop` starts for `wg.Wait`, whose wake-up and re-check are the
two steps of `sync.WaitGroup` (between them an `Add` makes it panic).  What a
handler computes is `DAServer`'s subject; here it may register one writer.
Timers may fire whenever the code waits on them; `ShutdownExpires` needs no
active handler, since `net/http` looks for idle connections only now and then.
A request may also arrive on a connection that was kept alive when the listener
no longer accepts, until `Shutdown` returns, and after that if it gave up.

### Server

`DAServer` and `Lifecycle` side by side, one process from its start to its
end.  They share the `WaitGroup`, and the process: a handler begins only on an
accepted connection (`Accept`, `Arrives`), runs only while the process lives
(`Alone`), and is what `Shutdown` waits for; a writer's `Done` at zero wakes
`Stop`'s goroutine; `Returns` and `Panics` are `DAServer`'s `Crash`.
`HandlerSeen` and `WriterSeen` are what `Lifecycle` sees of a handler and a
writer.  `ImplementsLifecycle` says that every step of the composition is a
step of `Lifecycle` or leaves it alone, so that what is proved of `Lifecycle`
against arbitrary handlers holds of these; `CleanStopStored` is the statement
neither module can make alone.  It counts: no more acknowledged batches are
missing from the bucket than the metrics report failed writes, without saying
which.  And it is about a bucket of the server's own: `World` leaves out
`ForeignWrite`, by which another program could delete any object.

### Limits

The other modules let a timeout fire at any time.  Here they run on one clock,
in seconds.  `Effective` is what `StartDAServer` makes of the settings: defaults
for what is not set, a second default for zero, `GetS3Timeout`'s discarded
error, `parseByteSize` with the width of `int64`.  Then one connection, accepted
(`Accept`) before the interrupt, and its request, which may begin later, as long
as the connection has not been closed: the read and the write deadline of
`net/http` run from its headers (none if the timeout is not positive), the
submission and the retrieval have timeouts of their own, the fallback's begins
when it is asked, the writer's does not depend on the handler.  `Stop` may begin
at any time: `httpServer.Shutdown` returns when it finds no connection at work,
looking again after at most half a second (`Poll`, rounded up to one tick), or
gives up after 5 s; `metricsServer.Shutdown` has what is left of these, and may
fail; the 10 s for the writers begin then.  `Tick` lets time pass only while
somebody waits and nobody's deadline is due: a call that may fail at any time
may also last until its deadline, and no longer.

### BlobID

One commitment: encoded (`Init`), then lengthened, cut or stripped a byte at a
time, then parsed.  The widths are constants: the code has bytes of 256 values
and fields of 8, 32, 4 and 4 bytes.  `PutUint` and `Uint` are `encoding/binary`,
a library: constants of which the model knows the contract (a number that fits
is read back from its bytes; the lowest byte is first).  `MCBlobID` gives TLC
the encoding itself, of which it evaluates that contract.

### Config

A configuration is a function from fields to strings, and the layers are
merged with `Over`: flags over the file over the defaults.  `Texts` are the
strings that a file, a flag or the environment may hold.  `stage` follows
`StartDAServer`: `client` is the `RPCClientConfig`, `store` the namespace and
the keyring `NewCelestiaStore` ends up with (`NoTx`: none, the bridge node
signs), `server` the fallback mode and provider with its bucket and
credentials.  The three keyring constructors make checks of their own, and are
modelled up to the call of the external library with what they hand it.  Fields
that are only handed on are left out.  `Namespaces` are the strings that are 29
bytes in hexadecimal (two for TLC, any number in the proofs), `"60s"` stands for
what `time.ParseDuration` accepts;
`submission.timeout` represents the durations, sizes and priorities that
`Validate` parses.

## 3. What the runs check

Passing runs:

| Run | Instance | Shows |
|---|---|---|
| `handlers` | two PUTs, one GET, two payloads, one height, both blob ID forms and fallback reads | `WaitGroupExact`, `MetricsAccount`, `RegisterBeforeAck`, `ObjectsImmutable` in every order of the three handlers and their writers |
| `restart` | one PUT, one GET, two heights, a crash, two configurations with one another's process before or after, another program writing one canonical and one legacy key | `AckedPutPublished`, `GetIntegrity`, `BucketOnlyPublished`, `ReadOnlyNeverWrites`, `MetricsAccount` (here with heights the gauge could confuse), the inductive invariants `IInv` and `CountInv`, and the refinement `ImplementsService` |
| `server` | one PUT, one GET, one process in three configurations (both ways, `write_through` without metrics, no fallback), from `Listen` to its end | `CleanStopStored`, its inductive invariant `StoreInv`, the refinement `ImplementsLifecycle`, and the liveness of the handlers, `EveryRequestEnds` and `WritersDrain`, in a process that may stop |
| `stop` | three requests | `CleanStop`, `AddsBeforeWait`, `PanicOnlyAfterTimeout`, `StopTerminates`, `IInv` |
| `blobid` | bytes of one bit, fields of 2, 2, 1 and 2 bytes, up to five bytes added or dropped | `RoundTrip`, `AliasOfSameBlob`, `BareRefused`, `RangePublishedOrAdded`, `IInv` |
| `limits` | one PUT or GET and `Stop`, 432 combinations of timeouts, 51 sizes, and 14 settings with texts that are missing, zero, unreadable, replaced by a flag or above the store's minute | `SizeAsWritten`, `AnswersInTime`, `StopSparesTheQuick`, `CallsHaveTime`, `IInv` |
| `config` | a file with three ways of configuring the signer or one of S3 and up to two more settings, or the signer on the command line, and one or two flags | `ValidSignerAccepted`, `WritesAreSigned`, `NamespaceKept`, `SignerFlagsWin`, `FallbackAsAsked` |

Refuted claims: `claim_read_fallback`, `claim_completed`, `claim_formats`,
`claim_nested_signer`, `claim_credentials`; see section 6.

The properties are stated with their comments at the end of each module.

Why the bounds suffice:

- *Requests.*  Handlers meet in four places: a key of the bucket, the chain,
  the counters and the `WaitGroup`.  Two PUTs of equal or different payloads
  and a read-through GET of either contain every pair of actors that can meet
  at each of them, and the writers add a second goroutine to each.  In
  `Lifecycle` three requests allow one handler that hangs past `Shutdown`, one
  writer that is running and one that ends.
- *Payloads and share commitments.*  Two: the right one and a wrong one.
- *Heights (`MaxHeight`).*  One where the property does not compare heights,
  two in `restart`, where `IInv` and `AckedPutPublished` compare the height of the
  inclusion with the commitment's, an object's and the gauge's.  The proofs cover every number.
- *Crashes (`MaxCrashes`).*  One: every process starts from the same state but
  for chain, mempool and bucket, which the crash leaves as any run left them.
  The two configurations of `restart` differ in everything a process can leave
  to the next: whether it writes, and the form of its blob IDs.  The proofs
  cover every number.
- *The composition.*  One PUT, one GET and one payload: a reader, two writers
  and the three stages of `Stop` already meet in every order (168,106 states),
  and what several handlers do to one another is in `handlers` and `stop`.
- *Time.*  `AnswersInTime` and `StopSparesTheQuick` compare sums of timeouts
  with a deadline or with `Stop`'s 5 and 10 s; the grid has values on both sides
  of each comparison, equal to it, and zero or negative.  `MaxTime` (140 s) is
  longer than any run of the defaults (30 + 60 s for a PUT, 30 s for its writer)
  and than a retrieval of a minute with its fallback.
- *Sizes.*  `Word` and `Kilo` scale 2^63 and 1024 down to 512 and 4, so that
  products wrap once, several times, to negative numbers, to zero, and from
  below -2^63 to positive ones.
- *Codec.*  Decoding depends on the length and on slices at fixed offsets, and
  is uniform in the byte values except for the two prefix bytes.  One-bit bytes
  make every collision with the prefix frequent; five edits pass both length
  thresholds from both forms.
- *Configuration.*  The rules are about precedence between two or three layers
  of one setting, or pairs of settings; each base file is complete, so two
  changes of it reach each rule from both sides.

`CHECK_DEADLOCK FALSE` appears where the system does stop: all requests
handled, the process exited, the commitment parsed, the server started.

## 4. Fairness

- `ServerSpec` (the `server` run) assumes weak fairness of each handler's next
  step, for as long as the process lives, and nothing else.  Handlers are
  goroutines, which the Go runtime schedules, and every call a handler waits
  for has an end: `store.Put` has the submit timeout, `store.Get` the get
  timeout, `getFallback` the provider's timeout; `Limits` has these timeouts.  The failing outcome is
  always enabled, so the assumption does not make Celestia include anything,
  S3 answer or clients stay.
- `WritersDrain` additionally assumes fairness of the `putFallback` goroutines
  (`FairWriters`, in the property itself): the fallback timeout bounds
  `S3Provider.Put`, and the goroutine is scheduled.  `EveryRequestEnds` does
  not use it: a handler never waits for a writer.
- `Lifecycle`'s `FairSpec` assumes weak fairness of the main goroutine's steps
  in `Stop`; its timers fire.  Handlers, writers, `Serve` and the `wg.Wait`
  goroutine may hang for ever.

## 5. What is proved

`tlapm` checks all of this for every value of the constants that satisfies the
named assumptions: any number of requests, payloads, heights, configurations
and crashes, any width of a field, any file and command line, any timeout.
Nothing limits how many requests arrive; that only finitely many have arrived
at any moment is part of `CountInv` and of `Lifecycle`'s invariant, not assumed.

### The handlers: `DAServer_proofs`, `Counting_proofs`, `Service_proofs`

Assumptions: `RequestsAssumption` (no request is both PUT and GET),
`CommitAssumption`, `CollisionFree` (different payloads have different share
commitments: collision resistance), and the types `HeightAssumption`,
`NoDataAssumption`, `NoCommAssumption`, `ConfigAssumption`,
`CrashesAssumption`, `ForeignAssumption`.

| Theorem | Property |
|---|---|
| `Invariance`, `TypeCorrect` | `IInv`, the inductive invariant; `TypeOK` |
| `Integrity` | `GetIntegrity` |
| `AckedIsPublished` | `AckedPutPublished` |
| `FallbackIsPublished` | `BucketOnlyPublished` |
| `Immutability` | `ObjectsImmutable` |
| `CountInvariance` | `CountInv`, the inductive invariant of the counters |
| `WaitGroupCounts` | `WaitGroupExact` |
| `ReadOnlyServes` | `ReadOnlyNeverWrites` |
| `MetricsAreExact` | `MetricsAccount` |
| `RegistersBeforeAck` | `RegisterBeforeAck` |
| `RefinesService` | `ImplementsService`, that is `Spec => Service!Spec` |

The properties are not inductive: `AckedPutPublished` speaks of the handler's
last steps, and that the commitment is right there depends on what the handler
held since `Submit` returned, which in turn depends on what Celestia did with
the transaction since the broadcast.  `IInv` adds, per actor, what it holds at
each of its steps: `PutTracked` ties the PUT's payload, the height of its
inclusion and its commitment to the chain; `GetTracked` follows a payload from
where `getBlob` found it to the answer, through verification if it came from
S3; `WriterTracked` says that a writer holds a published payload and that its
handler will not change it any more, which is what makes the shared slices of
`comm` and `data` safe.  Each part has a lemma (`TypeStep`, `PutsStep`,
`GetsStep`, `WritersStep`, `BucketStep`) with one step per action;
`ChainGrows` carries "published" from one state to the next.  `Immutability`
follows from `IInv` and `PublishedOnce`: two payloads published under one
commitment are one payload.  `PublishedOnce` is the only place `CollisionFree` is
used.

The counters are cardinalities of sets of requests, over requests that need not
be finite in number.  `CountInv` therefore adds that those that have arrived
are finitely many, and `WriterOnce`: a request's writer begins only at the step
that registers it and never again, so each `Add` and each `Done` moves exactly
one request into or out of the set that the counter counts.  A crash ends the
writers and resets the counters together, which is why a process in
`read_fallback` mode cannot inherit a writer.

`RefinesService` maps each action: an inclusion extends the ledger, an answer
that the client sees is the service's `Acknowledge`, `Serve` or `Refuse`, and
everything else stutters.  What the answer needs, that the payload is published
or verified, is in `IInv`; that it is given once follows from the handler's pc.

### The process: `Lifecycle_proofs`, `Server_proofs`

| Theorem | Property |
|---|---|
| `Invariance`, `TypeCorrect` | `IInv`; `TypeOK`, with a `WaitGroup` that never goes negative |
| `StopIsClean` | `CleanStop` |
| `WaitGroupContract` | `AddsBeforeWait` |
| `PanicAfterTimeout` | `PanicOnlyAfterTimeout` |
| `ServerIsDAServer` | `ServerSpec => Spec`: the theorems about the handlers hold in the process |
| `RefinesLifecycle` | `ImplementsLifecycle`: those about `Lifecycle` hold with these handlers |
| `StoreInvariance` | `StoreInv` |
| `AckedNotLost` | `CleanStopStored` |
| `ServerStopsClean` | `CleanStop` and `PanicOnlyAfterTimeout` in the server |

`CleanStop` needs that what `wg.Wait` saw stays true until the exit, so
`Lifecycle`'s `IInv` adds: while the process lives `wg` is the number of
running writers (`WritersAfterAdd`, `WritersAfterEnd`); once `Shutdown`
returned without error no handler is active and none can arrive (`Quiet`),
hence a `Wait` that returned is final (`WaitSeen`).

`RefinesLifecycle` takes each action of the composition to one of `Lifecycle`
or to a stutter; it uses `CountInv` (the `WaitGroup` the two modules share
counts the same writers) and `IInv` of the handlers.  `AckedNotLost` combines
everything: `StoreInv` says that, while the process lives, each write that is
over is in the bucket with a payload that no later write replaces
(`PublishedOnce` again) or is counted as failed, and that each acknowledged PUT
registered one; `CountInv` says what is still running is in the `WaitGroup`;
`Lifecycle`'s invariant says that a `Stop` without error saw it at zero.

### The limits: `Limits_proofs`

Assumptions: `Settings` are settings, the clock's bound is a number, `Kilo` and
`Word` are positive, and `DefaultFits`: the default maximum of 2 MB does not
itself overflow the width of an `int64`.

| Theorem | Property |
|---|---|
| `Invariance`, `TypeCorrect` | `IInv`; `TypeOK`, where the maximum fits the width |
| `MaximumIsAsWritten` | `SizeAsWritten` |
| `TimeToAnswer` | `AnswersInTime` |
| `StopWaitsForTheQuick` | `StopSparesTheQuick` |
| `CallsStartFresh` | `CallsHaveTime` |

`AnswersInTime` compares a deadline set at the headers with the sum of two
waits, so `IInv` counts from the headers: wherever the handler waits, neither
the clock nor its deadline is later than what it may have spent so far
(`Spent`), since its second wait begins at the latest when the first expires.
`StopSparesTheQuick` speaks of requests that end a tick before `Shutdown`'s
context does; `StopInv` says that `Shutdown` has looked by then, whether they
began before the interrupt or after it, and counts the writer from the end of
the metrics server's `Shutdown`.  A product that is not below -2^63 is never
larger than what was written (`WrapShrinks`).  Below that it may wrap to a large
positive maximum, and `SizeAsWritten` says nothing (section 6).

### The codec: `BlobID_proofs`

Assumptions: positive widths, a height of at least two bytes (as many as the
prefix it may imitate), two different prefix bytes, and the contract of
`encoding/binary` (`BinaryAssumption`, `LittleEndian`), which TLC evaluates on
the instance's encoding.

| Theorem | Property |
|---|---|
| `Invariance`, `TypeCorrect` | `IInv`, `TypeOK` |
| `EncodedIsDecoded` | `RoundTrip` |
| `AliasesNameTheBlob` | `AliasOfSameBlob` |
| `BareIsRefused` | `BareRefused` |
| `RangesAreTraced` | `RangePublishedOrAdded` |

`KeyInv` is the invariant of the journey: what is left of the published bytes
is in its place, shifted by what was stripped, and the length tells whether
something was dropped or added.  `PublishedIs` says where the encoder puts each
field and `DecodedIs` where the decoder reads it; an accepted key is long
enough for both to speak of the same bytes.

### The configuration: `Config_proofs`

Assumptions: files and command lines set known fields to strings, the strings
that the code names are strings, a well-formed namespace is a string that is not
empty, and the markers `Refused`, `NoTx` and
`NoServer` are none of the things they stand in for.

| Theorem | Property |
|---|---|
| `Invariance`, `TypeCorrect` | the inductive invariant; `TypeOK` |
| `SignersAccepted` | `ValidSignerAccepted` |
| `StoreSigns` | `WritesAreSigned` |
| `NamespaceIsKept` | `NamespaceKept` |
| `CommandLineSigns` | `SignerFlagsWin` |
| `FallbackIsAsAsked` | `FallbackAsAsked` |

The invariant, at the head of `Config_proofs`, says of each stage what it made
of the inputs: the `Config` is, field by field, what flag, file or default ask
for (`Merged`, from `AskedIs`); it has passed `Validate` from `valid` on; the
client is made of it or of the flags, and store and server of that.  The
properties compare two ends of this chain.  `NamespaceIsKept` needs all of it
when the client is made of the flags: an empty namespace is refused, so the flag
was set, and then the `Config` that was validated has it too.  `SignerFlagsWin`
states the two exceptions to the command line's precedence exactly: a file's
`keyring_backend = "awskms"` makes the mode `aws_kms` even so (unless the client
is made of the flags alone, whose keyring has no region and is then never of
that mode), and in that mode the file's `signer.aws_kms.key_id` goes before the
key name.

### Model-checked only

- Liveness: `EveryRequestEnds`, `WritersDrain`, `StopTerminates`; temporal
  reasoning about fairness is out of the prover's reach.
- That the little-endian encoding satisfies the contract of `encoding/binary`
  at every width: an induction over the bytes.  TLC evaluates it at the widths
  of the instance.
- The refuted claims of section 6, which are counterexamples.

## 6. Where code and documents disagree

Each of these has a run whose counterexample shows it:

| Run | Statement | Code |
|---|---|---|
| `claim_read_fallback` | `README.md:253`: a blob not found in Celestia is read from the fallback | `getBlob` answers 404 at once (`celestia_server.go:292`; a test expects that) |
| `claim_completed` | `celestia_server.go:521` logs "All pending fallback operations completed" | a handler that outlived `Shutdown` may have registered a write after `wg.Wait` returned |
| `claim_formats` | `API.md:94-99`: commitments are accepted without prefix | they are refused (`celestia_storage.go:259`) |
| `claim_nested_signer` | `config.go:272`: "Migrate legacy fields if they are set" | defaults of `keyring_backend` and `default_key_name` replace the file's `signer.local.*` |
| `claim_credentials` | `config.toml.example:202-203`: `"environment"` uses the AWS environment variables and `"iam"` the IAM role; the key pair is for `"static"` (line 208) | a key pair in the configuration is used for these types too (`fallback/s3/s3.go:95`) |

Others, noted while reading and without a run because the model abstracts what
they are about or because they are wording only:

- The gauge "Latest Celestia inclusion height" (`metrics/metrics.go:53`) is set
  by overlapping PUTs in the order they record, so it can go back to an earlier
  height (`celestia_server.go:439`).
- A `read.timeout` above one minute is cut to the store's own minute
  (`celestia_storage.go:283`, against `config.toml.example:141`,
  `CallsHaveTime` allows for it).
- `README.md:250` says that the fallback "always performs both" writing and
  reading, while `config.toml.example:171-174` has a mode for each, of which
  the code heeds the one that does not write.
- A negative `max_blob_size` is accepted, and one whose product is below -2^63
  can become a huge maximum (`config.go:418`).
- An S3 timeout that does not parse becomes thirty seconds without a word
  (`entrypoint.go:135`), while every other duration that does not is refused.
- Half an S3 key pair is ignored without a word unless the type is `static`
  (`fallback/s3/s3.go:95`).
- An explicitly empty `bridge_addr` sets the file's CoreGRPC and signer
  settings aside, since the client is then made of the flags alone
  (`entrypoint.go:92`).
- The default key name stands in for a missing `signer.aws_kms.key_id`, so
  `NewAWSKMSKeyring`'s "key_id is required" cannot be reached from a
  configuration, and its access keys are not handed to the keyring.
- At the default settings a clean stop is not promised, since a submission (60
  s) is longer than `Shutdown`'s 5 s and a write (30 s) longer than the 10 s
  that follow, which `Stop` then reports.
- `fallback.mode = write_through` does not disable reads
  (`config.toml.example:172`, `getBlob`).
- `API.md:33` promises a hex-encoded commitment, the response is the raw bytes
  (`celestia_server.go:455`).
- A commitment that is too short is answered 500, not 400 (`API.md:111`).
- A commitment without `0x` is refused by `hexutil.Decode`.
- Writes to the fallback are asynchronous although `API.md:205` calls all
  operations synchronous.
- `tx_priority` is parsed and not used.

## 7. What is not modelled

- The keyrings, celestia-node, the AWS SDK, Prometheus: external, modelled by
  how the code uses them.
- The ports, TLS, the expansion of `~`, TOML syntax, and fields handed on
  unread (`p2p_network`'s value, `base_url`, `endpoint`, `region`, `prefix`).
- `tx_priority` and the HTTP idle timeout: the first is checked and not used,
  the second ends only connections without a request.
- Several requests on one clock: requests do not wait for one another, and the
  untimed modules have their interleavings.
- `HandleHealth`, security headers, log sanitising, `main.go` and the
  throughput tool: no state.
- The histograms of sizes and durations: they only measure.

## 8. Plan

Done, most important first: the core (`Commitments`, `DAService`, `DAServer`),
`Lifecycle`, `BlobID`, `Config`, the composition `Server`, and `Limits`; every
safety property and every refinement that a passing run checks is proved.  What
is left:

1. That the decoded fields determine the key of the bucket's object, which
   would let `Commitments` be a refinement of `BlobID`'s bytes.
2. `AddsBeforeWait` in the terms of `Server`, with `RefinesLifecycle`.
3. Shorter proofs where a lemma is used once.
