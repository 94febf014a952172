------------------------------- MODULE Limits -------------------------------
(***************************************************************************)
(* The limits an operator writes, what StartDAServer makes of them, and    *)
(* one request under them: how large a body may be, and how the timeouts   *)
(* of net/http, of the handlers, of the fallback and of Stop follow one    *)
(* another on one clock, in seconds.  Whatever waits ends when its         *)
(* deadline is due: the clock does not pass it.                            *)
(***************************************************************************)
EXTENDS Integers

CONSTANTS
    Settings,  \* what the operator may write, in the file and the flag
    Bodies,    \* the sizes of the bodies sent
    Word,      \* 2^63 in the code: an int64 is in -Word .. Word - 1
    Kilo,      \* 1024 in the code
    MaxTime    \* bound: the clock stops here

ASSUME WordAssumption == Word \in Nat \ {0}
ASSUME KiloAssumption == Kilo \in Nat \ {0}
ASSUME BodiesAssumption == Bodies \subseteq Nat
ASSUME TimeAssumption == MaxTime \in Nat
\* the default of two megabytes does not overflow
ASSUME DefaultFits == 2 * Kilo * Kilo < Word

Durations == [form: {"unset", "unreadable", "duration"}, secs: Int]
Sizes == [form: {"unset", "unreadable", "number"}, num: Int,
          unit: {"", "B", "KB", "MB", "GB"}]

AllSettings == [read: Durations, write: Durations, submit: Durations,
                get: Durations, s3: Durations, s3Flag: Durations,
                size: Sizes, available: BOOLEAN, metrics: BOOLEAN]

ASSUME SettingsAssumption == Settings \subseteq AllSettings

Never == MaxTime + 1
Earlier(a, b) == IF a <= b THEN a ELSE b

-----------------------------------------------------------------------------
(* From settings to limits                                                 *)

Readable(text) == text.form # "unreadable"
Or(text, default) == IF text.form = "unset" THEN default ELSE text.secs
NonZero(d, default) == IF d = 0 THEN default ELSE d

GetHTTPReadTimeout(s) == Or(s.read, 30)
GetHTTPWriteTimeout(s) == Or(s.write, 120)
GetSubmissionTimeout(s) == Or(s.submit, 60)
GetReadTimeout(s) == Or(s.get, 30)

(* StartDAServer ignores the error, with which Go returns zero; the flag,  *)
(* if it is set, replaces the file's timeout.                              *)
GetS3Timeout(s) ==
    IF s.s3Flag.form = "duration" THEN s.s3Flag.secs
    ELSE IF Readable(s.s3) THEN Or(s.s3, 30) ELSE 0

Multiplier(unit) == CASE unit = "GB" -> Kilo * Kilo * Kilo
                      [] unit = "MB" -> Kilo * Kilo
                      [] unit = "KB" -> Kilo
                      [] unit \in {"", "B"} -> 1

(* strconv.ParseInt refuses what does not fit; the product wraps.          *)
Wrap(n) == ((n + Word) % (2 * Word)) - Word
SizeReadable(size) == /\ size.form # "unreadable"
                      /\ size.num \in -Word .. Word - 1
parseByteSize_Unbounded(size) == size.num * Multiplier(size.unit)
parseByteSize(size) == Wrap(size.num * Multiplier(size.unit))
GetMaxBlobSize(s) ==
    IF s.size.form = "unset" THEN 2 * Kilo * Kilo ELSE parseByteSize(s.size)

Validate(s) == /\ \A text \in {s.read, s.write, s.submit, s.get}: Readable(text)
               /\ SizeReadable(s.size)

NewS3Timeout_AsGiven(d) == d
NewS3Timeout(d) == NonZero(d, 30)

Effective(s) ==
    [read |-> GetHTTPReadTimeout(s),
     write |-> GetHTTPWriteTimeout(s),
     submit |-> NonZero(GetSubmissionTimeout(s), 60),
     get |-> NonZero(GetReadTimeout(s), 30),
     s3 |-> NewS3Timeout(GetS3Timeout(s)),
     maxBlobSize |-> GetMaxBlobSize(s)]

NoLimits == [read |-> 0, write |-> 0, submit |-> 0, get |-> 0, s3 |-> 0,
             maxBlobSize |-> 0]

-----------------------------------------------------------------------------

VARIABLES
    settings,   \* what the operator wrote
    limits,     \* what the server runs with
    now,        \* the clock
    main,       \* StartDAServer and Stop
    shutdownDue, \* when the context of both Shutdowns expires
    waitDue,    \* when Stop's wait for the WaitGroup expires
    stopErrs,   \* the errors Stop joins
    pc,         \* the connection and its handler
    body,       \* the size of the body of a PUT, -1 of a GET
    began,      \* when the request's headers had arrived
    due,        \* when what the handler waits for expires, or when Shutdown
                \* has found at the latest that the connection is idle
    writeDue,   \* when the connection takes no more answer
    reply,      \* the status, and whether the connection still took it
    writer,     \* the putFallback goroutine
    writerDue   \* when its call expires

process == <<settings, limits>>
stop == <<main, shutdownDue, waitDue, stopErrs>>
handler == <<pc, body, began, due, writeDue, reply>>
fallback == <<writer, writerDue>>
vars == <<process, now, stop, handler, fallback>>

Waiting == {"body", "submit", "retrieve", "fallback"}
NoReply == [status |-> 0, late |-> FALSE]
Alive == main \in {"running", "shutdownHTTP", "shutdownMetrics", "wait"}

(* How long Shutdown sleeps at most before it looks again for connections  *)
(* that have become idle: half a second, rounded up.                       *)
Poll == 1

TypeOK ==
    /\ settings \in AllSettings
    /\ limits \in [read: Int, write: Int, submit: Int, get: Int, s3: Int,
                   maxBlobSize: -Word .. Word - 1]
    /\ now \in 0..MaxTime
    /\ main \in {"init", "refused", "running", "shutdownHTTP",
                 "shutdownMetrics", "wait", "exited"}
    /\ stopErrs \subseteq {"http", "metrics", "pending"}
    /\ pc \in {"idle", "accepted", "closed", "done", "killed"} \cup Waiting
    /\ body \in Bodies \cup {-1}
    /\ {shutdownDue, waitDue, began, due, writeDue, writerDue} \subseteq Int
    /\ reply \in [status: {0, 200, 400, 404, 413, 500}, late: BOOLEAN]
    /\ writer \in {"none", "writing", "ended", "killed"}

Init ==
    /\ settings \in Settings
    /\ limits = NoLimits
    /\ now = 0
    /\ main = "init" /\ shutdownDue = 0 /\ waitDue = 0 /\ stopErrs = {}
    /\ pc = "idle" /\ body = -1 /\ began = 0 /\ due = 0 /\ writeDue = 0
    /\ reply = NoReply
    /\ writer = "none" /\ writerDue = 0

Start ==
    /\ main = "init"
    /\ \/ /\ Validate(settings)
          /\ main' = "running"
          /\ limits' = Effective(settings)
       \/ /\ ~Validate(settings)
          /\ main' = "refused"
          /\ UNCHANGED limits
    /\ UNCHANGED <<settings, now, shutdownDue, waitDue, stopErrs>>
    /\ UNCHANGED <<handler, fallback>>

-----------------------------------------------------------------------------
(* The request                                                             *)

(* net/http sets no deadline for a timeout that is not positive.           *)
ConnectionDue(timeout) == IF timeout > 0 THEN now + timeout ELSE Never

Step(from) == /\ Alive /\ pc = from
              /\ UNCHANGED <<process, now, stop, body, began, writeDue>>

Await(to, timeout) == /\ pc' = to
                      /\ due' = now + timeout
                      /\ UNCHANGED reply

Answer(status) == /\ pc' = "done"
                  /\ reply' = [status |-> status, late |-> now >= writeDue]
                  /\ due' = now + Poll

(* putFallback's context is not the request's.                             *)
StoreFallback ==
    IF settings.available
    THEN writer' = "writing" /\ writerDue' = now + limits.s3
    ELSE UNCHANGED fallback

(* A connection is accepted while the listener is open.  Its request may   *)
(* arrive at any time after that, also while Shutdown waits, and after     *)
(* Shutdown has given up on the connection.  Time that passes before the   *)
(* interrupt without a request changes nothing.                            *)
Accept ==
    /\ main = "running" /\ pc = "idle"
    /\ pc' = "accepted"
    /\ UNCHANGED <<process, now, stop, fallback>>
    /\ UNCHANGED <<body, began, due, writeDue, reply>>

Receive(to, expires) ==
    /\ Alive /\ pc = "accepted"
    /\ pc' = to
    /\ began' = now
    /\ due' = expires
    /\ writeDue' = ConnectionDue(limits.write)
    /\ UNCHANGED <<process, now, stop, reply, fallback>>

ReceivePut ==
    /\ Receive("body", ConnectionDue(limits.read))
    /\ body' \in Bodies

(* http.MaxBytesReader takes a negative limit for zero.                    *)
Oversized_OrEqual == body >= limits.maxBlobSize
Oversized == body > limits.maxBlobSize /\ body > 0

ReadBody_RequestContext ==
    /\ Step("body") /\ now <= due
    /\ \/ Oversized /\ Answer(413)
       \/ ~Oversized /\ body = 0 /\ Answer(400)
       \/ ~Oversized /\ body > 0 /\ Await("submit", Never)
    /\ UNCHANGED fallback
ReadBody ==
    /\ Step("body") /\ now <= due
    /\ \/ Oversized /\ Answer(413)
       \/ ~Oversized /\ body = 0 /\ Answer(400)
       \/ ~Oversized /\ body > 0 /\ Await("submit", limits.submit)
    /\ UNCHANGED fallback

(* The read deadline, or a client that breaks off.                         *)
ReadFails == Step("body") /\ Answer(400) /\ UNCHANGED fallback

(* A context that has expired, as one of a negative timeout has from the   *)
(* beginning, lets no call succeed.                                        *)
SubmitReturns == Step("submit") /\ now <= due /\ StoreFallback /\ Answer(200)
SubmitFails == Step("submit") /\ Answer(500) /\ UNCHANGED fallback

(* The handler's timeout, within it the store's own minute.                *)
ReceiveGet ==
    /\ Receive("retrieve", now + Earlier(limits.get, 60))
    /\ UNCHANGED body

RetrieveFinds == Step("retrieve") /\ now <= due /\ StoreFallback /\ Answer(200)
RetrieveMisses == /\ Step("retrieve") /\ now <= due
                  /\ Answer(404) /\ UNCHANGED fallback
RetrieveFails ==
    /\ Step("retrieve")
    /\ IF settings.available
       THEN Await("fallback", limits.s3)
       ELSE Answer(500)
    /\ UNCHANGED fallback

FallbackReturns == /\ Step("fallback") /\ now <= due
                   /\ Answer(200) /\ UNCHANGED fallback
FallbackFails == Step("fallback") /\ Answer(500) /\ UNCHANGED fallback

(* S3Provider.Put returns, with or without an error.                       *)
WriterEnds ==
    /\ Alive /\ writer = "writing"
    /\ writer' = "ended"
    /\ UNCHANGED <<process, now, stop, handler, writerDue>>

-----------------------------------------------------------------------------
(* Stop                                                                    *)

Interrupt ==
    /\ main = "running"
    /\ main' = "shutdownHTTP"
    /\ shutdownDue' = now + 5
    /\ UNCHANGED <<process, now, waitDue, stopErrs, handler, fallback>>

BeginWait_SharedDeadline == main' = "wait" /\ waitDue' = shutdownDue
BeginWait == main' = "wait" /\ waitDue' = now + 10

(* httpServer.Shutdown returns when it finds no connection but idle ones,  *)
(* which it closes: also one without a request that is older than five     *)
(* seconds.  It sleeps between two looks, so the context may expire first  *)
(* although the handler has just ended.                                    *)
ShutdownEnds ==
    /\ main = "shutdownHTTP"
    /\ \/ /\ pc \notin Waiting
          /\ pc' = IF pc = "accepted" THEN "closed" ELSE pc
          /\ UNCHANGED stopErrs
       \/ /\ now >= shutdownDue
          /\ stopErrs' = stopErrs \cup {"http"}
          /\ UNCHANGED pc
    /\ IF settings.metrics
       THEN main' = "shutdownMetrics" /\ UNCHANGED waitDue
       ELSE BeginWait
    /\ UNCHANGED <<process, now, shutdownDue, fallback>>
    /\ UNCHANGED <<body, began, due, writeDue, reply>>

(* metricsServer.Shutdown has what is left of the same context; a scrape   *)
(* may outlast it.                                                         *)
MetricsShutdownEnds ==
    /\ main = "shutdownMetrics"
    /\ \/ UNCHANGED stopErrs
       \/ now >= shutdownDue /\ stopErrs' = stopErrs \cup {"metrics"}
    /\ BeginWait
    /\ UNCHANGED <<process, now, shutdownDue, handler, fallback>>

(* wg.Wait or the timer; StartDAServer returns and the process ends.       *)
WaitEnds ==
    /\ main = "wait"
    /\ \/ writer # "writing" /\ UNCHANGED stopErrs
       \/ now >= waitDue /\ stopErrs' = stopErrs \cup {"pending"}
    /\ main' = "exited"
    /\ pc' = IF pc \in Waiting THEN "killed" ELSE pc
    /\ writer' = IF writer = "writing" THEN "killed" ELSE writer
    /\ UNCHANGED <<process, now, shutdownDue, waitDue, writerDue>>
    /\ UNCHANGED <<body, began, due, writeDue, reply>>

-----------------------------------------------------------------------------

(* Time passes while somebody waits and nobody's wait is over.             *)
Tick ==
    /\ Alive /\ now < MaxTime
    /\ \/ pc \in Waiting \/ writer = "writing"
       \/ main \in {"shutdownHTTP", "shutdownMetrics"}
    /\ pc \in Waiting => now < due
    /\ writer = "writing" => now < writerDue
    /\ main = "shutdownHTTP" =>
           now < shutdownDue /\ (pc = "accepted" \/ now < due)
    /\ main = "shutdownMetrics" => now < shutdownDue
    /\ main = "wait" => now < waitDue /\ writer = "writing"
    /\ now' = now + 1
    /\ UNCHANGED <<process, stop, handler, fallback>>

Next ==
    \/ Start \/ Accept
    \/ ReceivePut \/ ReadBody \/ ReadFails \/ SubmitReturns \/ SubmitFails
    \/ ReceiveGet \/ RetrieveFinds \/ RetrieveMisses \/ RetrieveFails
    \/ FallbackReturns \/ FallbackFails
    \/ WriterEnds
    \/ Interrupt \/ ShutdownEnds \/ MetricsShutdownEnds \/ WaitEnds
    \/ Tick

Spec == Init /\ [][Next]_vars

-----------------------------------------------------------------------------
(* Properties                                                              *)

Positive(d) == IF d > 0 THEN d ELSE 0
Longest == IF body >= 0
           THEN Positive(limits.read) + Positive(limits.submit)
           ELSE Positive(Earlier(limits.get, 60))
                + (IF settings.available THEN Positive(limits.s3) ELSE 0)

(* The size the operator wrote, before any overflow.                       *)
Written == CASE settings.size.form = "unset" -> 2 * Kilo * Kilo
             [] OTHER -> settings.size.num * Multiplier(settings.size.unit)

(* Whatever the size's number and unit, down to -2^63: no body larger than *)
(* what the operator wrote is submitted, though the product may overflow;  *)
(* and unless it overflows, none that large or smaller is refused as too   *)
(* large.  Below -2^63 the product may wrap to a large maximum, which      *)
(* Validate accepts (config.go:418): there nothing is promised.            *)
SizeAsWritten ==
    /\ Written >= -Word /\ body >= 0 /\ (pc = "submit" \/ reply.status = 200)
           => body <= Written
    /\ reply.status = 413 /\ Written \in -Word .. Word - 1 => body > Written

(* A handler that works to the end of its timeouts can still answer: the   *)
(* write deadline, which runs from the request's headers, is due later, if *)
(* write_timeout exceeds what the body and the submission, or the read and *)
(* the fallback, may take together.  So the batcher learns of what was     *)
(* published.                                                              *)
ReadEnds == body >= 0 => limits.read > 0
AnswersInTime == limits.write > Longest /\ ReadEnds => ~reply.late

(* Every call begins with its whole timeout: S3 is read with the fallback's *)
(* although the read timeout has just expired, and written with it although *)
(* the handler returns.  A timeout that is left out or zero is the         *)
(* default's, not one that has expired at once.  The store gives Celestia  *)
(* a minute at most, whatever read.timeout says (celestia_storage.go:283); *)
(* an S3 timeout that does not parse is replaced without a word, and all   *)
(* that is promised of it is that some time is left.                       *)
Wanted(text, default) ==
    IF text.form = "duration" THEN NonZero(text.secs, default) ELSE default
S3Text == IF settings.s3Flag.form = "duration" THEN settings.s3Flag
          ELSE settings.s3
EnoughS3(time) ==
    IF Readable(S3Text) THEN time >= Wanted(S3Text, 30) ELSE time > 0
CallsHaveTime ==
    [][/\ pc # "retrieve" /\ pc' = "retrieve" =>
              due' - now >= Earlier(Wanted(settings.get, 30), 60)
       /\ pc # "fallback" /\ pc' = "fallback" => EnoughS3(due' - now)
       /\ writer = "none" /\ writer' = "writing" => EnoughS3(writerDue' - now)
       /\ pc # "submit" /\ pc' = "submit" =>
              due' - now >= Wanted(settings.submit, 60)]_vars

(* Stop's five and ten seconds are enough for whoever is quicker: a        *)
(* request that began early enough to end, and to be seen to have ended,   *)
(* before Shutdown's context expires, also one that an accepted connection *)
(* began during Shutdown, is answered, and its fallback write is waited    *)
(* for.  Then only the metrics server may have failed to stop.             *)
Begun == pc \notin {"idle", "accepted", "closed"}
IsQuick == /\ Begun /\ ReadEnds
           /\ began + Longest + Poll < shutdownDue
           /\ limits.s3 < 10
StopSparesTheQuick ==
    main = "exited" /\ IsQuick
        => pc = "done" /\ writer # "killed" /\ stopErrs \subseteq {"metrics"}

-----------------------------------------------------------------------------
(* The inductive invariant                                                 *)

Started == main \notin {"init", "refused"}

(* Nobody acts before the limits are those of the settings, and nothing is *)
(* cut short before the exit.                                              *)
ProcessInv ==
    /\ ~Started => pc = "idle" /\ writer = "none" /\ stopErrs = {}
    /\ Started => Validate(settings) /\ limits = Effective(settings)
    /\ main # "exited" => pc # "killed" /\ writer # "killed"

(* Which request the handler is at, and what the limit did to its body.    *)
RequestInv ==
    /\ ~Begun => body = -1
    /\ pc # "done" => reply = NoReply
    /\ pc \in {"body", "submit"} => body >= 0
    /\ pc \in {"retrieve", "fallback"} => body = -1
    /\ pc = "fallback" => settings.available
    /\ pc = "submit" \/ reply.status = 200 =>
           body = -1 \/ body <= limits.maxBlobSize
    /\ reply.status = 413 => body > limits.maxBlobSize

(* How long after its headers the handler can be where it waits: the       *)
(* second wait may start as late as the first one expires.                 *)
Spent == CASE pc = "body" -> Positive(limits.read)
           [] pc = "retrieve" -> Positive(Earlier(limits.get, 60))
           [] OTHER -> Longest
ClockInv ==
    /\ Begun /\ limits.write > 0 => writeDue = began + limits.write
    /\ ReadEnds /\ pc \in Waiting => now <= began + Spent /\ due <= began + Spent
    /\ ReadEnds /\ pc = "done" => due <= began + Longest + Poll
    /\ AnswersInTime
    /\ writer = "writing" => writerDue <= now + limits.s3

(* Shutdown has found the quick at rest before its context expired; the    *)
(* writer's time is counted from its end.                                  *)
AfterShutdown == main \in {"shutdownMetrics", "wait"}
StopInv ==
    /\ main \in {"init", "running", "shutdownHTTP"} => stopErrs = {}
    /\ main = "shutdownHTTP" /\ pc = "done" =>
           now <= shutdownDue - 5 \/ now <= due
    /\ AfterShutdown /\ pc = "accepted" => now >= shutdownDue
    /\ AfterShutdown /\ IsQuick => pc = "done" /\ stopErrs \subseteq {"metrics"}
    /\ main = "wait" /\ IsQuick =>
           /\ now <= waitDue - 10 + Positive(limits.s3)
           /\ writer = "writing" => writerDue <= waitDue - 10 + limits.s3
    /\ StopSparesTheQuick

IInv == TypeOK /\ ProcessInv /\ RequestInv /\ ClockInv /\ StopInv
=============================================================================
