----------------------------- MODULE Lifecycle -----------------------------
(***************************************************************************)
(* Start and Stop of the server process: StartDAServer, Start and Stop,    *)
(* against the handler goroutines that are running and the fallback        *)
(* writers they register in the WaitGroup.  What a handler computes is     *)
(* DAServer's subject; here it may register one writer and then answers.   *)
(* The 10 ms, 5 s and 10 s timers may fire whenever the code waits on them.*)
(***************************************************************************)
EXTENDS Integers, FiniteSets

CONSTANT Handlers  \* the requests that may arrive

VARIABLES
    main,        \* where StartDAServer is
    serve,       \* the goroutine in httpServer.Serve
    errCh,       \* the errors of Serve in Start's channel
    metricsSrv,  \* the metrics server
    handler,     \* the handler goroutine of each request
    writer,      \* the putFallback goroutine of each request
    wg,          \* the counter of the WaitGroup
    waiter,      \* Stop's goroutine in wg.Wait
    errs         \* the errors StartDAServer returns or Stop joins

vars == <<main, serve, errCh, metricsSrv, handler, writer, wg, waiter, errs>>

Alive == main \notin {"exited", "panicked"}
Active == {h \in Handlers: handler[h] \in {"active", "registered"}}
Writers == {h \in Handlers: writer[h] = "running"}

TypeOK ==
    /\ main \in {"init", "select", "running", "shutdownHTTP",
                 "shutdownMetrics", "wait", "completed", "timedOut",
                 "startFailed", "exited", "panicked"}
    /\ serve \in {"off", "accepting", "failed", "closed"}
    /\ errCh \in {0, 1}
    /\ metricsSrv \in {"disabled", "off", "accepting", "failed", "closed"}
    /\ handler \in [Handlers -> {"none", "active", "registered", "answered",
                                 "killed"}]
    /\ writer \in [Handlers -> {"none", "running", "ended", "killed"}]
    /\ wg \in Nat
    /\ waiter \in {"none", "started", "blocked", "woken", "done"}
    /\ errs \subseteq {"start", "http", "metrics", "pending"}

Init ==
    /\ main = "init"
    /\ serve = "off"
    /\ errCh = 0
    /\ metricsSrv \in {"disabled", "off"}
    /\ handler = [h \in Handlers |-> "none"]
    /\ writer = [h \in Handlers |-> "none"]
    /\ wg = 0
    /\ waiter = "none"
    /\ errs = {}

Goto(from, to) == main = from /\ main' = to

(* The process ends: its goroutines and its memory end with it.            *)
Die(from, to) ==
    /\ Goto(from, to)
    /\ handler' = [h \in Handlers |->
                      IF h \in Active THEN "killed" ELSE handler[h]]
    /\ writer' = [h \in Handlers |->
                     IF h \in Writers THEN "killed" ELSE writer[h]]
    /\ wg' = 0

-----------------------------------------------------------------------------
(* Start                                                                   *)

ListenFails ==
    /\ Goto("init", "startFailed")
    /\ errs' = errs \cup {"start"}
    /\ UNCHANGED <<serve, errCh, metricsSrv, handler, writer, wg, waiter>>

Listen ==
    /\ Goto("init", "select")
    /\ serve' = "accepting"
    /\ metricsSrv' = IF metricsSrv = "off" THEN "accepting" ELSE metricsSrv
    /\ UNCHANGED <<errCh, handler, writer, wg, waiter, errs>>

(* The error waits in errCh's buffer; after the select nobody reads it.    *)
ServeFails ==
    /\ Alive /\ serve = "accepting"
    /\ serve' = "failed"
    /\ errCh' = 1
    /\ UNCHANGED <<main, metricsSrv, handler, writer, wg, waiter, errs>>

(* The failure of the metrics server is only logged.                       *)
MetricsFails ==
    /\ Alive /\ metricsSrv = "accepting"
    /\ metricsSrv' = "failed"
    /\ UNCHANGED <<main, serve, errCh, handler, writer, wg, waiter, errs>>

(* Serve failed within 10 ms, or the context is cancelled: StartDAServer   *)
(* returns before Stop is deferred.                                        *)
SelectFails ==
    /\ Goto("select", "startFailed")
    /\ errs' = errs \cup {"start"}
    /\ errCh' \in {errCh, 0}
    /\ UNCHANGED <<serve, metricsSrv, handler, writer, wg, waiter>>

SelectTimer ==
    /\ Goto("select", "running")
    /\ UNCHANGED <<serve, errCh, metricsSrv, handler, writer, wg, waiter, errs>>

-----------------------------------------------------------------------------
(* Stop                                                                    *)

(* The interrupt; Shutdown first closes the listener.                      *)
Interrupt_StillAccepting ==
    /\ Goto("running", "shutdownHTTP")
    /\ UNCHANGED <<serve, errCh, metricsSrv, handler, writer, wg, waiter, errs>>
Interrupt ==
    /\ Goto("running", "shutdownHTTP")
    /\ serve' = IF serve = "accepting" THEN "closed" ELSE serve
    /\ UNCHANGED <<errCh, metricsSrv, handler, writer, wg, waiter, errs>>

(* Shutdown returns when it finds no connection active, or after five      *)
(* seconds; it looks twice a second, so the last to end may go unnoticed.  *)
ShutdownIdle_Unchecked ==
    /\ Goto("shutdownHTTP", "shutdownMetrics")
    /\ UNCHANGED <<serve, errCh, metricsSrv, handler, writer, wg, waiter, errs>>
ShutdownIdle ==
    /\ Goto("shutdownHTTP", "shutdownMetrics")
    /\ Active = {}
    /\ UNCHANGED <<serve, errCh, metricsSrv, handler, writer, wg, waiter, errs>>

ShutdownExpires_ErrorDropped ==
    /\ Goto("shutdownHTTP", "shutdownMetrics")
    /\ UNCHANGED <<serve, errCh, metricsSrv, handler, writer, wg, waiter, errs>>
ShutdownExpires ==
    /\ Goto("shutdownHTTP", "shutdownMetrics")
    /\ errs' = errs \cup {"http"}
    /\ UNCHANGED <<serve, errCh, metricsSrv, handler, writer, wg, waiter>>

(* A scrape that outlasts the same five seconds is an error.  Then Stop    *)
(* starts the goroutine that waits for the WaitGroup.                      *)
ShutdownMetrics ==
    /\ Goto("shutdownMetrics", "wait")
    /\ waiter' = "started"
    /\ IF metricsSrv = "disabled"
       THEN UNCHANGED <<metricsSrv, errs>>
       ELSE /\ metricsSrv' = "closed"
            /\ errs' \in {errs, errs \cup {"metrics"}}
    /\ UNCHANGED <<serve, errCh, handler, writer, wg>>

WaiterEnters ==
    /\ Alive /\ waiter = "started"
    /\ waiter' = IF wg = 0 THEN "done" ELSE "blocked"
    /\ UNCHANGED <<main, serve, errCh, metricsSrv, handler, writer, wg, errs>>

WaiterReturns ==
    /\ Alive /\ waiter = "woken" /\ wg = 0
    /\ waiter' = "done"
    /\ UNCHANGED <<main, serve, errCh, metricsSrv, handler, writer, wg, errs>>

(* sync.WaitGroup panics when it is reused before Wait has returned, and   *)
(* nothing recovers in this goroutine.                                     *)
WaiterPanics ==
    /\ Alive /\ waiter = "woken" /\ wg # 0
    /\ \E m \in {"wait", "completed", "timedOut"}: Die(m, "panicked")
    /\ UNCHANGED <<serve, errCh, metricsSrv, waiter, errs>>

WaitDone ==
    /\ Goto("wait", "completed")
    /\ waiter = "done"
    /\ UNCHANGED <<serve, errCh, metricsSrv, handler, writer, wg, waiter, errs>>

WaitExpires_Missing == main # main
WaitExpires ==
    /\ Goto("wait", "timedOut")
    /\ errs' = errs \cup {"pending"}
    /\ UNCHANGED <<serve, errCh, metricsSrv, handler, writer, wg, waiter>>

(* Stop has returned and its error is logged, or Start has failed.         *)
Exit ==
    /\ \E m \in {"completed", "timedOut", "startFailed"}: Die(m, "exited")
    /\ UNCHANGED <<serve, errCh, metricsSrv, waiter, errs>>

-----------------------------------------------------------------------------
(* The handlers and the fallback writers                                   *)

(* A request on a new connection while the listener is open, or on one     *)
(* accepted before, which Shutdown closes once it finds it idle: it may    *)
(* come until Shutdown returns, and later if Shutdown has given up.        *)
Accept(h) ==
    /\ Alive
    /\ \/ serve = "accepting"
       \/ /\ serve # "off"
          /\ \/ main \in {"select", "running", "shutdownHTTP"}
             \/ "http" \in errs
    /\ handler[h] = "none"
    /\ handler' = [handler EXCEPT ![h] = "active"]
    /\ UNCHANGED <<main, serve, errCh, metricsSrv, writer, wg, waiter, errs>>

Register_NoAdd(h) ==
    /\ Alive /\ handler[h] = "active"
    /\ handler' = [handler EXCEPT ![h] = "registered"]
    /\ writer' = [writer EXCEPT ![h] = "running"]
    /\ UNCHANGED <<main, serve, errCh, metricsSrv, wg, waiter, errs>>
Register(h) ==
    /\ Alive /\ handler[h] = "active"
    /\ handler' = [handler EXCEPT ![h] = "registered"]
    /\ writer' = [writer EXCEPT ![h] = "running"]
    /\ wg' = wg + 1
    /\ UNCHANGED <<main, serve, errCh, metricsSrv, waiter, errs>>

Answer(h) ==
    /\ Alive /\ handler[h] \in {"active", "registered"}
    /\ handler' = [handler EXCEPT ![h] = "answered"]
    /\ UNCHANGED <<main, serve, errCh, metricsSrv, writer, wg, waiter, errs>>

(* wg.Done; at zero it wakes a blocked Wait.                               *)
WriterEnds(h) ==
    /\ Alive /\ writer[h] = "running"
    /\ writer' = [writer EXCEPT ![h] = "ended"]
    /\ wg' = wg - 1
    /\ waiter' = IF wg' = 0 /\ waiter = "blocked" THEN "woken" ELSE waiter
    /\ UNCHANGED <<main, serve, errCh, metricsSrv, handler, errs>>

-----------------------------------------------------------------------------

StartStep == ListenFails \/ Listen \/ SelectFails \/ SelectTimer
StopStep == \/ ShutdownIdle \/ ShutdownExpires \/ ShutdownMetrics
            \/ WaitDone \/ WaitExpires \/ Exit
WaiterStep == WaiterEnters \/ WaiterReturns \/ WaiterPanics

Next ==
    \/ StartStep \/ ServeFails \/ MetricsFails
    \/ Interrupt \/ StopStep \/ WaiterStep
    \/ \E h \in Handlers: \/ Accept(h) \/ Register(h) \/ Answer(h)
                          \/ WriterEnds(h)

Spec == Init /\ [][Next]_vars

(* The main goroutine is scheduled and its timers fire.  Handlers, writers *)
(* and Serve may hang: nothing is assumed of them.                         *)
FairSpec == Spec /\ WF_vars(StopStep)

-----------------------------------------------------------------------------
(* Properties                                                              *)

(* If Stop reports no error, the process exits without cutting short a     *)
(* request or a fallback write, whatever was in flight at the interrupt.   *)
CleanStop ==
    main = "exited" /\ errs = {} =>
        \A h \in Handlers: handler[h] # "killed" /\ writer[h] # "killed"

(* sync.WaitGroup's contract, that no Add starts from zero while Wait may  *)
(* run, is kept unless Shutdown has given up on a handler.                 *)
AddsBeforeWait ==
    [][wg' > wg /\ waiter # "none" => "http" \in errs]_vars

(* Stop's goroutine brings the process down only after Shutdown gave up.   *)
PanicOnlyAfterTimeout == main = "panicked" => "http" \in errs

(* Stop returns, although handlers and fallback writes may hang.           *)
StopTerminates == main = "shutdownHTTP" ~> ~Alive

(* celestia_server.go:521, the log "All pending fallback operations        *)
(* completed": no fallback write is running when Stop writes it.  A        *)
(* handler that outlived Shutdown may have registered one after the        *)
(* WaitGroup was seen at zero.                                             *)
AllCompleted ==
    [][main = "wait" /\ main' = "completed" => Writers = {}]_vars

-----------------------------------------------------------------------------
(* The inductive invariant behind CleanStop: without a Shutdown timeout    *)
(* nothing can start once Stop waits, so what Wait has seen stays true.    *)

Stopping == {"shutdownMetrics", "wait", "completed", "timedOut"}
Unscathed ==
    \A h \in Handlers: handler[h] # "killed" /\ writer[h] # "killed"

Quiet ==
    /\ main \in {"shutdownHTTP"} \cup Stopping => serve # "accepting"
    /\ main \in Stopping /\ "http" \notin errs => Active = {}

WaitSeen ==
    /\ waiter # "none" => main \notin {"init", "select", "running",
                                       "shutdownHTTP", "shutdownMetrics",
                                       "startFailed"}
    /\ Alive /\ waiter \in {"woken", "done"} /\ "http" \notin errs => wg = 0
    /\ main = "completed" => waiter = "done"

Fresh == \A h \in Handlers: handler[h] \in {"none", "active"} =>
                               writer[h] = "none"

Reported ==
    /\ main = "timedOut" => "pending" \in errs
    /\ main = "startFailed" => "start" \in errs
    /\ Alive => Unscathed

(* Finitely many requests have been accepted, however many may arrive.     *)
Accepted == {h \in Handlers: handler[h] # "none"}

IInv == /\ TypeOK
        /\ IsFiniteSet(Accepted)
        /\ Alive => wg = Cardinality(Writers)
        /\ Quiet /\ WaitSeen /\ Fresh /\ Reported
        /\ CleanStop /\ PanicOnlyAfterTimeout
=============================================================================
