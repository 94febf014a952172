------------------------------- MODULE Server -------------------------------
(***************************************************************************)
(* The whole server: the handlers and fallback writers of DAServer in the  *)
(* process that Lifecycle starts and stops.  They share the WaitGroup, and *)
(* the life of the process: a handler runs on a connection that was        *)
(* accepted, and Shutdown waits for it; StartDAServer's return is          *)
(* DAServer's crash.  One process is modelled, from its start to its end,  *)
(* and it has the bucket for itself: DAServer's other programs             *)
(* (ForeignWrite) are left out.                                            *)
(***************************************************************************)
EXTENDS DAServer

VARIABLES
    main, serve, errCh, metricsSrv, waiter, errs,  \* as in Lifecycle
    accepted  \* the requests whose connection is active or was

control == <<main, serve, errCh, metricsSrv, waiter, errs>>
serverVars == <<vars, control, accepted>>

(* What Start and Stop see of the handlers and of the writers.             *)
HandlerSeen(r) ==
    CASE pc[r] = "idle" /\ r \notin accepted -> "none"
      [] pc[r] = "idle" /\ r \in accepted ->
             IF main \in {"exited", "panicked"} THEN "killed" ELSE "active"
      [] pc[r] \in Running ->
             IF writer[r] = "none" THEN "active" ELSE "registered"
      [] pc[r] \in {"done", "panicked"} -> "answered"
      [] pc[r] = "killed" -> "killed"
WriterSeen(r) == IF writer[r] \in Writing THEN "running" ELSE writer[r]

L == INSTANCE Lifecycle WITH
         Handlers <- Requests,
         handler <- [r \in Requests |-> HandlerSeen(r)],
         writer <- [r \in Requests |-> WriterSeen(r)]

(* The metrics server is made only if metrics are enabled.                 *)
ServerInit ==
    /\ Init
    /\ accepted = {}
    /\ main = "init" /\ serve = "off" /\ errCh = 0
    /\ metricsSrv = IF conf.metrics THEN "off" ELSE "disabled"
    /\ waiter = "none" /\ errs = {}

-----------------------------------------------------------------------------
(* Steps of StartDAServer, Serve and Stop, which leave the handlers alone  *)

Starting ==
    /\ UNCHANGED <<vars, accepted>>
    /\ \/ L!ListenFails \/ L!Listen \/ L!SelectFails \/ L!SelectTimer
       \/ L!ServeFails \/ L!MetricsFails

Interrupted == UNCHANGED <<vars, accepted>> /\ L!Interrupt

Stopping ==
    /\ UNCHANGED <<vars, accepted>>
    /\ \/ L!ShutdownIdle \/ L!ShutdownExpires \/ L!ShutdownMetrics
       \/ L!WaitDone \/ L!WaitExpires

Waiting ==
    /\ UNCHANGED <<vars, accepted>>
    /\ L!WaiterEnters \/ L!WaiterReturns

(* The end of the process ends every goroutine.                            *)
Ends == /\ Crash
        /\ UNCHANGED <<conf, accepted>>
Returns == Ends /\ L!Exit
Panics == Ends /\ L!WaiterPanics

-----------------------------------------------------------------------------
(* Steps of the handlers and the writers, which leave the rest alone       *)

Accept(r) ==
    /\ UNCHANGED <<vars, control>>
    /\ r \notin accepted
    /\ accepted' = accepted \cup {r}
    /\ L!Accept(r)

(* While the process lives.                                                *)
Alone == L!Alive /\ UNCHANGED <<control, accepted>>

Arrives(r) == /\ r \in accepted
              /\ Alone
              /\ \/ r \in Puts /\ (RejectPut(r) \/ ReceivePut(r))
                 \/ r \in Gets /\ (RejectGet(r) \/ ReceiveGet(r))
Handles(r) == /\ Alone
              /\ \/ r \in Puts /\ PutStep(r)
                 \/ r \in Gets /\ GetStep(r)
Broadcasts(p) == Alone /\ BroadcastPut(p)
Writes(r) == Alone /\ (WriterStores(r) \/ WriterFails(r))

(* At zero wg.Done wakes Stop's goroutine.                                 *)
Done(r) ==
    /\ L!Alive /\ WriterEnds(r)
    /\ waiter' = IF wg' = 0 /\ waiter = "blocked" THEN "woken" ELSE waiter
    /\ UNCHANGED <<main, serve, errCh, metricsSrv, errs, accepted>>

(* Celestia goes on whether or not the server lives.                       *)
World == /\ UNCHANGED <<control, accepted>>
         /\ NextBlock \/ \E p \in Puts: IncludePut(p)

-----------------------------------------------------------------------------

ServerNext ==
    \/ Starting \/ Interrupted \/ Stopping \/ Waiting \/ Returns \/ Panics
    \/ \E r \in Requests: \/ Accept(r) \/ Arrives(r) \/ Handles(r)
                          \/ Writes(r) \/ Done(r)
    \/ \E p \in Puts: Broadcasts(p)
    \/ World

(* Handlers are goroutines the runtime schedules while the process lives,  *)
(* and every call they wait for ends: the submit, get and fallback         *)
(* timeouts bound it.  Celestia need not include anything, clients need    *)
(* not send, writers need not return, and the process need not stop.       *)
ServerSpec ==
    /\ ServerInit /\ [][ServerNext]_serverVars
    /\ \A r \in Requests: WF_serverVars(Handles(r))

-----------------------------------------------------------------------------
(* Properties                                                              *)

(* The object under the request's key is its payload.                      *)
InFallback(r) == bucket[CanonicalKey(comm[r])] = data[r]

(* No acknowledged batch is lost to an interrupt: when Stop returns and    *)
(* has not given up on a handler or on the WaitGroup, each PUT that was    *)
(* answered 200 has its payload in the fallback, or its failed write is    *)
(* in celestia_fallback_write_errors_total.  The counter says how many,    *)
(* not which; and another program that overwrites an object is left out.   *)
CleanStopStored ==
    main = "completed" /\ "http" \notin errs /\ conf.metrics =>
        LET missing == {p \in Puts: /\ reply[p] = 200
                                    /\ conf.available
                                    /\ conf.mode \in {"write_through", "both"}
                                    /\ ~InFallback(p)}
        IN  Cardinality(missing) <= metrics["fallbackWriteErrors"]

(* The handlers and the writers are what Start and Stop take them for: a   *)
(* request registers at most one write, before it is answered, and each    *)
(* write leaves the WaitGroup once.  So the theorems about Lifecycle hold  *)
(* of the server.                                                          *)
ImplementsLifecycle == L!Spec

-----------------------------------------------------------------------------
(* The inductive invariant behind CleanStopStored: while the process       *)
(* lives, each write that is over is in the bucket or counted as failed,   *)
(* and no later write of another payload takes its place.                  *)

FinalWrite(r) ==
    /\ writer[r] # "killed"
    /\ writer[r] \in {"stored", "ended"} => /\ comm[r] \in Commitments
                                           /\ data[r] \in Blobs
                                           /\ Published(comm[r], data[r])
    /\ writer[r] = "stored" => InFallback(r)

AckedRegistered(p) ==
    reply[p] = 200 /\ conf.available /\ WriteEnabled(conf.mode) =>
        writer[p] # "none"

Lost == {r \in Requests: writer[r] = "ended" /\ ~InFallback(r)}

Kept == /\ crashes = 0
        /\ \A r \in Requests: FinalWrite(r)
        /\ \A p \in Puts: AckedRegistered(p)
        /\ conf.metrics => Cardinality(Lost) <= metrics["fallbackWriteErrors"]

StoreInv == L!Alive => Kept
=============================================================================
