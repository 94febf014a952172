-------------------------- MODULE Lifecycle_proofs --------------------------
(***************************************************************************)
(* For every number of requests: a Stop that reports no error has cut      *)
(* nothing short.                                                          *)
(***************************************************************************)
EXTENDS Lifecycle, FiniteSetTheorems, TLAPS

(* The running writers are finitely many: each has an accepted request.    *)
LEMMA WritersFinite ==
    ASSUME TypeOK, Fresh, IsFiniteSet(Accepted)
    PROVE  IsFiniteSet(Writers)
<1>1. Writers \subseteq Accepted
  BY DEF Fresh, Writers, Accepted, TypeOK
<1> QED
  BY <1>1, FS_Subset

(* The set of running writers when one is registered and when one ends.    *)
LEMMA WritersAfterAdd ==
    ASSUME TypeOK, IsFiniteSet(Writers), NEW h \in Handlers,
           writer[h] # "running",
           writer' = [writer EXCEPT ![h] = "running"]
    PROVE  Cardinality(Writers') = Cardinality(Writers) + 1
<1>1. Writers' = Writers \cup {h}
  BY DEF Writers, TypeOK
<1>2. h \notin Writers
  BY DEF Writers
<1> QED
  BY <1>1, <1>2, FS_AddElement

(* The same when a writer ends.                                            *)
LEMMA WritersAfterEnd ==
    ASSUME TypeOK, IsFiniteSet(Writers), NEW h \in Handlers,
           writer[h] = "running",
           writer' = [writer EXCEPT ![h] = "ended"]
    PROVE  /\ Cardinality(Writers') = Cardinality(Writers) - 1
           /\ Cardinality(Writers) \in Nat \ {0}
<1>1. Writers' = Writers \ {h}
  BY DEF Writers, TypeOK
<1>2. h \in Writers
  BY DEF Writers
<1>3. Cardinality(Writers) \in Nat /\ Cardinality(Writers) # 0
  BY <1>2, FS_CardinalityType, FS_EmptySet
<1> QED
  BY <1>1, <1>2, <1>3, FS_RemoveElement

(* The initial states satisfy the inductive invariant.                     *)
LEMMA InitInv == Init => IInv
<1> SUFFICES ASSUME Init PROVE IInv
  OBVIOUS
<1>1. TypeOK
  BY DEF Init, TypeOK
<1>2. wg = Cardinality(Writers)
  <2>1. Writers = {}
    BY DEF Init, Writers
  <2> QED
    BY <2>1, FS_EmptySet DEF Init
<1>3. Quiet /\ WaitSeen /\ Fresh /\ Reported
  BY DEF Init, Quiet, WaitSeen, Fresh, Reported, Unscathed, Stopping
<1>4. CleanStop /\ PanicOnlyAfterTimeout
  BY DEF Init, CleanStop, PanicOnlyAfterTimeout
<1>5. IsFiniteSet(Accepted)
  <2>1. Accepted = {}
    BY DEF Init, Accepted
  <2> QED
    BY <2>1, FS_EmptySet
<1> QED
  BY <1>1, <1>2, <1>3, <1>4, <1>5 DEF IInv

(* Every step keeps the types: wg.Done has a matching wg.Add.              *)
LEMMA TypeStep == IInv /\ [Next]_vars => TypeOK'
<1> SUFFICES ASSUME IInv, [Next]_vars PROVE TypeOK'
  OBVIOUS
<1>0. TypeOK /\ (Alive => wg = Cardinality(Writers)) /\ IsFiniteSet(Writers)
  BY WritersFinite DEF IInv
<1>1. CASE StartStep \/ ServeFails \/ MetricsFails \/ Interrupt
  <2> USE DEF Goto, TypeOK
  <2>1. CASE ListenFails
    BY <1>0, <2>1 DEF ListenFails
  <2>2. CASE Listen
    BY <1>0, <2>2 DEF Listen
  <2>3. CASE SelectFails
    BY <1>0, <2>3 DEF SelectFails
  <2>4. CASE SelectTimer
    BY <1>0, <2>4 DEF SelectTimer
  <2>5. CASE ServeFails
    BY <1>0, <2>5 DEF ServeFails
  <2>6. CASE MetricsFails
    BY <1>0, <2>6 DEF MetricsFails
  <2>7. CASE Interrupt
    BY <1>0, <2>7 DEF Interrupt
  <2> QED
    BY <1>1, <2>1, <2>2, <2>3, <2>4, <2>5, <2>6, <2>7 DEF StartStep
<1>2. CASE StopStep
  <2>1. CASE Exit
    BY <1>0, <2>1 DEF Exit, Die, Goto, TypeOK
  <2>2. CASE ShutdownIdle \/ ShutdownExpires \/ ShutdownMetrics
    BY <1>0, <2>2
    DEF ShutdownIdle, ShutdownExpires, ShutdownMetrics, Goto, TypeOK
  <2>3. CASE WaitDone \/ WaitExpires
    BY <1>0, <2>3 DEF WaitDone, WaitExpires, Goto, TypeOK
  <2> QED
    BY <1>2, <2>1, <2>2, <2>3 DEF StopStep
<1>3. CASE WaiterStep
  <2>1. CASE WaiterPanics
    BY <1>0, <2>1 DEF WaiterPanics, Die, Goto, TypeOK
  <2>2. CASE WaiterEnters
    BY <1>0, <2>2 DEF WaiterEnters, TypeOK
  <2>3. CASE WaiterReturns
    BY <1>0, <2>3 DEF WaiterReturns, TypeOK
  <2> QED
    BY <1>3, <2>1, <2>2, <2>3 DEF WaiterStep
<1>4. ASSUME NEW h \in Handlers, Accept(h) \/ Register(h) \/ Answer(h)
      PROVE  TypeOK'
  <2>1. CASE Accept(h)
    BY <1>0, <2>1 DEF Accept, TypeOK
  <2>2. CASE Register(h)
    BY <1>0, <2>2 DEF Register, TypeOK
  <2>3. CASE Answer(h)
    BY <1>0, <2>3 DEF Answer, TypeOK
  <2> QED
    BY <1>4, <2>1, <2>2, <2>3
<1>5. ASSUME NEW h \in Handlers, WriterEnds(h) PROVE TypeOK'
  <2>1. wg \in Nat \ {0}
    BY <1>0, <1>5, WritersAfterEnd DEF WriterEnds
  <2>2. wg' \in Nat
    BY <1>5, <2>1 DEF WriterEnds
  <2> QED
    BY <1>0, <1>5, <2>2 DEF WriterEnds, TypeOK
<1>6. CASE UNCHANGED vars
  BY <1>0, <1>6 DEF vars, TypeOK
<1> QED
  BY <1>1, <1>2, <1>3, <1>4, <1>5, <1>6 DEF Next

(* While the process lives, the WaitGroup counts the running writers.      *)
LEMMA CountStep ==
    IInv /\ [Next]_vars => (Alive => wg = Cardinality(Writers))'
<1> SUFFICES ASSUME IInv, [Next]_vars, Alive'
             PROVE  wg' = Cardinality(Writers')
  BY DEF Alive
<1>0. /\ TypeOK /\ (Alive => wg = Cardinality(Writers)) /\ Fresh
      /\ IsFiniteSet(Writers)
  BY WritersFinite DEF IInv
<1>1. CASE UNCHANGED <<writer, wg>>
  <2>1. Writers' = Writers
    BY <1>1 DEF Writers
  <2>2. CASE Alive
    BY <1>0, <1>1, <2>1, <2>2
  <2>3. CASE ~Alive
    BY <2>3
    DEF Alive, Next, vars, StartStep, ListenFails, Listen, SelectFails,
        SelectTimer, ServeFails, MetricsFails, Interrupt, StopStep,
        ShutdownIdle, ShutdownExpires, ShutdownMetrics, WaitDone,
        WaitExpires, Exit, Die, WaiterStep, WaiterEnters, WaiterReturns,
        WaiterPanics, Accept, Register, Answer, WriterEnds, Goto
  <2> QED
    BY <2>2, <2>3
<1>2. ASSUME NEW h \in Handlers, Register(h)
      PROVE  wg' = Cardinality(Writers')
  BY <1>0, <1>2, WritersAfterAdd DEF Register, Fresh
<1>3. ASSUME NEW h \in Handlers, WriterEnds(h)
      PROVE  wg' = Cardinality(Writers')
  BY <1>0, <1>3, WritersAfterEnd DEF WriterEnds
<1> QED
  BY <1>1, <1>2, <1>3
  DEF Alive, Next, vars, StartStep, ListenFails, Listen, SelectFails,
      SelectTimer, ServeFails, MetricsFails, Interrupt, StopStep,
      ShutdownIdle, ShutdownExpires, ShutdownMetrics, WaitDone, WaitExpires,
      Exit, Die, WaiterStep, WaiterEnters, WaiterReturns, WaiterPanics,
      Accept, Answer, Goto

(* A step accepts at most one request.                                     *)
LEMMA AcceptedStep == IInv /\ [Next]_vars => IsFiniteSet(Accepted')
<1> SUFFICES ASSUME IInv, [Next]_vars PROVE IsFiniteSet(Accepted')
  OBVIOUS
<1>0. TypeOK /\ IsFiniteSet(Accepted)
  BY DEF IInv
<1>1. ASSUME NEW h \in Handlers, Accept(h) PROVE IsFiniteSet(Accepted')
  <2>1. Accepted' = Accepted \cup {h}
    BY <1>0, <1>1 DEF Accept, Accepted, TypeOK
  <2> QED
    BY <1>0, <2>1, FS_AddElement
<1>2. ASSUME NEW h \in Handlers, Register(h) \/ Answer(h)
      PROVE  Accepted' = Accepted
  BY <1>0, <1>2 DEF Register, Answer, Accepted, TypeOK
<1>3. CASE Exit \/ WaiterPanics
  <2>1. Accepted' = Accepted
    BY <1>0, <1>3 DEF Exit, WaiterPanics, Die, Accepted, Active, TypeOK
  <2> QED
    BY <1>0, <2>1
<1>4. CASE handler' = handler
  BY <1>0, <1>4 DEF Accepted
<1> QED
  BY <1>0, <1>1, <1>2, <1>3, <1>4
  DEF Next, vars, StartStep, ListenFails, Listen, SelectFails, SelectTimer,
      ServeFails, MetricsFails, Interrupt, StopStep, ShutdownIdle,
      ShutdownExpires, ShutdownMetrics, WaitDone, WaitExpires, WaiterStep,
      WaiterEnters, WaiterReturns, WriterEnds

(* Each part of the invariant that is about control, for each step.        *)
Control == Quiet /\ WaitSeen /\ Fresh /\ Reported /\ CleanStop
           /\ PanicOnlyAfterTimeout

(* Every step keeps what Stop knows of the handlers and the writers.       *)
LEMMA ControlStep == IInv /\ [Next]_vars => Control'
<1> SUFFICES ASSUME IInv, [Next]_vars PROVE Control'
  OBVIOUS
<1>0. /\ TypeOK /\ (Alive => wg = Cardinality(Writers)) /\ Control
      /\ IsFiniteSet(Writers)
  BY WritersFinite DEF IInv, Control
<1> USE DEF Alive, Active, Stopping, Goto, Control, Quiet, WaitSeen, Fresh,
            Reported, Unscathed, CleanStop, PanicOnlyAfterTimeout
<1>1. CASE StartStep
  BY <1>0, <1>1
  DEF StartStep, ListenFails, Listen, SelectFails, SelectTimer
<1>2. CASE ServeFails \/ MetricsFails \/ Interrupt
  BY <1>0, <1>2 DEF ServeFails, MetricsFails, Interrupt
<1>3. CASE ShutdownIdle \/ ShutdownExpires \/ ShutdownMetrics
  BY <1>0, <1>3 DEF ShutdownIdle, ShutdownExpires, ShutdownMetrics
<1>4. CASE WaitDone \/ WaitExpires
  BY <1>0, <1>4 DEF WaitDone, WaitExpires
<1>5. CASE Exit
  <2>1. ASSUME errs = {}
        PROVE  Active = {} /\ Writers = {}
    <3>1. main = "completed" /\ waiter = "done" /\ wg = 0
      BY <1>0, <1>5, <2>1 DEF Exit, Die
    <3>2. Writers = {}
      BY <1>0, <3>1, FS_EmptySet
    <3> QED
      BY <1>0, <2>1, <3>1, <3>2
  <2>2. errs = {} => Unscathed'
    BY <1>0, <1>5, <2>1 DEF Exit, Die, Writers, TypeOK
  <2> QED
    BY <1>0, <1>5, <2>2 DEF Exit, Die, Writers, TypeOK
<1>6. CASE WaiterEnters \/ WaiterReturns
  BY <1>0, <1>6 DEF WaiterEnters, WaiterReturns
<1>7. CASE WaiterPanics
  <2>1. "http" \in errs /\ main' = "panicked"
    BY <1>0, <1>7 DEF WaiterPanics, Die
  <2>2. Fresh'
    BY <1>0, <1>7 DEF WaiterPanics, Die, Writers, TypeOK
  <2> QED
    BY <1>0, <1>7, <2>1, <2>2 DEF WaiterPanics, Die
<1>8. ASSUME NEW h \in Handlers, Accept(h) PROVE Control'
  BY <1>0, <1>8 DEF Accept, TypeOK
<1>9. ASSUME NEW h \in Handlers, Register(h) PROVE Control'
  BY <1>0, <1>9 DEF Register, TypeOK
<1>10. ASSUME NEW h \in Handlers, Answer(h) PROVE Control'
  BY <1>0, <1>10 DEF Answer, TypeOK
<1>11. ASSUME NEW h \in Handlers, WriterEnds(h) PROVE Control'
  <2>1. Quiet' /\ Reported' /\ Fresh' /\ CleanStop' /\ PanicOnlyAfterTimeout'
    BY <1>0, <1>11 DEF WriterEnds, TypeOK
  <2>2. wg \in Nat \ {0}
    BY <1>0, <1>11, WritersAfterEnd DEF WriterEnds
  <2>3. WaitSeen'
    BY <1>0, <1>11, <2>2 DEF WriterEnds, TypeOK
  <2> QED
    BY <2>1, <2>3
<1>12. CASE UNCHANGED vars
  BY <1>0, <1>12 DEF vars
<1> QED
  BY <1>1, <1>2, <1>3, <1>4, <1>5, <1>6, <1>7, <1>8, <1>9, <1>10, <1>11, <1>12
  DEF Next, StopStep, WaiterStep

(* Every reachable state satisfies the inductive invariant.                *)
THEOREM Invariance == Spec => []IInv
<1>1. IInv /\ [Next]_vars => IInv'
  BY TypeStep, AcceptedStep, CountStep, ControlStep DEF IInv, Control
<1> QED
  BY InitInv, <1>1, PTL DEF Spec

(* Every variable keeps its type: the WaitGroup never goes negative.       *)
THEOREM TypeCorrect == Spec => []TypeOK
<1>1. IInv => TypeOK
  BY DEF IInv
<1> QED
  BY Invariance, <1>1, PTL

(* A Stop that reports no error has cut nothing short.                     *)
THEOREM StopIsClean == Spec => []CleanStop
<1>1. IInv => CleanStop
  BY DEF IInv
<1> QED
  BY Invariance, <1>1, PTL

(* Stop's goroutine panics only if Shutdown has given up on a handler.     *)
THEOREM PanicAfterTimeout == Spec => []PanicOnlyAfterTimeout
<1>1. IInv => PanicOnlyAfterTimeout
  BY DEF IInv
<1> QED
  BY Invariance, <1>1, PTL

(* Unless Shutdown has given up on a handler, no fallback write is         *)
(* registered once Stop waits for them.                                    *)
THEOREM WaitGroupContract == Spec => AddsBeforeWait
<1> DEFINE Contract == wg' > wg /\ waiter # "none" => "http" \in errs
<1>1. ASSUME IInv, [Next]_vars PROVE Contract
  <2>0. /\ TypeOK /\ Quiet /\ WaitSeen
    BY <1>1 DEF IInv
  <2>1. ASSUME NEW h \in Handlers, Register(h) PROVE Contract
    <3>1. Active # {} /\ Alive
      BY <2>1 DEF Register, Active
    <3>2. waiter # "none" => main \in {"wait", "completed", "timedOut"}
      BY <2>0, <3>1 DEF WaitSeen, Alive, TypeOK
    <3> QED
      BY <2>0, <3>1, <3>2 DEF Quiet, Stopping
  <2>2. ASSUME NEW h \in Handlers, WriterEnds(h) PROVE Contract
    BY <2>0, <2>2 DEF WriterEnds, TypeOK
  <2>3. CASE wg' = wg
    BY <2>0, <2>3 DEF TypeOK
  <2>4. CASE Exit \/ WaiterPanics
    BY <2>0, <2>4 DEF Exit, WaiterPanics, Die, TypeOK
  <2> QED
    BY <1>1, <2>1, <2>2, <2>3, <2>4
    DEF Next, vars, StartStep, ListenFails, Listen, SelectFails,
        SelectTimer, ServeFails, MetricsFails, Interrupt, StopStep,
        ShutdownIdle, ShutdownExpires, ShutdownMetrics, WaitDone,
        WaitExpires, WaiterStep, WaiterEnters, WaiterReturns, Accept, Answer
<1>2. IInv /\ [Next]_vars => [Contract]_vars
  BY <1>1
<1> QED
  BY Invariance, <1>2, PTL DEF Spec, AddsBeforeWait
=============================================================================
