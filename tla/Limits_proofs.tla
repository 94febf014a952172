--------------------------- MODULE Limits_proofs ---------------------------
(***************************************************************************)
(* For every setting an operator may write, every size of a body and every *)
(* bound of the clock: the maximum of the file is the maximum enforced, a  *)
(* handler with enough write timeout answers in time, every call begins    *)
(* with its whole timeout, and Stop cuts short nobody who is quick.        *)
(***************************************************************************)
EXTENDS Limits, TLAPS

-----------------------------------------------------------------------------
(* Sizes                                                                   *)

LEMMA WrapFits ==
    ASSUME NEW n \in Int
    PROVE  Wrap(n) \in -Word .. Word - 1
BY WordAssumption DEF Wrap

LEMMA WrapKeeps ==
    ASSUME NEW n \in -Word .. Word - 1
    PROVE  Wrap(n) = n
<1>1. n + Word \in 0 .. 2 * Word - 1
  BY WordAssumption
<1>2. (n + Word) % (2 * Word) = n + Word
  BY <1>1, WordAssumption
<1> QED BY <1>2, WordAssumption DEF Wrap

LEMMA WrapShrinks ==
    ASSUME NEW n \in Int, n >= -Word
    PROVE  Wrap(n) <= n
<1>1. CASE n < Word
  BY <1>1, WrapKeeps, WordAssumption
<1>2. CASE n >= Word
  BY <1>2, WrapFits, WordAssumption
<1> QED BY <1>1, <1>2, WordAssumption

LEMMA Products ==
    ASSUME NEW size \in Sizes
    PROVE  size.num * Multiplier(size.unit) \in Int
<1>1. Kilo \in Int /\ Kilo * Kilo \in Int /\ Kilo * Kilo * Kilo \in Int
  BY KiloAssumption
<1>2. Multiplier(size.unit) \in Int
  <2>1. size.unit \in {"", "B", "KB", "MB", "GB"}
    BY DEF Sizes
  <2>2. CASE size.unit \in {"", "B"}
    <3>1. Multiplier(size.unit) = 1
      BY <2>2 DEF Multiplier
    <3> QED BY <3>1
  <2>3. CASE size.unit = "KB"
    BY <1>1, <2>3 DEF Multiplier
  <2>4. CASE size.unit = "MB"
    BY <1>1, <2>4 DEF Multiplier
  <2>5. CASE size.unit = "GB"
    BY <1>1, <2>5 DEF Multiplier
  <2> QED BY <2>1, <2>2, <2>3, <2>4, <2>5
<1>3. size.num \in Int
  BY DEF Sizes
<1> QED BY <1>2, <1>3

LEMMA MegabytesFit == 2 * Kilo * Kilo \in 0 .. Word - 1
<1>1. Kilo * Kilo \in Nat
  BY KiloAssumption
<1>2. 2 * Kilo * Kilo \in Nat
  BY <1>1, KiloAssumption
<1> QED BY <1>2, DefaultFits, WordAssumption

-----------------------------------------------------------------------------
(* Types                                                                   *)

LEMMA SettingsFields ==
    ASSUME NEW s \in AllSettings
    PROVE  /\ s.read \in Durations /\ s.write \in Durations
           /\ s.submit \in Durations /\ s.get \in Durations
           /\ s.s3 \in Durations /\ s.s3Flag \in Durations
           /\ s.size \in Sizes /\ s.available \in BOOLEAN
           /\ s.metrics \in BOOLEAN
BY DEF AllSettings

LEMMA MaxSizeFits ==
    ASSUME NEW s \in AllSettings
    PROVE  GetMaxBlobSize(s) \in -Word .. Word - 1
<1>1. parseByteSize(s.size) \in -Word .. Word - 1
  BY SettingsFields, Products, WrapFits DEF parseByteSize
<1>2. 2 * Kilo * Kilo \in -Word .. Word - 1
  BY MegabytesFit, WordAssumption
<1> QED BY <1>1, <1>2 DEF GetMaxBlobSize

LimitsType == [read: Int, write: Int, submit: Int, get: Int, s3: Int,
               maxBlobSize: -Word .. Word - 1]

LEMMA OrType ==
    ASSUME NEW text \in Durations, NEW default \in Int
    PROVE  Or(text, default) \in Int
BY DEF Or, Durations

LEMMA NonZeroType ==
    ASSUME NEW d \in Int, NEW default \in Int
    PROVE  NonZero(d, default) \in Int
BY DEF NonZero

LEMMA EffectiveType ==
    ASSUME NEW s \in AllSettings
    PROVE  Effective(s) \in LimitsType
<1>1. GetHTTPReadTimeout(s) \in Int /\ GetHTTPWriteTimeout(s) \in Int
  BY SettingsFields, OrType
     DEF GetHTTPReadTimeout, GetHTTPWriteTimeout
<1>2. GetSubmissionTimeout(s) \in Int /\ GetReadTimeout(s) \in Int
  BY SettingsFields, OrType DEF GetSubmissionTimeout, GetReadTimeout
<1>3. /\ NonZero(GetSubmissionTimeout(s), 60) \in Int
      /\ NonZero(GetReadTimeout(s), 30) \in Int
  BY <1>2 DEF NonZero
<1>4. GetS3Timeout(s) \in Int
  <2>1. s.s3Flag.secs \in Int
    BY SettingsFields DEF Durations
  <2>2. Or(s.s3, 30) \in Int
    BY SettingsFields, OrType
  <2> QED BY <2>1, <2>2 DEF GetS3Timeout
<1>5. NewS3Timeout(GetS3Timeout(s)) \in Int
  BY <1>4, NonZeroType DEF NewS3Timeout
<1>6. GetMaxBlobSize(s) \in -Word .. Word - 1
  BY MaxSizeFits
<1> QED BY <1>1, <1>3, <1>5, <1>6 DEF Effective, LimitsType

LEMMA TypeInit == Init => TypeOK
<1> SUFFICES ASSUME Init
             PROVE  TypeOK
  OBVIOUS
<1>1. 0 \in -Word .. Word - 1
  BY WordAssumption
<1>2. limits \in LimitsType
  BY <1>1 DEF Init, NoLimits, LimitsType
<1>3. settings \in AllSettings
  BY SettingsAssumption DEF Init
<1>4. reply \in [status: {0, 200, 400, 404, 413, 500}, late: BOOLEAN]
  BY DEF Init, NoReply
<1> QED BY <1>2, <1>3, <1>4, TimeAssumption
        DEF Init, TypeOK, LimitsType, Waiting

LEMMA AnswerType ==
    ASSUME TypeOK, NEW status \in {200, 400, 404, 413, 500}, Answer(status)
    PROVE  /\ pc' = "done" /\ due' \in Int
           /\ reply' \in [status: {0, 200, 400, 404, 413, 500}, late: BOOLEAN]
BY DEF TypeOK, Answer

LEMMA AwaitType ==
    ASSUME TypeOK, NEW to \in Waiting, NEW timeout \in Int, Await(to, timeout)
    PROVE  /\ pc' \in Waiting /\ due' \in Int
           /\ reply' \in [status: {0, 200, 400, 404, 413, 500}, late: BOOLEAN]
BY TimeAssumption DEF TypeOK, Await

(* What every step of the handler leaves alone.                            *)
LEMMA StepType ==
    ASSUME TypeOK, NEW from, Step(from),
           pc' \in {"done"} \cup Waiting, due' \in Int,
           reply' \in [status: {0, 200, 400, 404, 413, 500}, late: BOOLEAN],
           StoreFallback \/ UNCHANGED fallback
    PROVE  TypeOK'
<1>1. /\ UNCHANGED <<settings, limits, now, main>>
      /\ UNCHANGED <<shutdownDue, waitDue, stopErrs, began>>
      /\ UNCHANGED <<body, writeDue>>
  BY DEF Step, process, stop
<1>2. /\ writer' \in {"none", "writing", "ended", "killed"}
      /\ writerDue' \in Int
  <2>1. CASE UNCHANGED fallback
    BY <2>1 DEF TypeOK, fallback
  <2>2. CASE StoreFallback
    <3>1. now + limits.s3 \in Int
      BY TimeAssumption DEF TypeOK
    <3> QED BY <2>2, <3>1 DEF TypeOK, StoreFallback, fallback
  <2> QED BY <2>1, <2>2
<1> QED BY <1>1, <1>2 DEF TypeOK

LEMMA TypeStep == TypeOK /\ [Next]_vars => TypeOK'
<1> SUFFICES ASSUME TypeOK, [Next]_vars
             PROVE  TypeOK'
  OBVIOUS
<1> USE DEF process, stop, handler, fallback
<1>0. now \in Int /\ Never \in Int /\ limits.submit \in Int /\ limits.s3 \in Int
  BY TimeAssumption DEF TypeOK, Never
<1>1. CASE Start
  <2>1. limits' \in LimitsType
    BY <1>1, EffectiveType DEF Start, TypeOK, LimitsType
  <2>2. main' \in {"running", "refused"}
    BY <1>1 DEF Start
  <2> QED BY <1>1, <2>1, <2>2 DEF Start, TypeOK, LimitsType
<1>2. ASSUME NEW to \in Waiting, NEW expires \in Int, Receive(to, expires),
             body' \in Bodies \cup {-1}
      PROVE  TypeOK'
  <2>1. ConnectionDue(limits.write) \in Int
    BY <1>0 DEF ConnectionDue, TypeOK
  <2> QED BY <1>2, <2>1 DEF Receive, TypeOK
<1>3. CASE ReceivePut
  <2>1. ConnectionDue(limits.read) \in Int
    BY <1>0 DEF ConnectionDue, TypeOK
  <2> QED BY <1>2, <1>3, <2>1 DEF ReceivePut, Waiting
<1>4. CASE ReceiveGet
  <2>1. now + Earlier(limits.get, 60) \in Int
    BY <1>0 DEF Earlier, TypeOK
  <2>2. body' \in Bodies \cup {-1}
    BY <1>4 DEF ReceiveGet, TypeOK
  <2> QED BY <1>2, <1>4, <2>1, <2>2 DEF ReceiveGet, Waiting
<1>5. CASE ReadBody
  <2>1. /\ pc' \in {"done"} \cup Waiting /\ due' \in Int
        /\ reply' \in [status: {0, 200, 400, 404, 413, 500}, late: BOOLEAN]
    BY <1>0, <1>5, AnswerType, AwaitType DEF ReadBody, Waiting
  <2> QED BY <1>5, <2>1, StepType DEF ReadBody
<1>6. CASE ReadFails
  BY <1>6, AnswerType, StepType DEF ReadFails
<1>7. CASE SubmitReturns
  BY <1>7, AnswerType, StepType DEF SubmitReturns
<1>8. CASE SubmitFails
  BY <1>8, AnswerType, StepType DEF SubmitFails
<1>9. CASE RetrieveFinds
  BY <1>9, AnswerType, StepType DEF RetrieveFinds
<1>10. CASE RetrieveMisses
  BY <1>10, AnswerType, StepType DEF RetrieveMisses
<1>11. CASE RetrieveFails
  <2>1. /\ pc' \in {"done"} \cup Waiting /\ due' \in Int
        /\ reply' \in [status: {0, 200, 400, 404, 413, 500}, late: BOOLEAN]
    BY <1>0, <1>11, AnswerType, AwaitType DEF RetrieveFails, Waiting
  <2> QED BY <1>11, <2>1, StepType DEF RetrieveFails
<1>12. CASE FallbackReturns
  BY <1>12, AnswerType, StepType DEF FallbackReturns
<1>13. CASE FallbackFails
  BY <1>13, AnswerType, StepType DEF FallbackFails
<1>14. CASE WriterEnds
  BY <1>14 DEF WriterEnds, TypeOK
<1>15. CASE Interrupt
  BY <1>0, <1>15 DEF Interrupt, TypeOK
<1>16. CASE ShutdownEnds
  <2>1. stopErrs' \subseteq {"http", "metrics", "pending"}
    <3>1. stopErrs' = stopErrs \/ stopErrs' = stopErrs \cup {"http"}
      BY <1>16 DEF ShutdownEnds
    <3>2. stopErrs \subseteq {"http", "metrics", "pending"}
      BY DEF TypeOK
    <3> QED BY <3>1, <3>2
  <2>2. main' \in {"shutdownMetrics", "wait"} /\ waitDue' \in Int
    BY <1>0, <1>16 DEF ShutdownEnds, BeginWait, TypeOK
  <2>3. pc' \in {"idle", "accepted", "closed", "done", "killed"} \cup Waiting
    BY <1>16 DEF ShutdownEnds, TypeOK
  <2> QED BY <1>16, <2>1, <2>2, <2>3 DEF ShutdownEnds, TypeOK
<1>17. CASE WaitEnds
  <2>1. stopErrs' \subseteq {"http", "metrics", "pending"}
    <3>1. stopErrs' = stopErrs \/ stopErrs' = stopErrs \cup {"pending"}
      BY <1>17 DEF WaitEnds
    <3>2. stopErrs \subseteq {"http", "metrics", "pending"}
      BY DEF TypeOK
    <3> QED BY <3>1, <3>2
  <2>2. /\ pc' \in {"idle", "accepted", "closed", "done", "killed"}
                    \cup Waiting
        /\ writer' \in {"none", "writing", "ended", "killed"}
        /\ main' = "exited"
    BY <1>17 DEF WaitEnds, TypeOK
  <2> QED BY <1>17, <2>1, <2>2 DEF WaitEnds, TypeOK
<1>18. CASE Tick
  BY <1>18, TimeAssumption DEF Tick, TypeOK
<1>19. CASE UNCHANGED vars
  BY <1>19 DEF vars, TypeOK
<1>20. CASE Accept
  BY <1>20 DEF Accept, TypeOK
<1>21. CASE MetricsShutdownEnds
  <2>1. stopErrs' \subseteq {"http", "metrics", "pending"}
    <3>1. stopErrs' = stopErrs \/ stopErrs' = stopErrs \cup {"metrics"}
      BY <1>21 DEF MetricsShutdownEnds
    <3>2. stopErrs \subseteq {"http", "metrics", "pending"}
      BY DEF TypeOK
    <3> QED BY <3>1, <3>2
  <2> QED BY <1>0, <1>21, <2>1 DEF MetricsShutdownEnds, BeginWait, TypeOK
<1> QED
  BY <1>20, <1>21, <1>1, <1>3, <1>4, <1>5, <1>6, <1>7, <1>8, <1>9, <1>10, <1>11, <1>12,
     <1>13, <1>14, <1>15, <1>16, <1>17, <1>18, <1>19 DEF Next

-----------------------------------------------------------------------------
(* Operators of the invariant                                              *)

LEMMA LongestIs ==
    ASSUME TypeOK
    PROVE  /\ Positive(limits.read) \in Nat /\ Positive(limits.submit) \in Nat
           /\ Positive(limits.s3) \in Nat
           /\ Positive(Earlier(limits.get, 60)) \in Nat
           /\ limits.read <= Positive(limits.read)
           /\ limits.submit <= Positive(limits.submit)
           /\ limits.s3 <= Positive(limits.s3)
           /\ Earlier(limits.get, 60)
                  <= Positive(Earlier(limits.get, 60))
           /\ body >= 0 => Longest = Positive(limits.read)
                                     + Positive(limits.submit)
           /\ body = -1 /\ settings.available =>
                  Longest = Positive(Earlier(limits.get, 60))
                            + Positive(limits.s3)
           /\ body = -1 =>
                  Longest >= Positive(Earlier(limits.get, 60))
           /\ body = -1 \/ body \in Nat
           /\ Longest \in Nat
<1>1. /\ limits.read \in Int /\ limits.submit \in Int /\ limits.s3 \in Int
      /\ limits.get \in Int
  BY DEF TypeOK
<1>2. Earlier(limits.get, 60) \in Int
  BY <1>1 DEF Earlier
<1>3. \A d \in Int: Positive(d) \in Nat /\ d <= Positive(d)
  BY DEF Positive
<1>4. body = -1 \/ body \in Nat
  BY BodiesAssumption DEF TypeOK
<1>5. ~(-1 >= 0)
  OBVIOUS
<1>6. CASE body \in Nat
  BY <1>1, <1>2, <1>3, <1>6 DEF Longest
<1>7. CASE body = -1
  BY <1>1, <1>2, <1>3, <1>5, <1>7 DEF Longest
<1> QED BY <1>4, <1>6, <1>7, <1>1, <1>2, <1>3

LEMMA SpentIs ==
    ASSUME TypeOK, RequestInv
    PROVE  /\ pc = "body" => Spent = Positive(limits.read)
           /\ pc = "retrieve" =>
                  Spent = Positive(Earlier(limits.get, 60))
           /\ pc \in {"submit", "fallback"} => Spent = Longest
           /\ pc \in Waiting => Spent \in 0 .. Longest
<1>1. /\ pc = "body" => Spent = Positive(limits.read)
      /\ pc = "retrieve" => Spent = Positive(Earlier(limits.get, 60))
      /\ pc \in {"submit", "fallback"} => Spent = Longest
  BY DEF Spent
<1>2. pc = "body" => body >= 0
  BY DEF RequestInv
<1>3. pc = "retrieve" => body = -1
  BY DEF RequestInv
<1> QED BY <1>1, <1>2, <1>3, LongestIs DEF Waiting

(* What depends on the request and the limits only.                        *)
LEMMA SameRequest ==
    ASSUME UNCHANGED <<settings, limits, body>>
    PROVE  /\ Longest' = Longest /\ ReadEnds' = ReadEnds
           /\ pc' = pc => Spent' = Spent
<1>1. Longest' = Longest
  BY DEF Longest
<1>2. ReadEnds' = ReadEnds
  BY DEF ReadEnds
<1> QED BY <1>1, <1>2 DEF Spent

LEMMA SameQuick ==
    ASSUME UNCHANGED <<settings, limits, body, began, shutdownDue>>,
           Begun' = Begun
    PROVE  IsQuick' = IsQuick
BY SameRequest DEF IsQuick, Poll

LEMMA StepKeeps ==
    ASSUME NEW from, Step(from)
    PROVE  /\ Alive /\ pc = from
           /\ UNCHANGED <<settings, limits, body, began, now, main>>
           /\ UNCHANGED <<shutdownDue, waitDue, stopErrs, writeDue>>
BY DEF Step, process, stop

-----------------------------------------------------------------------------
(* The process, and what the maximum does to a body                        *)

LEMMA ProcessStep ==
    ASSUME TypeOK, ProcessInv, [Next]_vars
    PROVE  ProcessInv'
<1> USE DEF process, stop, handler, fallback, ProcessInv, Started
<1>1. CASE Start
  BY <1>1 DEF Start
<1>2. CASE ReceivePut \/ ReceiveGet
  <2>1. /\ Alive /\ pc' \in Waiting
        /\ UNCHANGED <<settings, limits, main, stopErrs, writer>>
    BY <1>2 DEF ReceivePut, ReceiveGet, Receive, Waiting
  <2> QED BY <2>1 DEF Waiting, Alive
<1>3. ASSUME NEW from, Step(from), pc' \in {"done"} \cup Waiting,
             StoreFallback \/ UNCHANGED fallback
      PROVE  ProcessInv'
  <2>1. /\ Alive /\ UNCHANGED <<settings, limits, main, stopErrs>>
    BY <1>3, StepKeeps
  <2>2. main \notin {"init", "refused", "exited"}
    BY <2>1 DEF Alive
  <2>3. pc' # "killed"
    BY <1>3 DEF Waiting
  <2>4. writer' = writer \/ writer' = "writing"
    BY <1>3 DEF StoreFallback
  <2> QED BY <2>1, <2>2, <2>3, <2>4
<1>4. CASE ReadBody
  BY <1>3, <1>4 DEF ReadBody, Answer, Await, Waiting
<1>5. CASE ReadFails \/ SubmitFails \/ FallbackFails
  BY <1>3, <1>5 DEF ReadFails, SubmitFails, FallbackFails, Answer
<1>6. CASE SubmitReturns \/ RetrieveFinds
  BY <1>3, <1>6 DEF SubmitReturns, RetrieveFinds, Answer
<1>7. CASE RetrieveMisses \/ FallbackReturns
  BY <1>3, <1>7 DEF RetrieveMisses, FallbackReturns, Answer
<1>8. CASE RetrieveFails
  BY <1>3, <1>8 DEF RetrieveFails, Answer, Await, Waiting
<1>9. CASE WriterEnds
  BY <1>9 DEF WriterEnds, Alive
<1>10. CASE Interrupt
  BY <1>10 DEF Interrupt
<1>11. CASE ShutdownEnds
  <2>1. /\ main = "shutdownHTTP" /\ main' \in {"shutdownMetrics", "wait"}
        /\ UNCHANGED <<settings, limits, writer>>
        /\ pc' = pc \/ pc' = "closed"
    BY <1>11 DEF ShutdownEnds, BeginWait
  <2> QED BY <2>1
<1>12. CASE WaitEnds
  BY <1>12 DEF WaitEnds
<1>13. CASE Tick
  BY <1>13 DEF Tick
<1>14. CASE UNCHANGED vars
  BY <1>14 DEF vars
<1>15. CASE Accept
  BY <1>15 DEF Accept
<1>16. CASE MetricsShutdownEnds
  BY <1>16 DEF MetricsShutdownEnds, BeginWait
<1> QED
  BY <1>15, <1>16, <1>1, <1>2, <1>4, <1>5, <1>6, <1>7, <1>8, <1>9, <1>10, <1>11, <1>12,
     <1>13, <1>14 DEF Next

LEMMA AnswerRequest ==
    ASSUME RequestInv, NEW from, Step(from), NEW status, Answer(status),
           status = 200 => body = -1 \/ body <= limits.maxBlobSize,
           status = 413 => body > limits.maxBlobSize
    PROVE  RequestInv'
<1>1. UNCHANGED <<settings, limits, body>>
  BY StepKeeps
<1>2. pc' = "done" /\ reply'.status = status
  BY DEF Answer
<1> QED BY <1>1, <1>2 DEF RequestInv, Begun

LEMMA RequestStep ==
    ASSUME TypeOK, RequestInv, ProcessInv, [Next]_vars
    PROVE  RequestInv'
<1> USE DEF process, stop, handler, fallback
<1>0. NoReply.status = 0
  BY DEF NoReply
<1>1. CASE Start
  <2>1. main = "init" /\ UNCHANGED <<settings, handler>>
    BY <1>1 DEF Start
  <2>2. pc = "idle" /\ reply = NoReply
    BY <2>1 DEF ProcessInv, RequestInv, Started
  <2> QED BY <1>0, <2>1, <2>2 DEF RequestInv, Begun
<1>2. CASE ReceivePut
  <2>1. /\ pc' = "body" /\ body' \in Nat /\ reply' = NoReply
    BY <1>2, BodiesAssumption DEF ReceivePut, Receive, RequestInv
  <2> QED BY <1>0, <2>1 DEF RequestInv, Begun
<1>3. CASE ReceiveGet
  <2>1. /\ pc' = "retrieve" /\ body' = -1 /\ reply' = NoReply
    BY <1>3 DEF ReceiveGet, Receive, RequestInv, Begun
  <2> QED BY <1>0, <2>1 DEF RequestInv, Begun
<1>4. CASE ReadBody
  <2>1. Step("body")
    BY <1>4 DEF ReadBody
  <2>2. CASE Oversized /\ Answer(413)
    BY <2>1, <2>2, AnswerRequest DEF Oversized
  <2>3. CASE Answer(400)
    BY <2>1, <2>3, AnswerRequest
  <2>4. CASE ~Oversized /\ body > 0 /\ Await("submit", limits.submit)
    <3>1. body <= limits.maxBlobSize
      BY <2>4, WordAssumption, BodiesAssumption DEF Oversized, TypeOK
    <3>2. pc' = "submit" /\ reply' = reply /\ UNCHANGED <<settings, limits, body>>
      BY <2>1, <2>4, StepKeeps DEF Await
    <3>3. reply = NoReply /\ body >= 0
      BY <2>1, StepKeeps DEF RequestInv, Begun
    <3> QED BY <1>0, <3>1, <3>2, <3>3 DEF RequestInv, Begun
  <2> QED BY <1>4, <2>2, <2>3, <2>4 DEF ReadBody
<1>5. CASE ReadFails
  BY <1>5, AnswerRequest DEF ReadFails
<1>6. CASE SubmitReturns
  <2>1. body = -1 \/ body <= limits.maxBlobSize
    BY <1>6, StepKeeps DEF SubmitReturns, RequestInv
  <2> QED BY <1>6, <2>1, AnswerRequest DEF SubmitReturns
<1>7. CASE SubmitFails
  BY <1>7, AnswerRequest DEF SubmitFails
<1>8. CASE RetrieveFinds \/ RetrieveMisses \/ FallbackReturns
  <2>1. body = -1
    BY <1>8, StepKeeps
       DEF RetrieveFinds, RetrieveMisses, FallbackReturns, RequestInv
  <2> QED BY <1>8, <2>1, AnswerRequest
          DEF RetrieveFinds, RetrieveMisses, FallbackReturns
<1>9. CASE RetrieveFails
  <2>1. Step("retrieve")
    BY <1>9 DEF RetrieveFails
  <2>2. CASE settings.available /\ Await("fallback", limits.s3)
    <3>1. pc' = "fallback" /\ reply' = reply /\ UNCHANGED <<settings, limits, body>>
      BY <2>1, <2>2, StepKeeps DEF Await
    <3>2. reply = NoReply /\ body = -1
      BY <2>1, StepKeeps DEF RequestInv, Begun
    <3> QED BY <1>0, <2>2, <3>1, <3>2 DEF RequestInv, Begun
  <2>3. CASE Answer(500)
    BY <2>1, <2>3, AnswerRequest
  <2> QED BY <1>9, <2>2, <2>3 DEF RetrieveFails
<1>10. CASE FallbackFails
  BY <1>10, AnswerRequest DEF FallbackFails
<1>11. CASE WaitEnds
  <2>1. pc' = pc \/ (pc \in Waiting /\ pc' = "killed")
    <3>1. pc' = IF pc \in Waiting THEN "killed" ELSE pc
      BY <1>11 DEF WaitEnds
    <3> QED BY <3>1
  <2>3. UNCHANGED <<settings, limits, body, reply>>
    BY <1>11 DEF WaitEnds
  <2>2. pc \in Waiting => reply = NoReply
    BY DEF RequestInv, Waiting
  <2> QED BY <1>0, <2>1, <2>2, <2>3 DEF RequestInv, Begun, Waiting
<1>12. CASE UNCHANGED <<settings, limits, handler>>
  BY <1>12 DEF RequestInv, Begun
<1>13. CASE \/ WriterEnds \/ Interrupt \/ MetricsShutdownEnds \/ Tick
            \/ UNCHANGED vars
  <2>1. UNCHANGED <<settings, limits, handler>>
    BY <1>13 DEF WriterEnds, Interrupt, MetricsShutdownEnds, Tick, vars
  <2> QED BY <1>12, <2>1
<1>14. CASE Accept \/ ShutdownEnds
  <2>1. /\ UNCHANGED <<settings, limits, body, reply>>
        /\ \/ pc' = pc
           \/ pc \in {"idle", "accepted"} /\ pc' \in {"accepted", "closed"}
    BY <1>14 DEF Accept, ShutdownEnds
  <2> QED BY <1>0, <2>1 DEF RequestInv, Begun
<1> QED
  BY <1>1, <1>2, <1>3, <1>4, <1>5, <1>6, <1>7, <1>8, <1>9, <1>10, <1>11, <1>13,
     <1>14 DEF Next

-----------------------------------------------------------------------------
(* The clock                                                               *)

(* A step of the handler once it has the request: it answers, or waits for *)
(* something else; and it may leave a writer behind.                       *)
Works == \/ ReadBody \/ ReadFails \/ SubmitReturns \/ SubmitFails
         \/ RetrieveFinds \/ RetrieveMisses \/ RetrieveFails
         \/ FallbackReturns \/ FallbackFails

Answers == /\ pc' = "done" /\ reply'.late = (now >= writeDue)
           /\ due' = now + Poll
WaitsAgain == /\ reply' = reply
              /\ \/ pc = "body" /\ pc' = "submit" /\ due' = now + limits.submit
                 \/ /\ pc = "retrieve" /\ pc' = "fallback"
                    /\ settings.available /\ due' = now + limits.s3
StartsWriter == writer' = "writing" /\ writerDue' = now + limits.s3

LEMMA AnswerIs ==
    ASSUME NEW status, Answer(status)
    PROVE  Answers
BY DEF Answer, Answers

LEMMA WorksIs ==
    ASSUME Works
    PROVE  /\ Alive /\ pc \in Waiting
           /\ UNCHANGED <<settings, limits, body, began, now, main>>
           /\ UNCHANGED <<shutdownDue, waitDue, stopErrs, writeDue>>
           /\ Answers \/ WaitsAgain
           /\ UNCHANGED <<writer, writerDue>> \/ StartsWriter
<1> DEFINE Goal == /\ Alive /\ pc \in Waiting
                   /\ UNCHANGED <<settings, limits, body, began, now, main>>
                   /\ UNCHANGED <<shutdownDue, waitDue, stopErrs, writeDue>>
                   /\ Answers \/ WaitsAgain
                   /\ UNCHANGED <<writer, writerDue>> \/ StartsWriter
<1>1. ASSUME NEW from \in Waiting, Step(from), Answers \/ WaitsAgain,
             UNCHANGED fallback \/ StoreFallback
      PROVE  Goal
  <2>1. UNCHANGED <<writer, writerDue>> \/ StartsWriter
    BY <1>1 DEF fallback, StoreFallback, StartsWriter
  <2> QED BY <1>1, <2>1, StepKeeps
<1>2. CASE ReadBody
  <2>1. Step("body") /\ UNCHANGED fallback
    BY <1>2 DEF ReadBody
  <2>2. Answers \/ WaitsAgain
    <3>1. CASE \E status \in {400, 413}: Answer(status)
      BY <3>1, AnswerIs
    <3>2. CASE Await("submit", limits.submit)
      BY <2>1, <3>2, StepKeeps DEF Await, WaitsAgain
    <3> QED BY <1>2, <3>1, <3>2 DEF ReadBody
  <2> QED BY <1>1, <2>1, <2>2 DEF Waiting
<1>3. CASE ReadFails
  BY <1>1, <1>3, AnswerIs DEF ReadFails, Waiting
<1>4. CASE SubmitReturns
  BY <1>1, <1>4, AnswerIs DEF SubmitReturns, Waiting
<1>5. CASE SubmitFails
  BY <1>1, <1>5, AnswerIs DEF SubmitFails, Waiting
<1>6. CASE RetrieveFinds
  BY <1>1, <1>6, AnswerIs DEF RetrieveFinds, Waiting
<1>7. CASE RetrieveMisses
  BY <1>1, <1>7, AnswerIs DEF RetrieveMisses, Waiting
<1>8. CASE RetrieveFails
  <2>1. Step("retrieve") /\ UNCHANGED fallback
    BY <1>8 DEF RetrieveFails
  <2>2. Answers \/ WaitsAgain
    <3>1. CASE Answer(500)
      BY <3>1, AnswerIs
    <3>2. CASE settings.available /\ Await("fallback", limits.s3)
      BY <2>1, <3>2, StepKeeps DEF Await, WaitsAgain
    <3> QED BY <1>8, <3>1, <3>2 DEF RetrieveFails
  <2> QED BY <1>1, <2>1, <2>2 DEF Waiting
<1>9. CASE FallbackReturns
  BY <1>1, <1>9, AnswerIs DEF FallbackReturns, Waiting
<1>10. CASE FallbackFails
  BY <1>1, <1>10, AnswerIs DEF FallbackFails, Waiting
<1> QED BY <1>2, <1>3, <1>4, <1>5, <1>6, <1>7, <1>8, <1>9, <1>10 DEF Works

(* The second wait of a handler ends within the longest it may take, from  *)
(* wherever that is counted.                                               *)
LEMMA SecondWait ==
    ASSUME TypeOK, RequestInv, Works, pc' \in Waiting,
           NEW t \in Int, now <= t + Spent
    PROVE  now' <= t + Spent' /\ due' <= t + Spent'
<1>1. WaitsAgain /\ now' = now
  BY WorksIs DEF Answers, Waiting
<1>2. Spent' = Longest
  <2>1. Longest' = Longest
    BY WorksIs, SameRequest
  <2>2. pc' \in {"submit", "fallback"}
    BY <1>1 DEF WaitsAgain
  <2> QED BY <2>1, <2>2 DEF Spent
<1>3. now \in Int /\ limits.submit \in Int /\ limits.s3 \in Int
  BY TimeAssumption DEF TypeOK
<1>4. CASE pc = "body" /\ due' = now + limits.submit
  <2>1. body >= 0 /\ Spent = Positive(limits.read)
    BY <1>4, SpentIs DEF RequestInv
  <2> QED BY <1>1, <1>2, <1>3, <1>4, <2>1, LongestIs
<1>5. CASE pc = "retrieve" /\ settings.available /\ due' = now + limits.s3
  <2>1. body = -1 /\ Spent = Positive(Earlier(limits.get, 60))
    BY <1>5, SpentIs DEF RequestInv
  <2> QED BY <1>1, <1>2, <1>3, <1>5, <2>1, LongestIs
<1> QED BY <1>1, <1>4, <1>5 DEF WaitsAgain

(* A step of anybody else.                                                 *)
Others == \/ Start \/ Accept \/ WriterEnds \/ Interrupt \/ ShutdownEnds
          \/ MetricsShutdownEnds \/ WaitEnds \/ UNCHANGED vars

LEMMA ActionsAre ==
    ASSUME [Next]_vars
    PROVE  Works \/ ReceivePut \/ ReceiveGet \/ Tick \/ Others
BY DEF Next, Works, Others

LEMMA OthersAre ==
    ASSUME Others
    PROVE  /\ UNCHANGED <<settings, body, began, now, due, writeDue, writerDue>>
           /\ reply' = reply
           /\ \/ pc' = pc
              \/ pc = "idle" /\ pc' = "accepted"
              \/ pc = "accepted" /\ pc' = "closed"
              \/ pc \in Waiting /\ pc' = "killed"
           /\ Begun' = Begun
           /\ writer' = writer \/ writer' \in {"ended", "killed"}
           /\ ~Start => limits' = limits
<1> USE DEF process, stop, handler, fallback
<1>1. CASE Start \/ WriterEnds \/ Interrupt \/ MetricsShutdownEnds \/ UNCHANGED vars
  BY <1>1 DEF Start, WriterEnds, Interrupt, MetricsShutdownEnds, vars, Begun
<1>2. CASE Accept
  BY <1>2 DEF Accept, Begun
<1>3. CASE ShutdownEnds
  <2>1. pc' = pc \/ (pc = "accepted" /\ pc' = "closed")
    BY <1>3 DEF ShutdownEnds
  <2> QED BY <1>3, <2>1 DEF ShutdownEnds, Begun
<1>4. CASE WaitEnds
  <2>1. pc' = pc \/ (pc \in Waiting /\ pc' = "killed")
    <3>1. pc' = IF pc \in Waiting THEN "killed" ELSE pc
      BY <1>4 DEF WaitEnds
    <3> QED BY <3>1
  <2>2. writer' = writer \/ writer' = "killed"
    <3>1. writer' = IF writer = "writing" THEN "killed" ELSE writer
      BY <1>4 DEF WaitEnds
    <3> QED BY <3>1
  <2> QED BY <1>4, <2>1, <2>2 DEF WaitEnds, Begun, Waiting
<1> QED BY <1>1, <1>2, <1>3, <1>4 DEF Others

(* A second passes, and no deadline.                                       *)
LEMMA TickIs ==
    ASSUME TypeOK, Tick
    PROVE  /\ now \in Int /\ now' = now + 1 /\ Alive
           /\ due \in Int /\ writerDue \in Int
           /\ UNCHANGED <<settings, limits, body, began, main, stopErrs>>
           /\ UNCHANGED <<shutdownDue, waitDue, pc, due, writeDue, reply>>
           /\ UNCHANGED <<writer, writerDue>>
           /\ pc \in Waiting => now + 1 <= due
           /\ writer = "writing" => now + 1 <= writerDue
           /\ main = "shutdownHTTP" /\ pc = "done" => now + 1 <= due
           /\ main = "wait" => writer = "writing"
<1>1. now \in Int /\ due \in Int /\ writerDue \in Int
  BY TimeAssumption DEF TypeOK
<1> QED BY <1>1 DEF Tick, process, stop, handler, fallback

(* The first wait of a handler.                                            *)
LEMMA ReceiveIs ==
    ASSUME TypeOK, RequestInv, ReceivePut \/ ReceiveGet
    PROVE  /\ Alive /\ pc = "accepted" /\ pc' \in {"body", "retrieve"}
           /\ UNCHANGED <<settings, limits, now, main, stopErrs>>
           /\ UNCHANGED <<shutdownDue, waitDue, writer, writerDue>>
           /\ reply' = NoReply /\ began' = now
           /\ limits.write > 0 => writeDue' = now + limits.write
           /\ ReadEnds' => due' <= now + Spent'
           /\ Spent' \in Nat /\ Longest' \in Nat
           /\ pc' = "retrieve" => due' = now + Earlier(limits.get, 60)
<1>1. now \in Int /\ limits.read \in Int /\ limits.get \in Int
  BY TimeAssumption DEF TypeOK
<1>2. ASSUME NEW to, NEW expires, Receive(to, expires)
      PROVE  /\ Alive /\ pc = "accepted" /\ pc' = to /\ due' = expires
             /\ UNCHANGED <<settings, limits, now, main, stopErrs>>
             /\ UNCHANGED <<shutdownDue, waitDue, writer, writerDue>>
             /\ reply' = NoReply /\ began' = now
             /\ writeDue' = ConnectionDue(limits.write)
  BY <1>2 DEF Receive, RequestInv, process, stop, fallback
<1>3. CASE ReceivePut
  <2>1. Receive("body", ConnectionDue(limits.read)) /\ body' \in Nat
    BY <1>3, BodiesAssumption DEF ReceivePut
  <2>2. pc' = "body" /\ due' = ConnectionDue(limits.read)
    BY <1>2, <2>1
  <2>3. limits' = limits /\ settings' = settings
    BY <1>2, <2>1
  <2>4. Spent' = Positive(limits.read)
    BY <2>2, <2>3 DEF Spent
  <2>5. ReadEnds' => limits.read > 0
    BY <2>1, <2>3 DEF ReadEnds
  <2>6. Longest' = Positive(limits.read) + Positive(limits.submit)
    BY <2>1, <2>3 DEF Longest
  <2>7. ReadEnds' => due' = now + limits.read
    BY <2>2, <2>5 DEF ConnectionDue
  <2>8. limits.write > 0 => writeDue' = now + limits.write
    BY <1>2, <2>1 DEF ConnectionDue
  <2>9. /\ Spent' \in Nat /\ Longest' \in Nat
        /\ ReadEnds' => due' <= now + Spent'
    BY <1>1, <2>4, <2>6, <2>7, LongestIs
  <2> QED BY <1>2, <2>1, <2>2, <2>8, <2>9
<1>4. CASE ReceiveGet
  <2>1. Receive("retrieve", now + Earlier(limits.get, 60)) /\ body' = -1
    BY <1>4 DEF ReceiveGet, Receive, RequestInv, Begun
  <2>2. pc' = "retrieve" /\ due' = now + Earlier(limits.get, 60)
    BY <1>2, <2>1
  <2>3. limits' = limits /\ settings' = settings
    BY <1>2, <2>1
  <2>4. Spent' = Positive(Earlier(limits.get, 60))
    BY <2>2, <2>3 DEF Spent
  <2>5. Earlier(limits.get, 60) \in Int
    BY <1>1 DEF Earlier
  <2>6. \/ Longest' = Spent' + Positive(limits.s3)
        \/ Longest' = Spent' + 0
    <3>1. ~(-1 >= 0)
      OBVIOUS
    <3> QED BY <2>1, <2>3, <2>4, <3>1 DEF Longest
  <2>7. limits.write > 0 => writeDue' = now + limits.write
    BY <1>2, <2>1 DEF ConnectionDue
  <2>8. /\ Spent' \in Nat /\ Longest' \in Nat /\ due' <= now + Spent'
    BY <1>1, <2>2, <2>4, <2>5, <2>6, LongestIs
  <2> QED BY <1>2, <2>1, <2>2, <2>7, <2>8
<1> QED BY <1>3, <1>4

-----------------------------------------------------------------------------
(* Answering in time                                                       *)

LEMMA AnswersStep ==
    ASSUME TypeOK, ProcessInv, RequestInv, ClockInv, [Next]_vars
    PROVE  AnswersInTime'
<1>0. /\ now \in Int /\ writeDue \in Int /\ limits.write \in Int
      /\ began \in Int /\ Longest \in Nat
  BY TimeAssumption, LongestIs DEF TypeOK
<1>1. AnswersInTime
  BY DEF ClockInv
<1>2. ~NoReply.late
  BY DEF NoReply
<1>3. CASE Works
  <2>1. UNCHANGED <<settings, limits, body, now, writeDue>> /\ pc \in Waiting
    BY <1>3, WorksIs
  <2>2. Longest' = Longest /\ ReadEnds' = ReadEnds
    BY <2>1, SameRequest
  <2>3. CASE WaitsAgain
    BY <1>1, <2>1, <2>2, <2>3 DEF WaitsAgain, AnswersInTime
  <2>4. CASE Answers
    <3> SUFFICES ASSUME limits.write > Longest, ReadEnds
                 PROVE  ~reply'.late
      BY <2>1, <2>2 DEF AnswersInTime
    <3>1. writeDue = began + limits.write
      BY <1>0, <2>1 DEF ClockInv, Begun, Waiting
    <3>2. now <= began + Spent
      BY <2>1 DEF ClockInv
    <3>3. Spent \in 0 .. Longest
      BY <2>1, SpentIs
    <3>4. ~(now >= writeDue)
      BY <1>0, <3>1, <3>2, <3>3
    <3> QED BY <2>4, <3>4, Zenon DEF Answers
  <2> QED BY <1>3, <2>3, <2>4, WorksIs
<1>4. CASE ReceivePut \/ ReceiveGet
  BY <1>2, <1>4, ReceiveIs DEF AnswersInTime
<1>5. CASE Start
  <2>1. pc = "idle" /\ reply' = reply
    BY <1>5 DEF Start, ProcessInv, Started, handler
  <2>2. reply = NoReply
    BY <2>1 DEF RequestInv
  <2> QED BY <1>2, <2>1, <2>2 DEF AnswersInTime
<1>6. CASE Tick \/ (Others /\ ~Start)
  <2>1. UNCHANGED <<settings, limits, body>> /\ reply' = reply
    BY <1>6, OthersAre, TickIs
  <2>2. Longest' = Longest /\ ReadEnds' = ReadEnds
    BY <2>1, SameRequest
  <2> QED BY <1>1, <2>1, <2>2 DEF AnswersInTime
<1> QED BY <1>3, <1>4, <1>5, <1>6, ActionsAre DEF Others

LEMMA ClockStep ==
    ASSUME TypeOK, ProcessInv, RequestInv, ClockInv, [Next]_vars
    PROVE  ClockInv'
<1> DEFINE Writes == Begun /\ limits.write > 0 => writeDue = began + limits.write
           Waits == ReadEnds /\ pc \in Waiting =>
                         now <= began + Spent /\ due <= began + Spent
           Ended == ReadEnds /\ pc = "done" => due <= began + Longest + Poll
           Writing == writer = "writing" => writerDue <= now + limits.s3
<1>0. /\ now \in Int /\ writeDue \in Int /\ limits.write \in Int
      /\ due \in Int /\ writerDue \in Int /\ limits.s3 \in Int /\ began \in Int
  BY TimeAssumption DEF TypeOK
<1>1. AnswersInTime'
  BY AnswersStep
<1>2. Writes /\ Waits /\ Ended /\ Writing
  BY DEF ClockInv
<1>3. ASSUME Writes', Waits', Ended', Writing'
      PROVE  ClockInv'
  BY <1>1, <1>3 DEF ClockInv
<1>4. CASE Works
  <2>1. /\ UNCHANGED <<settings, limits, body, began, now, writeDue>>
        /\ pc \in Waiting
    BY <1>4, WorksIs
  <2>2. Longest' = Longest /\ ReadEnds' = ReadEnds
    BY <2>1, SameRequest
  <2>3. Writes'
    BY <1>2, <2>1 DEF Begun, Waiting
  <2>4. ASSUME ReadEnds
        PROVE  now <= began + Spent
    BY <1>2, <2>1, <2>4
  <2>5. Waits'
    BY <1>0, <1>4, <2>1, <2>2, <2>4, SecondWait
  <2>6. Ended'
    <3> SUFFICES ASSUME ReadEnds, pc' = "done"
                 PROVE  due' <= began + Longest + Poll
      BY <2>1, <2>2 DEF Poll
    <3>1. due' = now + Poll
      BY <1>4, WorksIs DEF Answers, WaitsAgain
    <3>2. Spent \in 0 .. Longest /\ Longest \in Nat
      BY <2>1, SpentIs, LongestIs
    <3> QED BY <1>0, <2>4, <3>1, <3>2 DEF Poll
  <2>7. Writing'
    BY <1>0, <1>2, <1>4, <2>1, WorksIs DEF StartsWriter
  <2> HIDE DEF Writes, Waits, Ended, Writing
  <2> QED BY <1>3, <2>3, <2>5, <2>6, <2>7
<1>5. CASE ReceivePut \/ ReceiveGet
  <2>1. Writes'
    BY <1>5, ReceiveIs
  <2>2. Waits'
    BY <1>0, <1>5, ReceiveIs
  <2>3. Ended' /\ Writing'
    BY <1>2, <1>5, ReceiveIs
  <2> HIDE DEF Writes, Waits, Ended, Writing
  <2> QED BY <1>3, <2>1, <2>2, <2>3
<1>6. CASE Tick
  <2>1. Spent' = Spent /\ ReadEnds' = ReadEnds /\ Longest' = Longest
    BY <1>6, TickIs, SameRequest
  <2>2. Writes'
    BY <1>2, <1>6, TickIs DEF Begun
  <2>3. Waits'
    <3> SUFFICES ASSUME ReadEnds, pc \in Waiting
                 PROVE  now + 1 <= began + Spent /\ due <= began + Spent
      BY <1>6, <2>1, TickIs
    <3>1. due <= began + Spent /\ Spent \in Int
      BY <1>2, SpentIs
    <3> QED BY <1>0, <1>6, <3>1, TickIs
  <2>4. Ended'
    BY <1>2, <1>6, <2>1, TickIs DEF Poll
  <2>5. Writing'
    BY <1>0, <1>2, <1>6, TickIs
  <2> HIDE DEF Writes, Waits, Ended, Writing
  <2> QED BY <1>3, <2>2, <2>3, <2>4, <2>5
<1>7. CASE Start
  <2>1. pc' = "idle" /\ writer' = "none"
    BY <1>7 DEF Start, ProcessInv, Started, handler, fallback
  <2> QED BY <1>3, <2>1 DEF Waiting, Begun
<1>8. CASE Others /\ ~Start
  <2>1. /\ UNCHANGED <<settings, limits, body, began, now, due, writeDue>>
        /\ UNCHANGED writerDue /\ Begun' = Begun
        /\ pc' = pc \/ pc' \in {"accepted", "closed", "killed"}
        /\ writer' = writer \/ writer' \in {"ended", "killed"}
    BY <1>8, OthersAre
  <2>2. /\ ReadEnds' = ReadEnds /\ Longest' = Longest
        /\ pc' = pc => Spent' = Spent
    BY <2>1, SameRequest
  <2>3. Writes' /\ Writing'
    BY <1>2, <2>1
  <2>4. Waits' /\ Ended'
    BY <1>2, <2>1, <2>2 DEF Waiting, Poll
  <2> HIDE DEF Writes, Waits, Ended, Writing
  <2> QED BY <1>3, <2>3, <2>4
<1> QED BY <1>4, <1>5, <1>6, <1>7, <1>8, ActionsAre DEF Others

-----------------------------------------------------------------------------
(* Stop                                                                    *)

(* Shutdown does not give up on a quick request.                           *)
LEMMA ShutdownSeesTheQuick ==
    ASSUME TypeOK, ProcessInv, RequestInv, ClockInv, StopInv,
           IsQuick, main = "shutdownHTTP"
    PROVE  /\ pc \in Waiting \cup {"done"}
           /\ now < shutdownDue
<1>0. /\ now \in Int /\ shutdownDue \in Int /\ due \in Int /\ began \in Int
      /\ Longest \in Nat
  BY TimeAssumption, LongestIs DEF TypeOK
<1>1. pc \in Waiting \cup {"done"}
  BY DEF IsQuick, Begun, TypeOK, ProcessInv, Waiting
<1>2. began + Longest + 1 < shutdownDue /\ ReadEnds
  BY DEF IsQuick, Poll
<1>3. CASE pc \in Waiting
  <2>1. now <= began + Spent /\ Spent \in 0 .. Longest
    BY <1>2, <1>3, SpentIs DEF ClockInv
  <2> QED BY <1>0, <1>1, <1>2, <2>1
<1>4. CASE pc = "done"
  <2>1. now <= shutdownDue - 5 \/ now <= due
    BY <1>4 DEF StopInv
  <2>2. due <= began + Longest + 1
    BY <1>2, <1>4 DEF ClockInv, Poll
  <2> QED BY <1>0, <1>1, <1>2, <2>1, <2>2
<1> QED BY <1>1, <1>3, <1>4

LEMMA StopStep ==
    ASSUME TypeOK, ProcessInv, RequestInv, ClockInv, StopInv, [Next]_vars
    PROVE  StopInv'
<1> DEFINE Write == Positive(limits.s3)
           NoErrors == main \in {"init", "running", "shutdownHTTP"} => stopErrs = {}
           Looks == main = "shutdownHTTP" /\ pc = "done" =>
                        now <= shutdownDue - 5 \/ now <= due
           Silent == AfterShutdown /\ pc = "accepted" => now >= shutdownDue
           Rests == AfterShutdown /\ IsQuick =>
                        pc = "done" /\ stopErrs \subseteq {"metrics"}
           Drains == main = "wait" /\ IsQuick =>
                         /\ now <= waitDue - 10 + Write
                         /\ writer = "writing" => writerDue <= waitDue - 10 + limits.s3
<1>0. /\ now \in Int /\ shutdownDue \in Int /\ due \in Int /\ writerDue \in Int
      /\ waitDue \in Int /\ began \in Int
      /\ limits.s3 \in Int /\ Write \in Nat /\ limits.s3 <= Write
      /\ Longest \in Nat
  BY TimeAssumption, LongestIs DEF TypeOK
<1>1. /\ NoErrors /\ Looks /\ Silent /\ Rests /\ Drains
      /\ StopSparesTheQuick
  BY DEF StopInv
<1>2. ASSUME NoErrors', Looks', Silent', Rests', Drains', StopSparesTheQuick'
      PROVE  StopInv'
  BY <1>2 DEF StopInv
<1>3. ASSUME main' \in {"init", "refused", "running"}, stopErrs' = {}
      PROVE  StopInv'
  BY <1>2, <1>3 DEF StopSparesTheQuick, AfterShutdown
<1>4. ASSUME main' \in {"shutdownMetrics", "wait"}, Silent', Rests', Drains'
      PROVE  StopInv'
  BY <1>2, <1>4 DEF StopSparesTheQuick
<1>5. CASE Start
  BY <1>1, <1>3, <1>5 DEF Start
<1>6. CASE Accept
  BY <1>1, <1>3, <1>6 DEF Accept, stop
<1>7. CASE ReceivePut \/ ReceiveGet
  <2>1. /\ UNCHANGED <<now, main, stopErrs, shutdownDue>>
        /\ Alive /\ pc = "accepted" /\ pc' \in {"body", "retrieve"}
        /\ began' = now /\ Longest' \in Nat
    BY <1>7, ReceiveIs
  <2>2. ASSUME AfterShutdown
        PROVE  ~IsQuick'
    <3>1. now >= shutdownDue
      BY <1>1, <2>1, <2>2
    <3>2. IsQuick' => began' + Longest' + 1 < shutdownDue'
      BY DEF IsQuick, Poll
    <3>3. began' = now /\ shutdownDue' = shutdownDue
      BY <2>1
    <3>4. \A most \in Nat: ~(now + most + 1 < shutdownDue)
      BY <1>0, <3>1
    <3>5. ~(began' + Longest' + 1 < shutdownDue')
      BY <2>1, <3>3, <3>4
    <3> QED BY <3>2, <3>5
  <2>3. NoErrors' /\ Looks' /\ Silent'
    BY <1>1, <2>1
  <2>4. Rests' /\ Drains'
    BY <2>1, <2>2 DEF AfterShutdown
  <2>5. StopSparesTheQuick'
    BY <2>1 DEF StopSparesTheQuick, Alive
  <2> HIDE DEF NoErrors, Looks, Silent, Rests, Drains
  <2> QED BY <1>2, <2>3, <2>4, <2>5
<1>8. CASE Works
  <2>1. /\ UNCHANGED <<settings, limits, body, began, now, main>>
        /\ UNCHANGED <<shutdownDue, waitDue, stopErrs>>
        /\ Alive /\ pc \in Waiting
        /\ pc' \in {"submit", "fallback", "done"}
        /\ pc' = "done" => due' = now + Poll
    BY <1>8, WorksIs DEF Answers, WaitsAgain
  <2>2. IsQuick' = IsQuick
    BY <2>1, SameQuick DEF Begun, Waiting
  <2>3. AfterShutdown => ~IsQuick
    BY <1>1, <2>1 DEF Waiting
  <2>4. NoErrors' /\ Silent'
    BY <1>1, <2>1
  <2>5. Looks'
    BY <1>0, <2>1 DEF Poll
  <2>6. Rests' /\ Drains'
    BY <2>1, <2>2, <2>3 DEF AfterShutdown
  <2>7. StopSparesTheQuick'
    BY <2>1 DEF StopSparesTheQuick, Alive
  <2> HIDE DEF NoErrors, Looks, Silent, Rests, Drains
  <2> QED BY <1>2, <2>4, <2>5, <2>6, <2>7
<1>9. CASE WriterEnds
  <2>1. /\ UNCHANGED <<settings, limits, body, began, now, main, pc, due>>
        /\ UNCHANGED <<shutdownDue, waitDue, stopErrs>>
        /\ Alive /\ writer' = "ended"
    BY <1>9 DEF WriterEnds, process, stop, handler
  <2>2. IsQuick' = IsQuick
    BY <2>1, SameQuick DEF Begun
  <2>3. NoErrors' /\ Looks' /\ Silent' /\ Rests' /\ Drains'
    BY <1>1, <2>1, <2>2 DEF AfterShutdown
  <2>4. StopSparesTheQuick'
    BY <2>1 DEF StopSparesTheQuick, Alive
  <2> HIDE DEF NoErrors, Looks, Silent, Rests, Drains
  <2> QED BY <1>2, <2>3, <2>4
<1>10. CASE Interrupt
  <2>1. /\ now' = now /\ stopErrs' = stopErrs /\ main = "running"
        /\ main' = "shutdownHTTP" /\ shutdownDue' = now + 5
    BY <1>10 DEF Interrupt
  <2>2. NoErrors' /\ Looks'
    BY <1>0, <1>1, <2>1
  <2> QED BY <1>2, <2>1, <2>2 DEF StopSparesTheQuick, AfterShutdown
<1>11. CASE ShutdownEnds
  <2>1. /\ UNCHANGED <<settings, limits, body, began, now, shutdownDue>>
        /\ UNCHANGED <<writer, writerDue>> /\ main = "shutdownHTTP"
        /\ main' \in {"shutdownMetrics", "wait"}
        /\ main' = "wait" => waitDue' = now + 10
    BY <1>11 DEF ShutdownEnds, BeginWait, process, fallback
  <2>2. \/ /\ pc \notin Waiting /\ stopErrs' = stopErrs
           /\ pc' = IF pc = "accepted" THEN "closed" ELSE pc
        \/ now >= shutdownDue /\ pc' = pc
    BY <1>11 DEF ShutdownEnds
  <2>3. IsQuick' = IsQuick
    BY <1>11, <2>1, OthersAre, SameQuick DEF Others
  <2>4. Silent'
    BY <2>1, <2>2
  <2>5. Rests'
    <3> SUFFICES ASSUME IsQuick
                 PROVE  pc' = "done" /\ stopErrs' = {}
      BY <2>3
    <3>1. pc \in Waiting \cup {"done"} /\ now < shutdownDue
      BY <2>1, ShutdownSeesTheQuick
    <3>2. ~(now >= shutdownDue)
      BY <1>0, <3>1
    <3> QED BY <1>1, <2>1, <2>2, <3>1, <3>2
  <2>6. Drains'
    <3>1. writer = "writing" => writerDue <= now + limits.s3
      BY DEF ClockInv
    <3> QED BY <1>0, <2>1, <3>1
  <2> HIDE DEF NoErrors, Looks, Silent, Rests, Drains
  <2> QED BY <1>4, <2>1, <2>4, <2>5, <2>6
<1>12. CASE MetricsShutdownEnds
  <2>1. /\ UNCHANGED <<settings, limits, body, began, now, shutdownDue, pc>>
        /\ UNCHANGED <<writer, writerDue>> /\ main = "shutdownMetrics"
        /\ main' = "wait" /\ waitDue' = now + 10
        /\ stopErrs' = stopErrs \/ stopErrs' = stopErrs \cup {"metrics"}
    BY <1>12 DEF MetricsShutdownEnds, BeginWait, process, handler, fallback
  <2>2. IsQuick' = IsQuick
    BY <2>1, SameQuick DEF Begun
  <2>3. Silent' /\ Rests'
    BY <1>1, <2>1, <2>2 DEF AfterShutdown
  <2>4. Drains'
    <3>1. writer = "writing" => writerDue <= now + limits.s3
      BY DEF ClockInv
    <3> QED BY <1>0, <2>1, <3>1
  <2> HIDE DEF NoErrors, Looks, Silent, Rests, Drains
  <2> QED BY <1>4, <2>1, <2>3, <2>4
<1>13. CASE WaitEnds
  <2>1. /\ UNCHANGED <<settings, limits, body, began, now, shutdownDue>>
        /\ main = "wait" /\ main' = "exited"
        /\ pc' = IF pc \in Waiting THEN "killed" ELSE pc
        /\ writer' = IF writer = "writing" THEN "killed" ELSE writer
        /\ (writer # "writing" /\ stopErrs' = stopErrs) \/ now >= waitDue
    BY <1>13 DEF WaitEnds, process
  <2>2. IsQuick' = IsQuick
    BY <1>13, <2>1, OthersAre, SameQuick DEF Others
  <2>3. ASSUME IsQuick
        PROVE  pc' = "done" /\ writer' # "killed" /\ stopErrs' \subseteq {"metrics"}
    <3>1. limits.s3 < 10 /\ Write < 10
      BY <1>0, <2>3 DEF IsQuick, Positive
    <3>2. now < waitDue
      BY <1>0, <1>1, <2>1, <2>3, <3>1
    <3>3. ~(now >= waitDue)
      BY <1>0, <3>2
    <3>4. pc = "done" /\ stopErrs \subseteq {"metrics"}
      BY <1>1, <2>1, <2>3 DEF AfterShutdown
    <3>5. writer # "killed"
      BY <2>1 DEF ProcessInv
    <3> QED BY <2>1, <3>3, <3>4, <3>5 DEF Waiting
  <2>4. StopSparesTheQuick'
    BY <2>2, <2>3 DEF StopSparesTheQuick
  <2> QED BY <1>2, <2>1, <2>4 DEF AfterShutdown
<1>14. CASE Tick
  <2>1. /\ UNCHANGED <<settings, limits, body, began, shutdownDue, waitDue>>
        /\ UNCHANGED <<main, stopErrs, pc, due, writer, writerDue>>
        /\ now' = now + 1 /\ Alive
        /\ writer = "writing" => now + 1 <= writerDue
        /\ main = "shutdownHTTP" /\ pc = "done" => now + 1 <= due
        /\ main = "wait" => writer = "writing"
    BY <1>14, TickIs
  <2>2. IsQuick' = IsQuick
    BY <2>1, SameQuick DEF Begun
  <2>3. NoErrors' /\ Looks' /\ Rests'
    BY <1>1, <2>1, <2>2 DEF AfterShutdown
  <2>4. Silent'
    BY <1>0, <1>1, <2>1 DEF AfterShutdown
  <2>5. Drains'
    <3> SUFFICES ASSUME main = "wait", IsQuick
                 PROVE  /\ now + 1 <= waitDue - 10 + Write
                        /\ writerDue <= waitDue - 10 + limits.s3
      BY <2>1, <2>2
    <3> QED BY <1>0, <1>1, <2>1
  <2>6. StopSparesTheQuick'
    BY <2>1 DEF StopSparesTheQuick, Alive
  <2> HIDE DEF NoErrors, Looks, Silent, Rests, Drains
  <2> QED BY <1>2, <2>3, <2>4, <2>5, <2>6
<1>15. CASE UNCHANGED vars
  <2>1. /\ UNCHANGED <<settings, limits, body, began, now, main, pc, due>>
        /\ UNCHANGED <<shutdownDue, waitDue, stopErrs, writer, writerDue>>
    BY <1>15 DEF vars, process, stop, handler, fallback
  <2>2. IsQuick' = IsQuick
    BY <2>1, SameQuick DEF Begun
  <2> QED BY <1>1, <1>2, <2>1, <2>2 DEF StopSparesTheQuick, AfterShutdown
<1> QED BY <1>5, <1>6, <1>7, <1>8, <1>9, <1>10, <1>11, <1>12, <1>13, <1>14,
           <1>15, ActionsAre DEF Others

-----------------------------------------------------------------------------
(* Theorems                                                                *)

LEMMA InvInit == Init => IInv
<1> SUFFICES ASSUME Init
             PROVE  IInv
  OBVIOUS
<1>1. TypeOK
  BY TypeInit
<1>2. /\ main = "init" /\ pc = "idle" /\ body = -1 /\ stopErrs = {}
      /\ reply = NoReply /\ writer = "none"
  BY DEF Init
<1>3. NoReply.status = 0 /\ ~NoReply.late
  BY DEF NoReply
<1> QED BY <1>1, <1>2, <1>3
        DEF IInv, ProcessInv, Started, RequestInv, ClockInv,
            AnswersInTime, StopInv, StopSparesTheQuick, AfterShutdown,
            Waiting, Begun

LEMMA InvStep == IInv /\ [Next]_vars => IInv'
BY TypeStep, ProcessStep, RequestStep, ClockStep, StopStep DEF IInv

(* The inductive invariant holds whatever the settings.                    *)
THEOREM Invariance == Spec => []IInv
BY InvInit, InvStep, PTL DEF Spec

(* Every variable keeps its type: in particular the maximum that is        *)
(* enforced fits an int64, and a reply is one of the codes the handlers    *)
(* know.                                                                   *)
THEOREM TypeCorrect == Spec => []TypeOK
<1>1. IInv => TypeOK
  BY DEF IInv
<1> QED BY <1>1, Invariance, PTL

LEMMA MaxAsWritten ==
    ASSUME TypeOK
    PROVE  /\ Written \in Int
           /\ Written >= -Word => GetMaxBlobSize(settings) <= Written
           /\ Written \in -Word .. Word - 1 => GetMaxBlobSize(settings) = Written
<1>1. settings.size \in Sizes
  BY SettingsFields DEF TypeOK
<1>2. CASE settings.size.form = "unset"
  BY <1>2, MegabytesFit DEF Written, GetMaxBlobSize
<1>3. CASE settings.size.form # "unset"
  <2>1. /\ Written = settings.size.num * Multiplier(settings.size.unit)
        /\ Written \in Int
    BY <1>1, <1>3, Products DEF Written
  <2>2. GetMaxBlobSize(settings) = Wrap(Written)
    BY <1>3, <2>1 DEF GetMaxBlobSize, parseByteSize
  <2> QED BY <2>1, <2>2, WrapShrinks, WrapKeeps
<1> QED BY <1>2, <1>3

(* parseByteSize and MaxBytesReader: down to a size of -2^63 no body above *)
(* what the operator wrote is submitted although the product may overflow, *)
(* and none within it is answered 413 if it does not.                      *)
THEOREM MaximumIsAsWritten == Spec => []SizeAsWritten
<1>1. IInv => SizeAsWritten
  <2> SUFFICES ASSUME IInv
               PROVE  SizeAsWritten
    OBVIOUS
  <2>1. TypeOK /\ ProcessInv /\ RequestInv
    BY DEF IInv
  <2>2. body \in Int /\ body >= -1
    BY <2>1, BodiesAssumption DEF TypeOK
  <2>3. pc # "idle" => limits.maxBlobSize = GetMaxBlobSize(settings)
    BY <2>1 DEF ProcessInv, Effective
  <2>4. reply.status # 0 => pc # "idle"
    BY <2>1 DEF RequestInv, NoReply
  <2>5. GetMaxBlobSize(settings) \in Int /\ Written \in Int
    BY <2>1, MaxSizeFits, MaxAsWritten, WordAssumption DEF TypeOK
  <2>6. ASSUME Written >= -Word, body >= 0, pc = "submit" \/ reply.status = 200
        PROVE  body <= Written
    <3>1. body <= limits.maxBlobSize
      BY <2>1, <2>2, <2>6 DEF RequestInv
    <3>2. pc # "idle"
      BY <2>4, <2>6
    <3>3. GetMaxBlobSize(settings) <= Written
      BY <2>1, <2>6, MaxAsWritten
    <3> QED BY <2>2, <2>3, <2>5, <3>1, <3>2, <3>3
  <2>7. ASSUME reply.status = 413, Written \in -Word .. Word - 1
        PROVE  body > Written
    <3>1. body > limits.maxBlobSize
      BY <2>1, <2>7 DEF RequestInv
    <3>2. limits.maxBlobSize = Written
      BY <2>1, <2>3, <2>4, <2>7, MaxAsWritten
    <3> QED BY <3>1, <3>2
  <2> QED BY <2>6, <2>7 DEF SizeAsWritten
<1> QED BY <1>1, Invariance, PTL

(* A write timeout that exceeds what the handler may wait for is enough:   *)
(* the status reaches the client.                                          *)
THEOREM TimeToAnswer == Spec => []AnswersInTime
<1>1. IInv => AnswersInTime
  BY DEF IInv, ClockInv
<1> QED BY <1>1, Invariance, PTL

(* A request that needs less than what Shutdown's five seconds leave it,   *)
(* and a writer that needs less than the ten of the WaitGroup, are waited  *)
(* for to the end: also a request that begins while Shutdown waits.        *)
THEOREM StopWaitsForTheQuick == Spec => []StopSparesTheQuick
<1>1. IInv => StopSparesTheQuick
  BY DEF IInv, StopInv
<1> QED BY <1>1, Invariance, PTL

-----------------------------------------------------------------------------
(* Calls                                                                   *)

LEMMA TextFields ==
    ASSUME TypeOK
    PROVE  /\ settings.submit.form \in {"unset", "unreadable", "duration"}
           /\ settings.get.form \in {"unset", "unreadable", "duration"}
           /\ settings.s3.form \in {"unset", "unreadable", "duration"}
           /\ settings.submit.secs \in Int /\ settings.get.secs \in Int
           /\ settings.s3.secs \in Int /\ settings.s3Flag.secs \in Int
BY SettingsFields DEF TypeOK, Durations

LEMMA TimeoutsAreWanted ==
    ASSUME TypeOK, ProcessInv, Started
    PROVE  /\ EnoughS3(limits.s3)
           /\ limits.submit = Wanted(settings.submit, 60)
           /\ limits.get = Wanted(settings.get, 30)
<1>1. limits = Effective(settings) /\ Validate(settings)
  BY DEF ProcessInv
<1>2. limits.submit = Wanted(settings.submit, 60)
  <2>1. settings.submit.form # "unreadable"
    BY <1>1 DEF Validate, Readable
  <2>2. limits.submit = NonZero(Or(settings.submit, 60), 60)
    BY <1>1 DEF Effective, GetSubmissionTimeout
  <2> QED BY <2>1, <2>2, TextFields DEF Wanted, Or, NonZero
<1>3. limits.get = Wanted(settings.get, 30)
  <2>1. settings.get.form # "unreadable"
    BY <1>1 DEF Validate, Readable
  <2>2. limits.get = NonZero(Or(settings.get, 30), 30)
    BY <1>1 DEF Effective, GetReadTimeout
  <2> QED BY <2>1, <2>2, TextFields DEF Wanted, Or, NonZero
<1>4. EnoughS3(limits.s3)
  <2>1. limits.s3 = NonZero(GetS3Timeout(settings), 30)
    BY <1>1 DEF Effective, NewS3Timeout
  <2>2. CASE settings.s3Flag.form = "duration"
    <3>1. S3Text = settings.s3Flag /\ GetS3Timeout(settings) = settings.s3Flag.secs
      BY <2>2 DEF S3Text, GetS3Timeout
    <3>2. Wanted(S3Text, 30) = limits.s3 /\ limits.s3 \in Int
      BY <2>1, <2>2, <3>1, TextFields DEF Wanted, NonZero
    <3>3. Readable(S3Text)
      BY <2>2, <3>1 DEF Readable
    <3> QED BY <3>2, <3>3 DEF EnoughS3
  <2>3. CASE settings.s3Flag.form # "duration" /\ Readable(settings.s3)
    <3>1. S3Text = settings.s3 /\ GetS3Timeout(settings) = Or(settings.s3, 30)
      BY <2>3 DEF S3Text, GetS3Timeout
    <3>2. Wanted(S3Text, 30) = limits.s3 /\ limits.s3 \in Int
      BY <2>1, <2>3, <3>1, TextFields DEF Wanted, NonZero, Or, Readable
    <3> QED BY <2>3, <3>1, <3>2 DEF EnoughS3
  <2>4. CASE settings.s3Flag.form # "duration" /\ ~Readable(settings.s3)
    <3>1. limits.s3 = 30
      BY <2>1, <2>4 DEF GetS3Timeout, NonZero
    <3>2. ~Readable(S3Text)
      BY <2>4 DEF S3Text
    <3> QED BY <3>1, <3>2 DEF EnoughS3
  <2> QED BY <2>2, <2>3, <2>4
<1> QED BY <1>2, <1>3, <1>4

LEMMA FreshS3 ==
    ASSUME TypeOK, NEW t, t = now + limits.s3, EnoughS3(limits.s3)
    PROVE  EnoughS3(t - now)
<1>1. t - now = limits.s3
  BY TimeAssumption DEF TypeOK
<1> QED BY <1>1

CallsFresh ==
    /\ pc # "retrieve" /\ pc' = "retrieve" =>
           due' - now >= Earlier(Wanted(settings.get, 30), 60)
    /\ pc # "fallback" /\ pc' = "fallback" => EnoughS3(due' - now)
    /\ writer = "none" /\ writer' = "writing" => EnoughS3(writerDue' - now)
    /\ pc # "submit" /\ pc' = "submit" =>
           due' - now >= Wanted(settings.submit, 60)

LEMMA CallsStep ==
    ASSUME IInv, [Next]_vars
    PROVE  CallsFresh
<1>0. TypeOK /\ ProcessInv /\ RequestInv
  BY DEF IInv
<1>1. now \in Int /\ limits.submit \in Int /\ limits.get \in Int
  BY <1>0, TimeAssumption DEF TypeOK
<1>2. CASE Works
  <2>1. Started
    BY <1>2, WorksIs DEF Alive, Started
  <2>2. EnoughS3(limits.s3) /\ limits.submit = Wanted(settings.submit, 60)
    BY <1>0, <2>1, TimeoutsAreWanted
  <2>3. pc' = "fallback" => due' = now + limits.s3
    BY <1>2, WorksIs DEF Answers, WaitsAgain
  <2>4. pc' = "submit" => due' = now + limits.submit
    BY <1>2, WorksIs DEF Answers, WaitsAgain
  <2>5. writer = "none" /\ writer' = "writing" => writerDue' = now + limits.s3
    BY <1>2, WorksIs DEF StartsWriter
  <2>6. pc' # "retrieve"
    BY <1>2, WorksIs DEF Answers, WaitsAgain
  <2>7. pc' = "fallback" => EnoughS3(due' - now)
    BY <1>0, <2>2, <2>3, FreshS3
  <2>8. writer = "none" /\ writer' = "writing" => EnoughS3(writerDue' - now)
    BY <1>0, <2>2, <2>5, FreshS3
  <2>9. pc' = "submit" => due' - now >= Wanted(settings.submit, 60)
    BY <1>1, <2>2, <2>4
  <2> QED BY <2>6, <2>7, <2>8, <2>9 DEF CallsFresh
<1>3. CASE ReceivePut \/ ReceiveGet
  <2>1. /\ Alive /\ pc' \in {"body", "retrieve"} /\ writer' = writer
        /\ pc' = "retrieve" => due' = now + Earlier(limits.get, 60)
    BY <1>0, <1>3, ReceiveIs
  <2>2. limits.get = Wanted(settings.get, 30)
    BY <1>0, <2>1, TimeoutsAreWanted DEF Alive, Started
  <2>3. Earlier(limits.get, 60) \in Int
    BY <1>1 DEF Earlier
  <2>4. pc' = "retrieve" => due' - now >= Earlier(limits.get, 60)
    BY <1>1, <2>1, <2>3
  <2> QED BY <2>1, <2>2, <2>4 DEF CallsFresh
<1>4. CASE Tick
  BY <1>0, <1>4, TickIs DEF CallsFresh
<1>5. CASE Others
  <2>1. /\ pc' = pc \/ pc' \in {"accepted", "closed", "killed"}
        /\ writer' = writer \/ writer' \in {"ended", "killed"}
    BY <1>5, OthersAre
  <2> QED BY <2>1 DEF CallsFresh
<1> QED BY <1>2, <1>3, <1>4, <1>5, ActionsAre

(* S3 is read and written with the fallback's timeout, Celestia is written *)
(* to with the submission's and read with the read timeout up to the       *)
(* store's minute, all of them counted from the call.                      *)
THEOREM CallsStartFresh == Spec => CallsHaveTime
<1>1. IInv /\ [Next]_vars =>
          [/\ pc # "retrieve" /\ pc' = "retrieve" =>
                  due' - now >= Earlier(Wanted(settings.get, 30), 60)
           /\ pc # "fallback" /\ pc' = "fallback" => EnoughS3(due' - now)
           /\ writer = "none" /\ writer' = "writing" =>
                  EnoughS3(writerDue' - now)
           /\ pc # "submit" /\ pc' = "submit" =>
                  due' - now >= Wanted(settings.submit, 60)]_vars
  BY CallsStep DEF CallsFresh
<1> QED BY <1>1, Invariance, PTL DEF Spec, CallsHaveTime

=============================================================================
