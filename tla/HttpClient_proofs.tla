-------------------------- MODULE HttpClient_proofs --------------------------
(* Proofs about HttpClient, for every retry configuration.                  *)
EXTENDS HttpClient, TLAPS

(* The promise, the attempt in flight and the retry that is planned agree.  *)
Standing ==
    /\ result = "none" => call = "none"
    /\ call \in {"none", "authorizing"} => retryAttempts = 0
    /\ call \in InFlight \cup {"authorizing", "stuck"} =>
           result = "pending" /\ retryTimer = Off
    /\ retryTimer # Off =>
           result = "pending" /\ call = "ended" /\ retryAttempts < MaxRetries

(* A 2xx is received for an attempt that the server has carried out, and is *)
(* forgotten when the attempt ends.                                         *)
OkMeansExecuted ==
    /\ status = "ok" => retryAttempts \in executed
    /\ call \in {"none", "authorizing", "ended", "sent"} => status = "none"

IInv == /\ TypeOK
        /\ Standing
        /\ OkMeansExecuted
        /\ ResponseMeansExecuted
        /\ TransientErrorsRetried

(* The back-off never asks for more than the longest delay.                 *)
THEOREM BackOffDelayBounded == \A n \in Nat : BackOffDelay(n) \in 0 .. MaxDelay
  BY HttpAssumption DEF HttpAssumption, BackOffDelay

(* The errors of the model. *)
LEMMA ErrorTypes ==
    /\ \A c \in Codes : IoError(c) =
           [status |-> "none", code |-> c, retryAfter |-> 0]
    /\ \A err \in StatusErrors :
           /\ err.status \in {"unavailable", "refused"}
           /\ err.retryAfter \in Int
  <1>1. \A c \in Codes : IoError(c) =
            [status |-> "none", code |-> c, retryAfter |-> 0]
    BY DEF IoError
  <1>2. ASSUME NEW err \in StatusErrors
        PROVE  err.status \in {"unavailable", "refused"} /\ err.retryAfter \in Int
    <2>1. err.status \in {"unavailable", "refused"}
      BY DEF StatusErrors, Statuses
    <2>2. err.retryAfter \in RetryAfters \cup {0}
      BY DEF StatusErrors
    <2>3. err.retryAfter \in Int
      <3>1. RetryAfters \cup {0} \subseteq Int
        BY HttpAssumption DEF HttpAssumption
      <3> QED
        BY <2>2, <3>1
    <2> QED
      BY <2>1, <2>3
  <1> QED
    BY <1>1, <1>2

(* The rejection of an attempt keeps the invariant, whatever the error: a   *)
(* timeout is retried as long as there are retries left.                    *)
LEMMA FailsIInv ==
    ASSUME IInv, call \in InFlight, UNCHANGED uncaught,
           NEW err, Fails(err), err.retryAfter \in Int,
           \/ err.status \in {"unavailable", "refused"}
           \/ err.status = "none" /\ err.retryAfter = 0
    PROVE  IInv'
  <1> USE HttpAssumption DEF HttpAssumption
  <1> DEFINE retries == Eligible(err) /\ RetryDelay(err) <= MaxDelay
  <1>1. /\ call' = "ended" /\ status' = "none"
        /\ retryTimer' = IF retries THEN RetryDelay(err) ELSE Off
        /\ result' = IF retries THEN result ELSE ErrorOf(err)
        /\ UNCHANGED <<timeout, retryAttempts, executed>>
    BY DEF Fails
  <1>2. retryAttempts \in 0 .. MaxRetries /\ result = "pending"
    BY DEF IInv, TypeOK, Standing
  <1>3. RetryDelay(err) \in Nat
    BY <1>2, BackOffDelayBounded DEF RetryDelay
  <1>4. retries => RetryDelay(err) \in 0 .. MaxDelay /\ retryAttempts < MaxRetries
    BY <1>3 DEF Eligible
  <1>5. ErrorOf(err) \in {"httpError", "networkTimeout", "networkError"}
    BY DEF ErrorOf
  <1>6. ErrorOf(err) = "networkTimeout" /\ ~retries => retryAttempts = MaxRetries
    <2> SUFFICES ASSUME ErrorOf(err) = "networkTimeout", ~retries
                 PROVE  retryAttempts = MaxRetries
      OBVIOUS
    <2>1. err.status = "none" /\ err.code = "ETIMEDOUT"
      <3>1. err.status # "none" => ErrorOf(err) = "httpError"
        BY DEF ErrorOf
      <3>2. err.status = "none" /\ err.code # "ETIMEDOUT"
                => ErrorOf(err) = "networkError"
        BY DEF ErrorOf
      <3> QED
        BY <3>1, <3>2
    <2>2. RetryDelay(err) \in 0 .. MaxDelay
      BY <1>2, <2>1, BackOffDelayBounded DEF RetryDelay
    <2>3. ~Eligible(err)
      BY <2>2
    <2> QED
      BY <1>2, <2>1, <2>3 DEF Eligible
  <1> HIDE DEF retries
  <1>7. TypeOK'
    BY <1>1, <1>2, <1>4, <1>5 DEF IInv, TypeOK, Errors
  <1>8. Standing'
    BY <1>1, <1>2, <1>4, <1>5 DEF Standing, InFlight, Off
  <1>9. OkMeansExecuted' /\ ResponseMeansExecuted' /\ TransientErrorsRetried'
    BY <1>1, <1>2, <1>5, <1>6
       DEF OkMeansExecuted, ResponseMeansExecuted, TransientErrorsRetried
  <1> QED
    BY <1>7, <1>8, <1>9 DEF IInv

(* IInv holds at first. *)
LEMMA InitIInv == Init => IInv
  <1> SUFFICES ASSUME Init PROVE IInv
    OBVIOUS
  <1>1. TypeOK
    <2>1. 0 \in 0 .. MaxRetries /\ executed \subseteq 0 .. MaxRetries
      BY HttpAssumption DEF HttpAssumption, Init
    <2> QED
      BY <2>1 DEF Init, TypeOK
  <1>2. Standing
    BY DEF Init, Standing, InFlight
  <1> QED
    BY <1>1, <1>2 DEF Init, IInv, OkMeansExecuted, ResponseMeansExecuted,
                      TransientErrorsRetried

(* Every step preserves it. *)
LEMMA NextIInv == IInv /\ [Next]_vars => IInv'
  <1> SUFFICES ASSUME IInv, [Next]_vars PROVE IInv'
    OBVIOUS
  <1> USE HttpAssumption DEF HttpAssumption
  <1>1. CASE Send
    BY <1>1 DEF Send, IInv, TypeOK, Standing, OkMeansExecuted,
                ResponseMeansExecuted, TransientErrorsRetried, InFlight, Off,
                Errors
  <1>2. CASE SendRejected
    BY <1>2 DEF SendRejected, IInv, TypeOK, Standing, OkMeansExecuted,
                ResponseMeansExecuted, TransientErrorsRetried, InFlight, Off,
                Errors
  <1>3. CASE SendAuthorized
    BY <1>3 DEF SendAuthorized, IInv, TypeOK, Standing, OkMeansExecuted,
                ResponseMeansExecuted, TransientErrorsRetried, InFlight, Off,
                Errors
  <1>4. CASE TokenArrives
    BY <1>4 DEF TokenArrives, IInv, TypeOK, Standing, OkMeansExecuted,
                ResponseMeansExecuted, TransientErrorsRetried, InFlight, Off,
                Errors
  <1>5. CASE TokenFails
    BY <1>5 DEF TokenFails, IInv, TypeOK, Standing, OkMeansExecuted,
                ResponseMeansExecuted, TransientErrorsRetried, InFlight, Off,
                Errors
  <1>6. ASSUME NEW n \in 0 .. MaxRetries, ServerExecutes(n) PROVE IInv'
    BY <1>6 DEF ServerExecutes, IInv, TypeOK, Standing, OkMeansExecuted,
                ResponseMeansExecuted, TransientErrorsRetried
  <1>7. ASSUME NEW s \in Statuses, NEW body \in Bodies, Head(s, body) PROVE IInv'
    BY <1>7 DEF Head, IInv, TypeOK, Standing, OkMeansExecuted,
                ResponseMeansExecuted, TransientErrorsRetried, InFlight
  <1>8. CASE BodyEnds
    <2>1. CASE status = "ok"
      BY <1>8, <2>1 DEF BodyEnds, IInv, TypeOK, Standing, OkMeansExecuted,
                        ResponseMeansExecuted, TransientErrorsRetried, InFlight
    <2>2. CASE status # "ok"
      <3>1. PICK err \in StatusErrors : Fails(err)
        BY <1>8, <2>2 DEF BodyEnds
      <3> QED
        BY <1>8, <3>1, ErrorTypes, FailsIInv DEF BodyEnds, InFlight
    <2> QED
      BY <2>1, <2>2
  <1>9. ASSUME NEW c \in Codes, Fails(IoError(c)), call \in InFlight,
               UNCHANGED uncaught
        PROVE  IInv'
    <2>1. IoError(c).status = "none" /\ IoError(c).retryAfter = 0
      BY ErrorTypes
    <2> QED
      BY <1>9, <2>1, FailsIInv
  <1>10. CASE BodyFails
    BY <1>9, <1>10 DEF BodyFails, Codes, InFlight
  <1>11. CASE MultipartFails
    BY <1>11 DEF MultipartFails, IInv, TypeOK, Standing, OkMeansExecuted,
                ResponseMeansExecuted, TransientErrorsRetried, InFlight
  <1>12. ASSUME NEW c \in Codes, RequestFails(c) PROVE IInv'
    BY <1>9, <1>12 DEF RequestFails
  <1>13. CASE TimeoutFires
    BY <1>9, <1>13 DEF TimeoutFires, Codes
  <1>14. CASE RetryFires
    <2>1. result = "pending" /\ retryAttempts + 1 \in 0 .. MaxRetries
      BY <1>14 DEF RetryFires, IInv, TypeOK, Standing
    <2>2. status = "none"
      BY <1>14 DEF RetryFires, IInv, Standing, OkMeansExecuted
    <2> QED
      BY <1>14, <2>1, <2>2 DEF RetryFires, IInv, TypeOK, Standing,
         OkMeansExecuted, ResponseMeansExecuted, TransientErrorsRetried,
         InFlight, Off
  <1>15. CASE UNCHANGED vars
    BY <1>15 DEF vars, IInv, TypeOK, Standing, OkMeansExecuted,
                 ResponseMeansExecuted, TransientErrorsRetried
  <1> QED
    BY <1>1, <1>2, <1>3, <1>4, <1>5, <1>6, <1>7, <1>8, <1>10, <1>11, <1>12,
       <1>13, <1>14, <1>15
       DEF Next, Network

(* IInv is an invariant. *)
LEMMA SpecIInv == Spec => []IInv
  BY InitIInv, NextIInv, PTL DEF Spec

(* Type correctness: attempts and delays stay within the configuration.     *)
THEOREM TypeCorrect == Spec => []TypeOK
  <1>1. IInv => TypeOK
    BY DEF IInv
  <1> QED
    BY <1>1, SpecIInv, PTL

(* A response tells of an attempt that the server has carried out.          *)
THEOREM ResponseMeansExecutedCorrect == Spec => []ResponseMeansExecuted
  <1>1. IInv => ResponseMeansExecuted
    BY DEF IInv
  <1> QED
    BY <1>1, SpecIInv, PTL

(* A timeout reaches the caller when all the retries are used up, and not   *)
(* before, whatever the back-off factor and the longest delay.              *)
THEOREM TransientErrorsRetriedCorrect == Spec => []TransientErrorsRetried
  <1>1. IInv => TransientErrorsRetried
    BY DEF IInv
  <1> QED
    BY <1>1, SpecIInv, PTL

(* Once the promise is settled no attempt is in flight or planned.          *)
THEOREM SettledMeansQuietCorrect == Spec => []SettledMeansQuiet
  <1>1. IInv => SettledMeansQuiet
    BY DEF IInv, Standing, SettledMeansQuiet, TypeOK
  <1> QED
    BY <1>1, SpecIInv, PTL

-----------------------------------------------------------------------------
(* The refinement of AbstractRequest.                                       *)

(* What the caller has been told, case by case.                             *)
LEMMA OutcomeCases ==
    /\ result \in {"none", "pending"} => Outcome = "pending"
    /\ result = "response" => Outcome = "response"
    /\ result = "networkTimeout" => Outcome = "timeout"
    /\ result \in {"httpError", "networkError", "tokenError"} =>
           Outcome = IF call = "none" THEN "unsent" ELSE "error"
  BY DEF Outcome, Errors

LEMMA OutcomeCasesNext ==
    /\ result' \in {"none", "pending"} => Outcome' = "pending"
    /\ result' = "response" => Outcome' = "response"
    /\ result' = "networkTimeout" => Outcome' = "timeout"
    /\ result' \in {"httpError", "networkError", "tokenError"} =>
           Outcome' = IF call' = "none" THEN "unsent" ELSE "error"
  BY DEF Outcome, Errors

(* Attempts are numbered from 0.                                            *)
LEMMA AttemptsCases ==
    ASSUME retryAttempts \in Nat
    PROVE  /\ call \in {"none", "authorizing"} => Attempts = 0 /\ Sent = {}
           /\ call \notin {"none", "authorizing"} =>
                  Attempts = retryAttempts + 1 /\ Sent = 0 .. Attempts - 1
  <1>1. 0 \in 0 .. retryAttempts
    OBVIOUS
  <1> QED
    BY <1>1 DEF Attempts, Sent

LEMMA AttemptsCasesNext ==
    ASSUME retryAttempts' \in Nat
    PROVE  /\ call' \in {"none", "authorizing"} => Attempts' = 0
           /\ call' \notin {"none", "authorizing"} => Attempts' = retryAttempts' + 1
  <1>1. 0 \in 0 .. retryAttempts'
    OBVIOUS
  <1> QED
    BY <1>1 DEF Attempts, Sent

(* An attempt that fails is planned again, which the caller does not see,   *)
(* or is the last one: a timeout only when they are used up.                *)
LEMMA FailsStep ==
    ASSUME IInv, IInv', call \in InFlight, NEW err, Fails(err)
    PROVE  Request!Fail \/ UNCHANGED Request!vars
  <1>1. /\ retryAttempts \in Nat /\ retryAttempts' = retryAttempts
        /\ call \notin {"none", "authorizing"} /\ call' = "ended" /\ executed' = executed
        /\ result = "pending" /\ MaxRetries \in Nat
    BY HttpAssumption DEF HttpAssumption, IInv, TypeOK, Standing, Fails, InFlight
  <1>2. Attempts = retryAttempts + 1 /\ Attempts' = Attempts /\ Outcome = "pending"
    BY <1>1, AttemptsCases, AttemptsCasesNext, OutcomeCases
  <1>3. result' \in {result, "httpError", "networkTimeout", "networkError"}
    BY DEF Fails, ErrorOf
  <1>4. CASE result' = result
    BY <1>1, <1>2, <1>4, OutcomeCasesNext DEF Request!vars
  <1>5. CASE result' = "networkTimeout"
    <2>1. Attempts = MaxRetries + 1
      BY <1>1, <1>2, <1>5 DEF IInv, TransientErrorsRetried
    <2> QED
      BY <1>1, <1>2, <1>5, <2>1, OutcomeCasesNext DEF Request!Fail
  <1>6. CASE result' \in {"httpError", "networkError"}
    BY <1>1, <1>2, <1>6, OutcomeCasesNext DEF Request!Fail
  <1> QED
    BY <1>3, <1>4, <1>5, <1>6

(* Every step of send() is a step of the request that it stands for, or     *)
(* leaves it as it is.                                                      *)
LEMMA RequestSteps == IInv /\ IInv' /\ [Next]_vars => [Request!Next]_(Request!vars)
  <1> SUFFICES ASSUME IInv, IInv', [Next]_vars PROVE Request!Next \/ UNCHANGED Request!vars
    OBVIOUS
  <1>1. /\ retryAttempts \in Nat /\ retryAttempts' \in Nat /\ MaxRetries \in Nat
        /\ retryAttempts \in 0 .. MaxRetries /\ retryAttempts' \in 0 .. MaxRetries
    BY HttpAssumption DEF HttpAssumption, IInv, TypeOK
  <1> USE <1>1, AttemptsCases, AttemptsCasesNext, OutcomeCases, OutcomeCasesNext
  <1>2. CASE Send
    BY <1>2 DEF Send, IInv, Standing, Request!Next, Request!Attempt
  <1>3. CASE SendRejected \/ TokenFails
    <2>1. call \in {"none", "authorizing"} /\ result \in {"none", "pending"}
      BY <1>3 DEF SendRejected, TokenFails, IInv, Standing
    <2>2. call' = "none" /\ result' \in {"networkError", "tokenError"} /\ executed' = executed
      BY <1>3 DEF SendRejected, TokenFails
    <2>3. Attempts = 0 /\ Attempts' = 0
      BY <2>1, <2>2
    <2>4. Outcome = "pending" /\ Outcome' = "unsent"
      BY <2>1, <2>2
    <2> QED
      BY <2>2, <2>3, <2>4 DEF Request!Next, Request!Fail
  <1>4. CASE SendAuthorized
    BY <1>4 DEF SendAuthorized, IInv, Standing, Request!vars
  <1>5. CASE TokenArrives
    BY <1>5 DEF TokenArrives, IInv, Standing, Request!Next, Request!Attempt
  <1>6. ASSUME NEW n \in 0 .. MaxRetries, ServerExecutes(n) PROVE Request!Next
    <2>1. n \in 0 .. Attempts - 1 /\ n \notin executed
      BY <1>6 DEF ServerExecutes
    <2>2. Attempts' = Attempts /\ Outcome' = Outcome
      BY <1>6 DEF ServerExecutes, Attempts, Sent, Outcome
    <2>3. Request!Execute(n)
      BY <1>6, <2>1, <2>2 DEF ServerExecutes, Request!Execute
    <2> QED
      BY <2>3 DEF Request!Next
  <1>7. ASSUME NEW s \in Statuses, NEW body \in Bodies, Head(s, body)
        PROVE  UNCHANGED Request!vars
    <2>1. body \notin {"none", "authorizing"}
      BY HttpAssumption DEF HttpAssumption
    <2> QED
      BY <1>7, <2>1 DEF Head, IInv, Standing, InFlight, Request!vars
  <1>8. CASE BodyEnds
    <2>1. CASE status = "ok"
      BY <1>8, <2>1 DEF BodyEnds, IInv, Standing, OkMeansExecuted, InFlight,
                        Request!Next, Request!Fulfil
    <2>2. CASE status # "ok"
      <3>1. PICK err \in StatusErrors : Fails(err)
        BY <1>8, <2>2 DEF BodyEnds
      <3> QED
        BY <1>8, <3>1, FailsStep DEF BodyEnds, InFlight, Request!Next
    <2> QED
      BY <2>1, <2>2
  <1>9. CASE BodyFails
    BY <1>9, FailsStep DEF BodyFails, InFlight, Request!Next
  <1>10. CASE MultipartFails
    BY <1>10 DEF MultipartFails, IInv, Standing, InFlight, Request!vars
  <1>11. ASSUME NEW c \in Codes, RequestFails(c)
         PROVE  Request!Next \/ UNCHANGED Request!vars
    BY <1>11, FailsStep DEF RequestFails, Request!Next
  <1>12. CASE TimeoutFires
    BY <1>12, FailsStep DEF TimeoutFires, Request!Next
  <1>13. CASE RetryFires
    <2>1. result = "pending" /\ call = "ended" /\ retryAttempts < MaxRetries
      BY <1>13 DEF RetryFires, IInv, Standing
    <2> QED
      BY <1>13, <2>1 DEF RetryFires, Request!Next, Request!Attempt
  <1>14. CASE UNCHANGED vars
    BY <1>14 DEF vars, Attempts, Sent, Outcome, Request!vars
  <1> QED
    BY <1>2, <1>3, <1>4, <1>5, <1>6, <1>7, <1>8, <1>9, <1>10, <1>11, <1>12, <1>13,
       <1>14
       DEF Next, Network

(* send() keeps the promises of a request, for every retry configuration:   *)
(* attempts within the limit and none after the outcome, an answer to what  *)
(* was carried out, and nothing carried out for want of a token.            *)
THEOREM ImplementsRequestCorrect == Spec => ImplementsRequest
  <1>1. Init => Request!Init
    <2> SUFFICES ASSUME Init PROVE Request!Init
      OBVIOUS
    <2>1. Attempts = 0 /\ Outcome = "pending"
      BY AttemptsCases, OutcomeCases DEF Init
    <2> QED
      BY <2>1 DEF Init, Request!Init
  <1> QED
    BY <1>1, RequestSteps, SpecIInv, PTL DEF Spec, ImplementsRequest, Request!Spec
=============================================================================
