------------------------------ MODULE HttpClient ------------------------------
(***************************************************************************)
(* One call of send() of an HttpClient or an AuthorizedHttpClient of       *)
(* src/utils/api-request.ts: the token it asks for, the attempts it makes  *)
(* (an AsyncHttpCall each), the retries between them, and the server.      *)
(*                                                                         *)
(* The server may carry out a request whose answer is lost, late or never  *)
(* waited for, so the attempts it has carried out are part of the state.   *)
(*                                                                         *)
(* A promise that is settled ignores resolve() and reject(); what an       *)
(* attempt does after it has ended is therefore left out, the server's     *)
(* part excepted.                                                          *)
(***************************************************************************)
EXTENDS Integers

CONSTANTS
    MaxRetries,     \* retry.maxRetries
    BackOffFactor,  \* retry.backOffFactor, in units of time
    MaxDelay,       \* retry.maxDelayInMillis, in units of time
    RetryAfters,    \* delays that a Retry-After header may ask for
    Bodies          \* kinds of bodies that the server answers with

ASSUME HttpAssumption ==
    /\ MaxRetries \in Nat
    /\ BackOffFactor \in Nat
    /\ MaxDelay \in Nat
    /\ RetryAfters \subseteq Int
    /\ Bodies \subseteq {"regular", "multipart"}

VARIABLES
    result,         \* the promise that send() returned
    timeout,        \* does the request have a timeout?
    call,           \* the AsyncHttpCall of the last attempt, or how far it has come
    status,         \* the status of the response it is receiving
    retryAttempts,  \* retryAttempts of sendWithRetry
    retryTimer,     \* the delay waitForRetry waits for, or Off
    executed,       \* attempts that the server has carried out
    uncaught        \* has an 'error' event found no listener?

vars == <<result, timeout, call, status, retryAttempts, retryTimer,
          executed, uncaught>>

-----------------------------------------------------------------------------
(* Responses and errors. *)

Off == -1
Codes == {"ECONNRESET", "ETIMEDOUT", "EOTHER"}
Statuses == {"ok", "unavailable", "refused"}    \* 2xx, 503, any other
Errors == {"httpError", "networkTimeout", "networkError", "tokenError"}

\* What an attempt is rejected with: err.response, or else err.code; "none"
\* stands for a configuration that cannot be sent.
IoError(c) == [status |-> "none", code |-> c, retryAfter |-> 0]
StatusErrors == [status : Statuses \ {"ok"}, code : {"none"},
                 retryAfter : RetryAfters \cup {0}]

\* Mutant: the last retry is followed by one more.
Eligible_OffByOne(err) ==
    /\ retryAttempts <= MaxRetries
    /\ IF err.status # "none" THEN err.status = "unavailable"
       ELSE err.code \in {"ECONNRESET", "ETIMEDOUT"}

\* isRetryEligible(), for the configuration of defaultRetryConfig().
Eligible(err) ==
    /\ retryAttempts < MaxRetries
    /\ IF err.status # "none" THEN err.status = "unavailable"
       ELSE err.code \in {"ECONNRESET", "ETIMEDOUT"}

\* Mutant: the delay is not cut down to the maximum.
BackOffDelay_Uncapped(n) == IF n = 0 THEN 0 ELSE 2^n * BackOffFactor

\* backOffDelayMillis(): no delay before the first retry.
BackOffDelay(n) ==
    LET delay == 2^n * BackOffFactor
    IN  IF n = 0 THEN 0 ELSE IF delay \in 0 .. MaxDelay THEN delay ELSE MaxDelay

\* getRetryDelayMillis(): a Retry-After header that is malformed, in the past
\* or zero is ignored.
RetryDelay(err) ==
    IF err.retryAfter > 0 THEN err.retryAfter ELSE BackOffDelay(retryAttempts)

\* The error that send() is rejected with.
ErrorOf(err) ==
    IF err.status # "none" THEN "httpError"
    ELSE IF err.code = "ETIMEDOUT" THEN "networkTimeout" ELSE "networkError"

\* Mutant: the error is thrown although a retry has been planned.
Fails_Both(err) ==
    LET retries == Eligible(err) /\ RetryDelay(err) <= MaxDelay IN
    /\ call' = "ended"
    /\ retryTimer' = IF retries THEN RetryDelay(err) ELSE Off
    /\ result' = ErrorOf(err)
    /\ status' = "none"
    /\ UNCHANGED <<timeout, retryAttempts, executed>>

\* The attempt is rejected with err: the .catch of sendWithRetry.
Fails(err) ==
    LET retries == Eligible(err) /\ RetryDelay(err) <= MaxDelay IN
    /\ call' = "ended"
    /\ retryTimer' = IF retries THEN RetryDelay(err) ELSE Off
    /\ result' = IF retries THEN result ELSE ErrorOf(err)
    /\ status' = "none"
    /\ UNCHANGED <<timeout, retryAttempts, executed>>

InFlight == {"sent", "regular", "multipart"}

\* The attempts that have left the client.
Sent == IF call \in {"none", "authorizing"} THEN {} ELSE 0 .. retryAttempts

TypeOK ==
    /\ result \in {"none", "pending", "response"} \cup Errors
    /\ timeout \in BOOLEAN
    /\ call \in {"none", "authorizing", "ended", "stuck"} \cup InFlight
    /\ status \in Statuses \cup {"none"}
    /\ retryAttempts \in 0 .. MaxRetries
    /\ retryTimer \in {Off} \cup 0 .. MaxDelay
    /\ executed \subseteq 0 .. MaxRetries
    /\ uncaught \in BOOLEAN

Init ==
    /\ result = "none"
    /\ timeout \in BOOLEAN
    /\ call = "none"
    /\ status = "none"
    /\ retryAttempts = 0
    /\ retryTimer = Off
    /\ executed = {}
    /\ uncaught = FALSE

-----------------------------------------------------------------------------
(* send(). *)

\* HttpClient.send(): the first attempt.
Send ==
    /\ result = "none"
    /\ result' = "pending"
    /\ call' = "sent"
    /\ UNCHANGED <<timeout, status, retryAttempts, retryTimer, executed,
                   uncaught>>

\* The same, with a token or without, when the AsyncHttpCall cannot make sense of
\* the configuration: nothing is sent.
SendRejected ==
    /\ result = "none" \/ call = "authorizing"
    /\ result' = "networkError"
    /\ call' = "none"
    /\ UNCHANGED <<timeout, status, retryAttempts, retryTimer, executed,
                   uncaught>>

\* AuthorizedHttpClient.send(): getToken() comes first.
SendAuthorized ==
    /\ result = "none"
    /\ result' = "pending"
    /\ call' = "authorizing"
    /\ UNCHANGED <<timeout, status, retryAttempts, retryTimer, executed,
                   uncaught>>

\* The promise of getToken() is fulfilled; every attempt carries this token.
TokenArrives ==
    /\ call = "authorizing"
    /\ call' = "sent"
    /\ UNCHANGED <<result, timeout, status, retryAttempts, retryTimer,
                   executed, uncaught>>

\* It is rejected; no attempt is made.
TokenFails ==
    /\ call = "authorizing"
    /\ call' = "none"
    /\ result' = "tokenError"
    /\ UNCHANGED <<timeout, status, retryAttempts, retryTimer, executed,
                   uncaught>>

-----------------------------------------------------------------------------
(* The server and the network. *)

\* The server carries out a request that was sent, whether or not the client
\* still waits for it.
ServerExecutes(n) ==
    /\ n \in Sent \ executed
    /\ executed' = executed \cup {n}
    /\ UNCHANGED <<result, timeout, call, status, retryAttempts, retryTimer,
                    uncaught>>

\* The head of a response: handleResponse().  A 2xx tells of a request that
\* was carried out; an error may come before or after that.
Head(s, body) ==
    /\ call = "sent"
    /\ s = "ok" => retryAttempts \in executed
    /\ call' = body
    /\ status' = s
    /\ UNCHANGED <<result, timeout, retryAttempts, retryTimer, executed,
                   uncaught>>

\* Mutant: the status of the response is not looked at.
BodyEnds_AnyStatus ==
    /\ call \in {"regular", "multipart"}
    /\ call' = "ended"
    /\ result' = "response"
    /\ status' = "none"
    /\ UNCHANGED <<timeout, retryAttempts, retryTimer, executed, uncaught>>

\* The end of the body, or what a client takes for it: before version 13, Node
\* ends the stream of a response that was cut.  finalizeResponse().
BodyEnds ==
    /\ call \in {"regular", "multipart"}
    /\ \/ /\ status = "ok"
          /\ call' = "ended"
          /\ result' = "response"
          /\ status' = "none"
          /\ UNCHANGED <<timeout, retryAttempts, retryTimer, executed>>
       \/ /\ status # "ok"
          /\ \E err \in StatusErrors : err.status = status /\ Fails(err)
    /\ UNCHANGED uncaught

\* The stream of a regular body fails: the connection is lost (ECONNRESET) or
\* the body cannot be decompressed.
BodyFails ==
    /\ call = "regular"
    /\ \E c \in {"ECONNRESET", "EOTHER"} : Fails(IoError(c))
    /\ UNCHANGED uncaught

\* The stream or the parser of a multipart body fails.  Neither has a listener
\* for that: the attempt is not settled, and no timeout is left since the
\* connection is gone; an 'error' event without a listener is thrown.
MultipartFails ==
    /\ call = "multipart"
    /\ call' = "stuck"
    /\ uncaught' \in {uncaught, TRUE}
    /\ UNCHANGED <<result, timeout, status, retryAttempts, retryTimer,
                   executed>>

\* 'error' of the request: no connection, or a connection that breaks down.
RequestFails(c) ==
    /\ call \in InFlight
    /\ Fails(IoError(c))
    /\ UNCHANGED uncaught

\* Mutant: the request is aborted and nothing is rejected.
TimeoutFires_Silent ==
    /\ timeout
    /\ call \in InFlight
    /\ call' = "ended"
    /\ UNCHANGED <<result, timeout, status, retryAttempts, retryTimer,
                   executed, uncaught>>

\* Nothing has arrived for the time of the timeout: timeoutCallback.
TimeoutFires ==
    /\ timeout
    /\ call \in InFlight
    /\ Fails(IoError("ETIMEDOUT"))
    /\ UNCHANGED uncaught

\* waitForRetry() is over: the next attempt.
RetryFires ==
    /\ retryTimer # Off
    /\ retryTimer' = Off
    /\ retryAttempts' = retryAttempts + 1
    /\ call' = "sent"
    /\ UNCHANGED <<result, timeout, status, executed, uncaught>>

-----------------------------------------------------------------------------
Network ==
    \/ \E s \in Statuses, body \in Bodies : Head(s, body)
    \/ BodyEnds \/ BodyFails \/ MultipartFails
    \/ \E c \in Codes : RequestFails(c)
    \/ TimeoutFires

Next ==
    \/ Send \/ SendRejected \/ SendAuthorized
    \/ TokenArrives \/ TokenFails
    \/ \E n \in 0 .. MaxRetries : ServerExecutes(n)
    \/ Network
    \/ RetryFires

Spec == Init /\ [][Next]_vars

\* getToken() answers, timers run, and something happens to a request with a
\* timeout: more of the response arrives or the timeout fires.  Nothing is
\* assumed of a request without a timeout.
Fairness ==
    /\ WF_vars(TokenArrives \/ TokenFails)
    /\ WF_vars(RetryFires)
    /\ WF_vars(timeout /\ Network)

FairSpec == Spec /\ Fairness

-----------------------------------------------------------------------------
(* Properties. *)

\* A promise that is resolved tells the truth: the server has carried out the
\* very attempt that is answered, not only an earlier one that timed out.
ResponseMeansExecuted == result = "response" => retryAttempts \in executed

\* Timeouts are transient: the caller of send() hears of one only when every
\* retry has been used, since the back-off never asks for more than the
\* longest delay that sendWithRetry accepts.
TransientErrorsRetried == result = "networkTimeout" => retryAttempts = MaxRetries

\* Once the promise is settled the client is done: no attempt is in flight and
\* none is planned.
SettledMeansQuiet ==
    result \notin {"none", "pending"} => call \notin InFlight /\ retryTimer = Off

\* What the caller has been told, and the attempts that were made for it.
Outcome ==
    CASE result \in {"none", "pending"} -> "pending"
      [] result = "response" -> "response"
      [] result = "networkTimeout" -> "timeout"
      [] result \in Errors \ {"networkTimeout"} -> IF call = "none" THEN "unsent" ELSE "error"

Attempts == IF Sent = {} THEN 0 ELSE retryAttempts + 1

Request == INSTANCE AbstractRequest
               WITH MaxAttempts <- MaxRetries + 1, attempts <- Attempts, outcome <- Outcome

\* However attempts, timeouts, retries and late answers interleave, send() keeps the
\* promises of a request: nothing is attempted after the caller was told the outcome,
\* what is answered was carried out, and what failed for want of a token or of a
\* configuration was never carried out and never will be.
ImplementsRequest == Request!Spec

\* A call of send() with a timeout comes to an end, however often it is retried
\* and whatever becomes of its answers: it is settled, or an exception has left
\* the request, or the body of a multipart answer was cut.
SendEnds ==
    result = "pending" /\ timeout ~>
        result # "pending" \/ uncaught \/ call = "stuck"
=============================================================================
