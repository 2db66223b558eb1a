--------------------------- MODULE RemoteOperation ---------------------------
(***************************************************************************)
(* Long-running operations of the services, and the calls that start them  *)
(* or wait for them:                                                       *)
(*   createApp        createAndroidApp() and createIosApp() of project     *)
(*                    management: POST, then poll until done;              *)
(*   createModel      createModel(), updateModel() and publishModel() of   *)
(*                    machine learning: POST or PATCH, then read the model *)
(*                    unless the operation has ended already;              *)
(*   waitForUnlocked  Model.waitForUnlocked(): poll the operation that     *)
(*                    was active when the model was read.                  *)
(* The polls are those of BackoffPoller.  A poll is a GET whose answer was *)
(* true when the service read the operation, and may arrive later.         *)
(***************************************************************************)
EXTENDS BackoffPoller

CONSTANTS
    Methods,      \* the calls considered: a subset of AllMethods
    Operations,   \* operations that the service may start
    NoOperation

AllMethods == {"createApp", "createModel", "waitForUnlocked"}

ASSUME OperationAssumption ==
    /\ Methods \subseteq AllMethods
    /\ NoOperation \notin Operations

VARIABLES
    method,     \* the call
    phase,      \* how far it has come
    request,    \* the request in flight, with what the service has answered
    operation,  \* the operations of the service
    awaited,    \* the operation that the call has been told of
    reason      \* why the poller's promise is rejected

opVars == <<method, phase, request, operation, awaited, reason>>
allVars == <<vars, opVars>>

-----------------------------------------------------------------------------
Done == {"succeeded", "failed", "empty"}
OperationState == {"none", "running"} \cup Done
Ended == {"result", "current", "operation", "request", "answer", "deadline", "unlocked"}

NoRequest == [st |-> "none", op |-> NoOperation, seen |-> "none"]
SentRequest == [NoRequest EXCEPT !.st = "sent"]
InFlight == request.st \in {"sent", "executed"}

OperationTypeOK ==
    /\ TypeOK
    /\ method \in Methods
    /\ phase \in {"idle", "starting", "reading", "polling"} \cup Ended
    /\ request \in [st : {"none", "sent", "executed"},
                    op : Operations \cup {NoOperation}, seen : OperationState]
    /\ operation \in [Operations -> OperationState]
    /\ awaited \in Operations \cup {NoOperation}
    /\ reason \in {"none", "operation", "request"}

OperationInit ==
    /\ Init
    /\ method \in Methods
    /\ phase = "idle"
    /\ request = NoRequest
    /\ reason = "none"
    \* A Model was read with activeOperations, or without.
    /\ IF method = "waitForUnlocked"
       THEN /\ awaited \in Operations \cup {NoOperation}
            /\ operation \in [Operations -> {"none", "running"}]
            /\ \A o \in Operations : operation[o] = "running" <=> o = awaited
       ELSE /\ awaited = NoOperation
            /\ operation = [o \in Operations |-> "none"]

-----------------------------------------------------------------------------
(* The service and the network. *)

\* A request that starts an operation is carried out: once, or again when the
\* HTTP client has lost the answer and sends the same POST a second time.
ServiceStarts(o) ==
    /\ phase = "starting" /\ InFlight
    /\ operation[o] = "none"
    /\ \E s \in {"running"} \cup Done :
           /\ operation' = [operation EXCEPT ![o] = s]
           /\ request' = [st |-> "executed", op |-> o, seen |-> s]
    /\ UNCHANGED <<vars, method, phase, awaited, reason>>

\* A running operation ends, whatever its caller does.
ServiceFinishes(o) ==
    /\ operation[o] = "running"
    /\ \E s \in Done : operation' = [operation EXCEPT ![o] = s]
    /\ UNCHANGED <<vars, method, phase, request, awaited, reason>>

\* A GET is carried out; the answer is what the operation is at that time.
ServiceReads ==
    /\ phase # "starting" /\ InFlight
    /\ request' = [st |-> "executed", op |-> awaited, seen |-> operation[awaited]]
    /\ UNCHANGED <<vars, method, phase, operation, awaited, reason>>

-----------------------------------------------------------------------------
(* The calls. *)

\* Settles the call.
End(how) == phase' = how /\ UNCHANGED <<method, operation, reason>>

\* createAndroidApp(), createIosApp(): the POST of an app.
CreateApp ==
    /\ method = "createApp" /\ phase = "idle"
    /\ phase' = "starting"
    /\ request' = SentRequest
    /\ UNCHANGED <<vars, method, operation, awaited, reason>>

\* The POST or PATCH of a model, made of its (signed) content.
ModelRequest == request' = SentRequest

\* signUrlIfPresent(): signing needs a request of its own, which may fail.
SignUrlFails == End("request") /\ UNCHANGED request

\* createModel(), updateModel(), publishModel(), unpublishModel().
CreateModel ==
    /\ method = "createModel" /\ phase = "idle"
    /\ \/ /\ phase' = "starting"
          /\ ModelRequest
          /\ UNCHANGED <<method, operation, reason>>
       \/ SignUrlFails
    /\ UNCHANGED <<vars, awaited>>

\* pollRemoteOperationWithExponentialBackoff(), pollOperationWithExponential-
\* Backoff(): a poller is made and polls at once.
StartPolling(o) ==
    /\ phase' = "polling"
    /\ awaited' = o
    /\ Poll
    /\ request' = SentRequest
    /\ UNCHANGED <<method, operation, reason>>

\* The same when the credential throws, which the callback of createApp lets
\* through; that of waitForUnlocked starts with a promise.
StartPollingThrows(o) ==
    /\ phase' = "polling"
    /\ awaited' = o
    /\ PollThrows
    /\ request' = NoRequest
    /\ UNCHANGED <<method, operation, reason>>

\* handleOperation(op, {wait}): an operation that has ended gives its result,
\* another one is polled or, without wait, its model is read, if the answer
\* names one.
HandleOperation(o, seen, wait) ==
    \/ /\ seen \in Done
       /\ awaited' = o
       /\ request' = NoRequest
       /\ End(CASE seen = "succeeded" -> "result"
                [] seen = "failed" -> "operation"
                [] seen = "empty" -> "answer")
       /\ UNCHANGED vars
    \/ seen = "running" /\ wait /\ StartPolling(o)
    \/ /\ seen = "running" /\ ~wait
       /\ awaited' = o
       /\ \/ phase' = "reading" /\ request' = SentRequest
          \/ phase' = "answer" /\ request' = NoRequest
       /\ UNCHANGED <<vars, method, operation, reason>>

\* waitForUnlocked(): waits for activeOperations[0], which was running.
WaitForUnlocked ==
    /\ method = "waitForUnlocked" /\ phase = "idle"
    /\ IF awaited = NoOperation
       THEN End("unlocked") /\ UNCHANGED <<vars, request, awaited>>
       ELSE HandleOperation(awaited, "running", TRUE)

\* The answer to the POST.  The app's operation is polled, whatever it is; an
\* answer without a name is refused.
AppOperationArrives ==
    /\ method = "createApp" /\ phase = "starting" /\ request.st = "executed"
    /\ \/ StartPolling(request.op)
       \/ StartPollingThrows(request.op)
       \/ request' = NoRequest /\ End("answer") /\ UNCHANGED <<vars, awaited>>

\* The answer to the POST or PATCH of a model.
ModelOperationArrives ==
    /\ method = "createModel" /\ phase = "starting" /\ request.st = "executed"
    /\ HandleOperation(request.op, request.seen, FALSE)

\* getModel() answers; the Model may refuse the answer (validateAndClone).
ModelArrives ==
    /\ phase = "reading" /\ request.st = "executed"
    /\ request' = NoRequest
    /\ End("current") \/ End("answer")
    /\ UNCHANGED <<vars, awaited>>

\* A request outside of the poller fails, whether or not the service has
\* carried it out: invokeRequestHandler() of project management.
AppRequestFails ==
    /\ method = "createApp" /\ phase = "starting" /\ InFlight
    /\ request' = NoRequest
    /\ End("request")
    /\ UNCHANGED <<vars, awaited>>

\* sendRequest() of machine learning.
ModelRequestFails ==
    /\ method = "createModel" /\ phase \in {"starting", "reading"} /\ InFlight
    /\ request' = NoRequest
    /\ End("request")
    /\ UNCHANGED <<vars, awaited>>

\* Mutant: an operation that has failed counts as an answer.
PollAnswered_Done ==
    /\ phase = "polling" /\ request.st = "executed"
    /\ request' = NoRequest
    /\ \/ request.seen \in {"succeeded", "failed"} /\ AnswersTruthy /\ UNCHANGED reason
       \/ request.seen \in {"running", "empty"} /\ AnswersFalsy /\ UNCHANGED reason
    /\ UNCHANGED <<method, phase, operation, awaited>>

\* The callback of the poller: an error rejects, an operation that is not done
\* is null and one that is done its response, which may be missing.
PollAnswered ==
    /\ phase = "polling" /\ request.st = "executed"
    /\ request' = NoRequest
    /\ \/ request.seen = "succeeded" /\ AnswersTruthy /\ UNCHANGED reason
       \/ request.seen \in {"running", "empty"} /\ AnswersFalsy /\ UNCHANGED reason
       \/ request.seen = "failed" /\ AnswersError /\ reason' = "operation"
    /\ UNCHANGED <<method, phase, operation, awaited>>

\* The GET of a poll fails: the poller takes that for the end.
PollRequestFails ==
    /\ phase = "polling" /\ InFlight
    /\ request' = NoRequest
    /\ AnswersError
    /\ reason' = "request"
    /\ UNCHANGED <<method, phase, operation, awaited>>

\* The timer of the next poll.
NextPoll ==
    /\ RepollFires
    /\ request' = SentRequest
    /\ UNCHANGED <<method, phase, operation, awaited, reason>>

\* The same when the credential throws.
NextPollThrows ==
    /\ method = "createApp"
    /\ RepollThrows
    /\ UNCHANGED opVars

Deadline == MasterFires /\ UNCHANGED opVars
Wait == Tick /\ UNCHANGED opVars

\* The poller's promise is rejected, and so is the call's.
PollerRejects ==
    /\ phase = "polling"
    /\ \/ promise = "failed" /\ End(reason)
       \/ promise = "deadline" /\ End("deadline")
       \/ promise = "thrown" /\ End("request")
    /\ UNCHANGED <<vars, request, awaited>>

\* It is fulfilled: an AndroidApp or IosApp is made of the response, if that
\* names the app.
AppOfResponse ==
    /\ method = "createApp" /\ phase = "polling" /\ promise = "result"
    /\ End("result") \/ End("answer")
    /\ UNCHANGED <<vars, request, awaited>>

\* The model becomes the response, if validateAndClone() takes it.
ModelOfResponse ==
    /\ method = "waitForUnlocked" /\ phase = "polling" /\ promise = "result"
    /\ End("result") \/ End("answer")
    /\ UNCHANGED <<vars, request, awaited>>

-----------------------------------------------------------------------------
Service ==
    \/ \E o \in Operations : ServiceStarts(o) \/ ServiceFinishes(o)
    \/ ServiceReads

Arrives ==
    \/ AppOperationArrives \/ ModelOperationArrives \/ ModelArrives
    \/ AppRequestFails \/ ModelRequestFails

PollerSettles == PollerRejects \/ AppOfResponse \/ ModelOfResponse

OperationNext ==
    \/ CreateApp \/ CreateModel \/ WaitForUnlocked
    \/ Service
    \/ Arrives
    \/ PollAnswered \/ PollRequestFails
    \/ NextPoll \/ NextPollThrows
    \/ Deadline \/ Wait
    \/ PollerSettles

OperationSpec == OperationInit /\ [][OperationNext]_allVars

\* The event loop runs timers and reactions and the clock advances.  A request
\* of project management has a timeout of ten seconds and so ends; nothing is
\* assumed of the others, nor of the service.
OperationFairness ==
    /\ WF_allVars(NextPoll \/ NextPollThrows)
    /\ WF_allVars(Deadline)
    /\ WF_allVars(Wait)
    /\ WF_allVars(PollerSettles)
    /\ WF_allVars(method = "createApp" /\ Arrives)

FairOperationSpec == OperationSpec /\ OperationFairness

-----------------------------------------------------------------------------
(* Properties. *)

\* The calls keep the promise of AbstractOperation: one outcome that stands, a
\* result only of an operation that has succeeded, an operation's error only of
\* one that has failed, although what a poll says may be out of date when it
\* arrives, the POST may have started two operations, and answers come after
\* the deadline (handleOperation, pollRemoteOperationWithExponentialBackoff).
Outcome ==
    IF phase \notin Ended THEN [st |-> "pending", op |-> NoOperation]
    ELSE [st |-> phase,
          op |-> IF phase \in {"result", "current", "operation"}
                 THEN awaited ELSE NoOperation]

Abstract == INSTANCE AbstractOperation WITH outcome <- Outcome

ImplementsOperation == Abstract!Spec

\* waitForUnlocked() "resolves when the model is unlocked or the maximum wait
\* time has passed" (src/index.d.ts): running out of time is not an error.
\* The code rejects.
WaitResolvesInTime ==
    method = "waitForUnlocked" /\ promise = "deadline" => phase # "deadline"

\* A call that creates an app, or waits for a model, settles, though its
\* operation may never end and the answers to the polls may never come.
CallSettles ==
    /\ (method = "createApp" /\ phase # "idle") ~> phase \in Ended
    /\ phase = "polling" ~> phase \in Ended
=============================================================================
