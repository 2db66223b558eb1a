---------------------------- MODULE BackoffPoller ----------------------------
(***************************************************************************)
(* One ExponentialBackoffPoller of src/utils/api-request.ts: it calls a    *)
(* callback until the promise of the callback is resolved to something     *)
(* truthy, waits twice as long after every falsy answer, and gives up at a *)
(* deadline.  The clients of long-running operations (project management,  *)
(* machine learning) are built on it.                                      *)
(*                                                                         *)
(* Three things race: the answer of the callback, the timer of the next    *)
(* poll and the master timer.  An action is one callback of the event loop.*)
(***************************************************************************)
EXTENDS Integers

CONSTANTS
    InitialPollingDelay,  \* initialPollingDelayMillis, in ticks
    MaxPollingDelay,      \* maxPollingDelayMillis
    MasterTimeout,        \* masterTimeoutMillis
    TimeoutMax,           \* the longest delay setTimeout accepts (2^31 - 1 ms)
    MayThrow              \* may the callback throw instead of returning?

ASSUME PollerAssumption ==
    /\ InitialPollingDelay \in Nat
    /\ MaxPollingDelay \in Nat
    /\ MasterTimeout \in Nat
    /\ TimeoutMax \in Nat \ {0}
    /\ MayThrow \in BOOLEAN

VARIABLES
    promise,      \* the promise that poll() returned
    completed,    \* completed
    numTries,     \* numTries
    callback,     \* is a promise of the callback pending?
    masterTimer,  \* masterTimer: time left, or Off
    repollTimer,  \* repollTimer: time left, or Off
    elapsed,      \* time since poll() was called
    uncaught      \* has an exception left a timer callback?

vars == <<promise, completed, numTries, callback, masterTimer, repollTimer,
          elapsed, uncaught>>

-----------------------------------------------------------------------------
Off == -1
Settled == {"result", "failed", "deadline", "thrown"}
Promise == {"none", "pending"} \cup Settled

\* setTimeout: zero, like a delay it cannot represent, becomes one.
SetTimeout(d) == IF d \in 1 .. TimeoutMax THEN d ELSE 1

\* getPollingDelayMillis().
PollingDelay(n) ==
    LET increased == 2^n * InitialPollingDelay
    IN  IF increased < MaxPollingDelay THEN increased ELSE MaxPollingDelay

\* reject() and resolve() do nothing to a promise that is settled.
Settle(p) == promise' = IF promise = "pending" THEN p ELSE promise

MarkCompleted ==
    /\ completed' = TRUE
    /\ masterTimer' = Off
    /\ repollTimer' = Off

TypeOK ==
    /\ promise \in Promise
    /\ completed \in BOOLEAN
    /\ numTries \in Nat
    /\ callback \in {"none", "pending"}
    /\ masterTimer \in Nat \cup {Off}
    /\ repollTimer \in Nat \cup {Off}
    /\ elapsed \in Nat
    /\ uncaught \in BOOLEAN

Init ==
    /\ promise = "none"
    /\ completed = FALSE
    /\ numTries = 0
    /\ callback = "none"
    /\ masterTimer = Off
    /\ repollTimer = Off
    /\ elapsed = 0
    /\ uncaught = FALSE

-----------------------------------------------------------------------------
\* poll(callback), the first call; a second one throws and changes nothing.
Poll ==
    /\ promise = "none"
    /\ promise' = "pending"
    /\ masterTimer' = SetTimeout(MasterTimeout)
    /\ callback' = "pending"
    /\ UNCHANGED <<completed, numTries, repollTimer, elapsed, uncaught>>

\* The same when the callback throws: the executor of the promise rejects it,
\* and the poller is not marked completed.
PollThrows ==
    /\ MayThrow
    /\ promise = "none"
    /\ promise' = "thrown"
    /\ masterTimer' = SetTimeout(MasterTimeout)
    /\ UNCHANGED <<completed, numTries, callback, repollTimer, elapsed, uncaught>>

\* The promise of the callback is resolved to something truthy.
AnswersTruthy ==
    /\ callback = "pending"
    /\ callback' = "none"
    /\ IF completed
       THEN UNCHANGED <<promise, completed, masterTimer, repollTimer>>
       ELSE MarkCompleted /\ Settle("result")
    /\ UNCHANGED <<numTries, elapsed, uncaught>>

\* Mutant: the number of tries does not lengthen the delay.
AnswersFalsy_Constant ==
    /\ callback = "pending"
    /\ callback' = "none"
    /\ IF completed
       THEN UNCHANGED <<repollTimer, numTries>>
       ELSE /\ repollTimer' = SetTimeout(PollingDelay(0))
            /\ numTries' = numTries + 1
    /\ UNCHANGED <<promise, completed, masterTimer, elapsed, uncaught>>

\* Mutant: the tries are counted down.
AnswersFalsy_Down ==
    /\ callback = "pending"
    /\ callback' = "none"
    /\ IF completed
       THEN UNCHANGED <<repollTimer, numTries>>
       ELSE /\ repollTimer' = SetTimeout(PollingDelay(numTries))
            /\ numTries' = numTries - 1
    /\ UNCHANGED <<promise, completed, masterTimer, elapsed, uncaught>>

\* Mutant: a falsy answer plans the next poll without a test of `completed`.
AnswersFalsy_Late ==
    /\ callback = "pending"
    /\ callback' = "none"
    /\ repollTimer' = SetTimeout(PollingDelay(numTries))
    /\ numTries' = numTries + 1
    /\ UNCHANGED <<promise, completed, masterTimer, elapsed, uncaught>>

\* It is resolved to something falsy.
AnswersFalsy ==
    /\ callback = "pending"
    /\ callback' = "none"
    /\ IF completed
       THEN UNCHANGED <<repollTimer, numTries>>
       ELSE /\ repollTimer' = SetTimeout(PollingDelay(numTries))
            /\ numTries' = numTries + 1
    /\ UNCHANGED <<promise, completed, masterTimer, elapsed, uncaught>>

\* It is rejected.
AnswersError ==
    /\ callback = "pending"
    /\ callback' = "none"
    /\ IF completed
       THEN UNCHANGED <<promise, completed, masterTimer, repollTimer>>
       ELSE MarkCompleted /\ Settle("failed")
    /\ UNCHANGED <<numTries, elapsed, uncaught>>

\* Mutant: the next poll starts without waiting for its timer.
RepollFires_Eager ==
    /\ repollTimer # Off
    /\ callback' = "pending"
    /\ UNCHANGED <<promise, completed, numTries, masterTimer, repollTimer,
                   elapsed, uncaught>>

\* The timer of the next poll emits 'poll', which calls repoll().
RepollFires ==
    /\ repollTimer = 0
    /\ repollTimer' = Off
    /\ callback' = "pending"
    /\ UNCHANGED <<promise, completed, numTries, masterTimer, elapsed, uncaught>>

\* The same when the callback throws: no promise is there to reject.
RepollThrows ==
    /\ MayThrow
    /\ repollTimer = 0
    /\ repollTimer' = Off
    /\ uncaught' = TRUE
    /\ UNCHANGED <<promise, completed, numTries, callback, masterTimer, elapsed>>

\* Mutant: an answer that is still pending is waited for.
MasterFires_Waits ==
    /\ masterTimer = 0
    /\ IF callback = "pending"
       THEN masterTimer' = Off /\ UNCHANGED <<promise, completed, repollTimer>>
       ELSE MarkCompleted /\ Settle("deadline")
    /\ UNCHANGED <<numTries, callback, elapsed, uncaught>>

\* The deadline.  MarkCompleted cleared this timer if the poller had completed.
MasterFires ==
    /\ masterTimer = 0
    /\ MarkCompleted /\ Settle("deadline")
    /\ UNCHANGED <<numTries, callback, elapsed, uncaught>>

\* Timers run in the order in which they are due, so that a timer which is due
\* runs before the clock is looked at again.
Tick ==
    /\ masterTimer > 0
    /\ repollTimer # 0
    /\ masterTimer' = masterTimer - 1
    /\ repollTimer' = IF repollTimer = Off THEN Off ELSE repollTimer - 1
    /\ elapsed' = elapsed + 1
    /\ UNCHANGED <<promise, completed, numTries, callback, uncaught>>

-----------------------------------------------------------------------------
Answers == AnswersTruthy \/ AnswersFalsy \/ AnswersError

Next ==
    \/ Poll \/ PollThrows
    \/ Answers
    \/ RepollFires \/ RepollThrows
    \/ MasterFires
    \/ Tick

Spec == Init /\ [][Next]_vars

\* The event loop runs its timers and the clock advances.  Nothing is assumed
\* of the callback: its promise may never be settled.
Fairness ==
    /\ WF_vars(RepollFires \/ RepollThrows)
    /\ WF_vars(MasterFires)
    /\ WF_vars(Tick)

FairSpec == Spec /\ Fairness

-----------------------------------------------------------------------------
(* Properties. *)

\* A poller that has completed leaves no timer behind, whichever of an answer,
\* an error and the deadline came first and whatever answer comes late
\* (markCompleted and the tests of `completed`).
CompletedIsQuiet == completed => masterTimer = Off /\ repollTimer = Off

\* While the promise is pending the deadline is armed, and a poll is under way
\* or planned, never both: the poller neither forgets to go on nor calls the
\* callback twice at a time.
KeepsPolling ==
    /\ promise = "pending" => masterTimer # Off
    /\ promise = "pending" /\ ~uncaught =>
           (callback = "pending" <=> repollTimer = Off)

\* The delays that n falsy answers have asked for.
Waited[n \in Nat] ==
    IF n = 0 THEN 0 ELSE Waited[n - 1] + SetTimeout(PollingDelay(n - 1))

\* The endpoint is never polled faster than the back-off allows: the polls made
\* so far have taken at least the sum of the delays between them.
BackoffHonoured ==
    ~completed => Waited[numTries]
        <= elapsed + (IF repollTimer = Off THEN 0 ELSE repollTimer)
=============================================================================
