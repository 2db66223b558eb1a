------------------------ MODULE RemoteOperation_proofs ------------------------
(* Proofs about BackoffPoller, for every delay, deadline and TimeoutMax, and *)
(* about RemoteOperation, for any number of operations, any of the calls and *)
(* any delays: what holds of the poller holds of it there, and the calls     *)
(* implement AbstractOperation.                                              *)
EXTENDS RemoteOperation, WellFoundedInduction, TLAPS

-----------------------------------------------------------------------------
(* The poller. *)

(* Where the poller stands: the facts that tie the promise, the flag and    *)
(* the two timers together.                                                 *)
Standing ==
    /\ promise = "none" => ~completed /\ masterTimer = Off
    /\ promise \in {"none", "thrown"} => callback = "none" /\ repollTimer = Off
    /\ promise = "pending" => ~completed
    /\ promise \in {"result", "failed", "deadline"} => completed
    /\ callback = "pending" => repollTimer = Off

IInv == TypeOK /\ CompletedIsQuiet /\ KeepsPolling /\ Standing

(* setTimeout() waits for one tick at least, whatever delay it is given. *)
LEMMA SetTimeoutType == \A d : SetTimeout(d) \in Nat \ {0}
  BY DEF SetTimeout

(* IInv holds at first. *)
LEMMA InitIInv == Init => IInv
  <1> SUFFICES ASSUME Init PROVE IInv
    OBVIOUS
  <1>1. TypeOK
    BY DEF Init, TypeOK, Off, Promise
  <1>2. CompletedIsQuiet /\ KeepsPolling /\ Standing
    BY DEF Init, CompletedIsQuiet, KeepsPolling, Standing
  <1> QED
    BY <1>1, <1>2 DEF IInv

(* Every step preserves it. *)
LEMMA NextIInv == IInv /\ [Next]_vars => IInv'
  <1> SUFFICES ASSUME IInv, [Next]_vars PROVE IInv'
    OBVIOUS
  <1> USE DEF IInv, TypeOK, CompletedIsQuiet, KeepsPolling, Standing,
              Off, Promise, Settled
  <1>1. CASE Poll
    BY <1>1, SetTimeoutType DEF Poll
  <1>2. CASE PollThrows
    BY <1>2, SetTimeoutType DEF PollThrows
  <1>3. CASE AnswersTruthy
    BY <1>3 DEF AnswersTruthy, MarkCompleted, Settle
  <1>4. CASE AnswersFalsy
    BY <1>4, SetTimeoutType DEF AnswersFalsy
  <1>5. CASE AnswersError
    BY <1>5 DEF AnswersError, MarkCompleted, Settle
  <1>6. CASE RepollFires
    BY <1>6 DEF RepollFires
  <1>7. CASE RepollThrows
    BY <1>7 DEF RepollThrows
  <1>8. CASE MasterFires
    BY <1>8 DEF MasterFires, MarkCompleted, Settle
  <1>9. CASE Tick
    BY <1>9 DEF Tick
  <1>10. CASE UNCHANGED vars
    BY <1>10 DEF vars
  <1> QED
    BY <1>1, <1>2, <1>3, <1>4, <1>5, <1>6, <1>7, <1>8, <1>9, <1>10
       DEF Next, Answers

(* IInv is an invariant. *)
LEMMA SpecIInv == Spec => []IInv
  BY InitIInv, NextIInv, PTL DEF Spec

(* Type correctness: no timer, counter or promise leaves its range. *)
THEOREM TypeCorrect == Spec => []TypeOK
  <1>1. IInv => TypeOK
    BY DEF IInv
  <1> QED
    BY <1>1, SpecIInv, PTL

(* A poller that has completed leaves no timer behind, whatever the delays. *)
THEOREM CompletedIsQuietCorrect == Spec => []CompletedIsQuiet
  <1>1. IInv => CompletedIsQuiet
    BY DEF IInv
  <1> QED
    BY <1>1, SpecIInv, PTL

(* A pending poll always has a deadline and exactly one poll under way or   *)
(* planned.                                                                 *)
THEOREM KeepsPollingCorrect == Spec => []KeepsPolling
  <1>1. IInv => KeepsPolling
    BY DEF IInv
  <1> QED
    BY <1>1, SpecIInv, PTL

-----------------------------------------------------------------------------
(* The delays between the polls add up. *)

(* A set that holds 0, and with a number its successor, holds every number. *)
LEMMA SetInduction ==
    ASSUME NEW S, 0 \in S, \A n \in S : n \in Nat => n + 1 \in S
    PROVE  Nat \subseteq S
  <1> DEFINE R == OpToRel(<, Nat)
             T == Nat \ S
  <1>1. \A x, y \in Nat : <<x, y>> \in R <=> x < y
    BY DEF OpToRel
  <1>2. IsWellFoundedOn(R, Nat)
    BY NatLessThanWellFounded
  <1>3. SUFFICES ASSUME T # {} PROVE FALSE
    OBVIOUS
  <1>4. PICK x \in T : \A y \in T : ~(<<y, x>> \in R)
    <2> HIDE DEF R
    <2> QED
      BY <1>2, <1>3, WFMin
  <1> HIDE DEF R
  <1>5. x \in Nat /\ x \notin S /\ x # 0
    OBVIOUS
  <1>6. x - 1 \in Nat
    BY <1>5
  <1>7. <<x - 1, x>> \in R
    BY <1>1, <1>5, <1>6
  <1>8. x - 1 \in S
    BY <1>4, <1>6, <1>7
  <1>9. (x - 1) + 1 \in S
    BY <1>6, <1>8
  <1>10. (x - 1) + 1 = x
    BY <1>5
  <1> QED
    BY <1>5, <1>9, <1>10

(* The sums of the first i values of d, for i up to n. *)
SumsUpTo(g, d, n) ==
    /\ g \in [0 .. n -> Nat]
    /\ g[0] = 0
    /\ \A i \in 1 .. n : g[i] = g[i - 1] + d[i - 1]

(* There are such sums, up to any number ... *)
LEMMA SumsExist ==
    ASSUME NEW d \in [Nat -> Nat]
    PROVE  \A n \in Nat : \E g : SumsUpTo(g, d, n)
  <1> DEFINE S == {n \in Nat : \E g : SumsUpTo(g, d, n)}
  <1>1. 0 \in S
    <2> DEFINE g == [i \in 0 .. 0 |-> 0]
    <2>1. SumsUpTo(g, d, 0)
      BY DEF SumsUpTo
    <2> QED
      BY <2>1
  <1>2. ASSUME NEW n \in S PROVE n + 1 \in S
    <2>0. n \in Nat
      BY <1>2
    <2>1. PICK g : SumsUpTo(g, d, n)
      BY <1>2
    <2> DEFINE h == [i \in 0 .. n + 1 |-> IF i = n + 1 THEN g[n] + d[n] ELSE g[i]]
    <2>2. h \in [0 .. n + 1 -> Nat] /\ h[0] = 0
      <3>1. g[n] + d[n] \in Nat /\ 0 \in 0 .. n /\ 0 # n + 1
        <4>1. g[n] \in Nat /\ d[n] \in Nat
          BY <2>0, <2>1 DEF SumsUpTo
        <4> QED
          BY <2>0, <4>1
      <3>2. ASSUME NEW i \in 0 .. n + 1, i # n + 1 PROVE g[i] \in Nat
        BY <2>1, <3>2 DEF SumsUpTo
      <3>3. h[0] = g[0]
        BY <2>0, <3>1
      <3> QED
        BY <2>0, <2>1, <3>1, <3>2, <3>3 DEF SumsUpTo
    <2>3. ASSUME NEW i \in 1 .. n + 1 PROVE h[i] = h[i - 1] + d[i - 1]
      <3>1. CASE i = n + 1
        BY <3>1
      <3>2. CASE i \in 1 .. n
        BY <2>1, <3>2 DEF SumsUpTo
      <3> QED
        BY <3>1, <3>2
    <2> HIDE DEF h
    <2>4. SumsUpTo(h, d, n + 1)
      BY <2>2, <2>3 DEF SumsUpTo
    <2> QED
      BY <2>4
  <1> HIDE DEF S
  <1>3. Nat \subseteq S
    BY <1>1, <1>2, SetInduction
  <1> QED
    BY <1>3 DEF S

(* ... and they agree wherever they are defined. *)
LEMMA SumsAgree ==
    ASSUME NEW d \in [Nat -> Nat]
    PROVE  \A i, m, n \in Nat : \A g, h :
               /\ i <= m /\ SumsUpTo(g, d, m)
               /\ i <= n /\ SumsUpTo(h, d, n)
               => g[i] = h[i]
  <1> DEFINE Agree(i) == \A m, n \in Nat : \A g, h :
                            /\ i <= m /\ SumsUpTo(g, d, m)
                            /\ i <= n /\ SumsUpTo(h, d, n)
                            => g[i] = h[i]
             S == {i \in Nat : Agree(i)}
  <1>1. 0 \in S
    BY DEF SumsUpTo
  <1>2. ASSUME NEW i \in S PROVE i + 1 \in S
    <2> SUFFICES ASSUME NEW m \in Nat, NEW n \in Nat, NEW g, NEW h,
                        i + 1 <= m, SumsUpTo(g, d, m), i + 1 <= n, SumsUpTo(h, d, n)
                 PROVE  g[i + 1] = h[i + 1]
      OBVIOUS
    <2>1. g[i] = h[i]
      BY <1>2
    <2>2. i + 1 \in 1 .. m /\ i + 1 \in 1 .. n /\ (i + 1) - 1 = i
      OBVIOUS
    <2>3. g[i + 1] = g[i] + d[i] /\ h[i + 1] = h[i] + d[i]
      BY <2>2 DEF SumsUpTo
    <2> QED
      BY <2>1, <2>3
  <1> HIDE DEF S
  <1>3. Nat \subseteq S
    BY <1>1, <1>2, SetInduction
  <1> QED
    BY <1>3 DEF S

(* Waited[n] is the sum of the first n delays. *)
LEMMA WaitedSum ==
    /\ Waited[0] = 0
    /\ \A n \in Nat : /\ Waited[n] \in Nat
                      /\ Waited[n + 1] = Waited[n] + SetTimeout(PollingDelay(n))
  <1> DEFINE d == [n \in Nat |-> SetTimeout(PollingDelay(n))]
             sums(n) == CHOOSE g : SumsUpTo(g, d, n)
             f == [n \in Nat |-> sums(n)[n]]
             Recursive(w) == w = [n \in Nat |-> IF n = 0 THEN 0
                                  ELSE w[n - 1] + SetTimeout(PollingDelay(n - 1))]
  <1>1. d \in [Nat -> Nat]
    BY SetTimeoutType
  <1>2. \A n \in Nat : d[n] = SetTimeout(PollingDelay(n))
    OBVIOUS
  <1> HIDE DEF d
  <1>3. ASSUME NEW n \in Nat PROVE SumsUpTo(sums(n), d, n)
    BY <1>1, SumsExist
  <1> HIDE DEF sums
  <1>4. f[0] = 0
    BY <1>3 DEF SumsUpTo
  <1>5. ASSUME NEW n \in Nat, n # 0
        PROVE  f[n] = f[n - 1] + SetTimeout(PollingDelay(n - 1))
    <2>1. n - 1 \in Nat /\ n \in 1 .. n
      BY <1>5
    <2>2. SumsUpTo(sums(n), d, n) /\ SumsUpTo(sums(n - 1), d, n - 1)
      BY <1>3, <2>1
    <2>3. sums(n)[n - 1] = sums(n - 1)[n - 1]
      BY <1>1, <2>1, <2>2, SumsAgree
    <2>4. sums(n)[n] = sums(n)[n - 1] + d[n - 1]
      BY <2>1, <2>2 DEF SumsUpTo
    <2> QED
      BY <1>2, <2>1, <2>3, <2>4
  <1>6. ASSUME NEW n \in Nat PROVE f[n] \in Nat
    BY <1>3 DEF SumsUpTo
  <1>7. f = [n \in Nat |-> f[n]]
    OBVIOUS
  <1> HIDE DEF f
  <1>8. Recursive(f)
    BY <1>4, <1>5, <1>7
  <1>9. Recursive(Waited)
    <2>1. Waited = CHOOSE w : Recursive(w)
      BY DEF Waited
    <2> HIDE DEF Recursive
    <2> QED
      BY <1>8, <2>1
  <1> DEFINE S == {n \in Nat : Waited[n] \in Nat}
  <1>10. Waited[0] = 0
    BY <1>9
  <1>11. ASSUME NEW n \in Nat
         PROVE  Waited[n + 1] = Waited[n] + SetTimeout(PollingDelay(n))
    <2>1. n + 1 \in Nat /\ n + 1 # 0 /\ (n + 1) - 1 = n
      OBVIOUS
    <2> QED
      BY <1>9, <2>1
  <1>12. 0 \in S /\ \A n \in S : n + 1 \in S
    BY <1>10, <1>11, SetTimeoutType
  <1> HIDE DEF S
  <1>13. Nat \subseteq S
    BY <1>12, SetInduction
  <1> QED
    BY <1>10, <1>11, <1>13 DEF S

(* The endpoint is never polled faster than the back-off allows, whatever   *)
(* the delays are and however the answers and timers race.                  *)
THEOREM BackoffHonouredCorrect == Spec => []BackoffHonoured
  <1>1. Init => BackoffHonoured
    BY WaitedSum DEF Init, BackoffHonoured, Off
  <1>2. IInv /\ BackoffHonoured /\ [Next]_vars => BackoffHonoured'
    <2> SUFFICES ASSUME IInv, BackoffHonoured, [Next]_vars PROVE BackoffHonoured'
      OBVIOUS
    <2>1. numTries \in Nat /\ elapsed \in Nat /\ Waited[numTries] \in Nat
          /\ repollTimer \in Nat \cup {Off} /\ Off = -1
          /\ elapsed' \in Nat /\ repollTimer' \in Nat \cup {Off}
      BY NextIInv, WaitedSum DEF IInv, TypeOK, Off
    <2>2. CASE completed'
      BY <2>2 DEF BackoffHonoured
    <2>3. CASE AnswersFalsy /\ ~completed
      <3>1. repollTimer = Off
        BY <2>3 DEF AnswersFalsy, IInv, Standing
      <3>2. Waited[numTries] <= elapsed
        BY <2>1, <2>3, <3>1 DEF BackoffHonoured
      <3>3. /\ Waited[numTries + 1] = Waited[numTries] + SetTimeout(PollingDelay(numTries))
            /\ SetTimeout(PollingDelay(numTries)) \in Nat \ {0}
        BY <2>1, WaitedSum, SetTimeoutType
      <3>4. /\ repollTimer' = SetTimeout(PollingDelay(numTries))
            /\ numTries' = numTries + 1 /\ elapsed' = elapsed /\ repollTimer' # Off
        BY <2>1, <2>3, <3>3 DEF AnswersFalsy
      <3> QED
        BY <2>1, <3>2, <3>3, <3>4 DEF BackoffHonoured
    <2>4. CASE Tick /\ ~completed
      <3>1. /\ numTries' = numTries /\ elapsed' = elapsed + 1 /\ repollTimer # 0
            /\ repollTimer' = IF repollTimer = Off THEN Off ELSE repollTimer - 1
        BY <2>4 DEF Tick
      <3>2. CASE repollTimer = Off
        BY <2>1, <2>4, <3>1, <3>2 DEF BackoffHonoured
      <3>3. CASE repollTimer # Off
        <4>1. Waited[numTries] <= elapsed + repollTimer
          BY <2>4, <3>3 DEF BackoffHonoured
        <4>2. repollTimer' = repollTimer - 1 /\ repollTimer' # Off
          BY <2>1, <3>1, <3>3
        <4>3. Waited[numTries'] <= elapsed' + repollTimer'
          BY <2>1, <3>1, <3>3, <4>1, <4>2
        <4> QED
          BY <4>2, <4>3 DEF BackoffHonoured
      <3> QED
        BY <3>2, <3>3
    <2>5. CASE (RepollFires \/ RepollThrows) /\ ~completed
      <3>1. repollTimer = 0 /\ repollTimer' = Off /\ elapsed' = elapsed /\ numTries' = numTries
        BY <2>5 DEF RepollFires, RepollThrows
      <3> QED
        BY <2>1, <2>5, <3>1 DEF BackoffHonoured
    <2>6. CASE (Poll \/ PollThrows \/ UNCHANGED vars) /\ ~completed
      <3>1. repollTimer' = repollTimer /\ elapsed' = elapsed /\ numTries' = numTries
        BY <2>6 DEF Poll, PollThrows, vars
      <3> QED
        BY <2>6, <3>1 DEF BackoffHonoured
    <2>7. completed => completed'
      BY DEF Next, Poll, PollThrows, Answers, AnswersTruthy, AnswersFalsy, AnswersError,
         RepollFires, RepollThrows, MasterFires, Tick, MarkCompleted, vars
    <2>8. (AnswersTruthy \/ AnswersError \/ MasterFires) => completed'
      BY DEF AnswersTruthy, AnswersError, MasterFires, MarkCompleted
    <2> QED
      BY <2>2, <2>3, <2>4, <2>5, <2>6, <2>7, <2>8 DEF Next, Answers
  <1> QED
    BY <1>1, <1>2, SpecIInv, PTL DEF Spec

-----------------------------------------------------------------------------
(* The calls and the operations of the service. *)

(* What the caller's side knows of the operations: what an answer said is   *)
(* still so, unless it said that the operation was running.                 *)
Answered ==
    /\ request.st = "executed" =>
          /\ request.op \in Operations
          /\ request.seen = "running" \/ request.seen = operation[request.op]
          /\ operation[request.op] # "none"
          /\ phase # "starting" => request.op = awaited
    /\ InFlight /\ phase # "starting" =>
          awaited \in Operations /\ operation[awaited] # "none"

(* Where the call stands.                                                   *)
Progress ==
    /\ phase \in {"idle", "starting", "reading"} => promise = "none"
    /\ phase = "idle" => request.st = "none"
    /\ phase = "idle" /\ awaited \in Operations => operation[awaited] # "none"
    /\ promise # "none" \/ phase \in {"reading", "polling"} =>
          awaited \in Operations /\ operation[awaited] # "none"
    /\ promise \in {"result", "failed"} => callback = "none"

(* What the poller's promise says is true of the operation.                 *)
PollerTells ==
    phase = "polling" =>
        /\ promise = "result" => operation[awaited] = "succeeded"
        /\ promise = "failed" => \/ reason = "request"
                                 \/ reason = "operation" /\ operation[awaited] = "failed"

OpInv == OperationTypeOK /\ IInv /\ Answered /\ Progress /\ PollerTells

(* Every step of RemoteOperation is one of its poller, or none.             *)
LEMMA PollerSteps == [OperationNext]_allVars => [Next]_vars
  <1> SUFFICES ASSUME OperationNext PROVE [Next]_vars
    BY DEF allVars, vars
  <1>1. CASE CreateApp \/ CreateModel \/ WaitForUnlocked
    BY <1>1 DEF CreateApp, CreateModel, WaitForUnlocked, HandleOperation, StartPolling,
                Next
  <1>2. CASE Service
    BY <1>2 DEF Service, ServiceStarts, ServiceFinishes, ServiceReads
  <1>3. CASE Arrives
    BY <1>3 DEF Arrives, AppOperationArrives, ModelOperationArrives, ModelArrives,
                AppRequestFails, ModelRequestFails, HandleOperation, StartPolling,
                StartPollingThrows, Next
  <1>4. CASE PollAnswered \/ PollRequestFails
    BY <1>4 DEF PollAnswered, PollRequestFails, Next, Answers
  <1>5. CASE NextPoll \/ NextPollThrows \/ Deadline \/ Wait
    BY <1>5 DEF NextPoll, NextPollThrows, Deadline, Wait, Next
  <1>6. CASE PollerSettles
    BY <1>6 DEF PollerSettles, PollerRejects, AppOfResponse, ModelOfResponse
  <1> QED
    BY <1>1, <1>2, <1>3, <1>4, <1>5, <1>6 DEF OperationNext

(* RemoteOperation implements BackoffPoller: the theorems about the poller  *)
(* hold of it in every call.                                                *)
THEOREM ImplementsPoller == OperationSpec => Spec
  <1>1. OperationInit => Init
    BY DEF OperationInit
  <1> QED
    BY <1>1, PollerSteps, PTL DEF OperationSpec, Spec

(* OpInv holds at first.                                                    *)
LEMMA InitOpInv == OperationInit => OpInv
  <1> SUFFICES ASSUME OperationInit PROVE OpInv
    OBVIOUS
  <1>1. IInv
    BY InitIInv DEF OperationInit
  <1>2. OperationTypeOK
    BY <1>1, OperationAssumption
       DEF IInv, OperationTypeOK, OperationInit, OperationState, NoRequest, Done
  <1>3. Answered /\ Progress /\ PollerTells
    BY OperationAssumption DEF OperationInit, Init, Answered, Progress, PollerTells,
       NoRequest, InFlight
  <1> QED
    BY <1>1, <1>2, <1>3 DEF OpInv

(* A step keeps the types of RemoteOperation's own variables.               *)
LEMMA NextOperationType == OpInv /\ [OperationNext]_allVars => OperationTypeOK'
  <1> SUFFICES ASSUME OpInv, [OperationNext]_allVars PROVE OperationTypeOK'
    OBVIOUS
  <1>0. TypeOK'
    BY PollerSteps, NextIInv DEF OpInv, IInv
  <1> USE <1>0, OperationAssumption
      DEF OpInv, OperationTypeOK, OperationState, Done, Ended, NoRequest, SentRequest,
          InFlight, Answered, Progress
  <1>1. CASE CreateApp \/ CreateModel
    BY <1>1 DEF CreateApp, CreateModel, ModelRequest, SignUrlFails, End
  <1>2. CASE WaitForUnlocked
    BY <1>2 DEF WaitForUnlocked, HandleOperation, StartPolling, End
  <1>3. CASE Service
    <2>1. ASSUME NEW o \in Operations, ServiceStarts(o) PROVE OperationTypeOK'
      BY <2>1 DEF ServiceStarts
    <2>2. ASSUME NEW o \in Operations, ServiceFinishes(o) PROVE OperationTypeOK'
      BY <2>2 DEF ServiceFinishes
    <2>3. CASE ServiceReads
      BY <2>3 DEF ServiceReads
    <2> QED
      BY <1>3, <2>1, <2>2, <2>3 DEF Service
  <1>4. CASE AppOperationArrives
    BY <1>4 DEF AppOperationArrives, StartPolling, StartPollingThrows, End
  <1>5. CASE ModelOperationArrives
    BY <1>5 DEF ModelOperationArrives, HandleOperation, StartPolling, End
  <1>6. CASE ModelArrives \/ AppRequestFails \/ ModelRequestFails
    BY <1>6 DEF ModelArrives, AppRequestFails, ModelRequestFails, End
  <1>7. CASE PollAnswered \/ PollRequestFails
    BY <1>7 DEF PollAnswered, PollRequestFails
  <1>8. CASE NextPoll \/ NextPollThrows \/ Deadline \/ Wait
    BY <1>8 DEF NextPoll, NextPollThrows, Deadline, Wait, opVars
  <1>9. CASE PollerSettles
    BY <1>9 DEF PollerSettles, PollerRejects, AppOfResponse, ModelOfResponse, End,
       PollerTells
  <1>10. CASE UNCHANGED allVars
    BY <1>10 DEF allVars, opVars
  <1> QED
    BY <1>1, <1>2, <1>3, <1>4, <1>5, <1>6, <1>7, <1>8, <1>9, <1>10
       DEF OperationNext, Arrives

(* A step keeps what is known of the operations.                            *)
LEMMA NextKnown ==
    OpInv /\ [OperationNext]_allVars => (Answered /\ Progress /\ PollerTells)'
  <1> SUFFICES ASSUME OpInv, [OperationNext]_allVars
               PROVE  (Answered /\ Progress /\ PollerTells)'
    OBVIOUS
  <1> USE OperationAssumption
      DEF OpInv, OperationTypeOK, OperationState, Done, Ended, NoRequest, SentRequest,
          InFlight, Answered, Progress, PollerTells
  <1>1. CASE CreateApp \/ CreateModel
    BY <1>1 DEF CreateApp, CreateModel, ModelRequest, SignUrlFails, End, vars
  <1>2. CASE WaitForUnlocked
    BY <1>2 DEF WaitForUnlocked, HandleOperation, StartPolling, End, vars, Poll
  <1>3. CASE Service
    <2>1. ASSUME NEW o \in Operations, ServiceStarts(o)
          PROVE  (Answered /\ Progress /\ PollerTells)'
      BY <2>1 DEF ServiceStarts, vars
    <2>2. ASSUME NEW o \in Operations, ServiceFinishes(o)
          PROVE  (Answered /\ Progress /\ PollerTells)'
      BY <2>2 DEF ServiceFinishes, vars
    <2>3. CASE ServiceReads
      BY <2>3 DEF ServiceReads, vars
    <2> QED
      BY <1>3, <2>1, <2>2, <2>3 DEF Service
  <1>4. CASE AppOperationArrives
    BY <1>4 DEF AppOperationArrives, StartPolling, StartPollingThrows, End, vars, Poll,
       PollThrows, IInv, Standing
  <1>5. CASE ModelOperationArrives
    BY <1>5 DEF ModelOperationArrives, HandleOperation, StartPolling, End, vars, Poll
  <1>6. CASE ModelArrives \/ AppRequestFails \/ ModelRequestFails
    BY <1>6 DEF ModelArrives, AppRequestFails, ModelRequestFails, End, vars
  <1>7. CASE PollAnswered
    BY <1>7 DEF PollAnswered, AnswersTruthy, AnswersFalsy, AnswersError, MarkCompleted,
       Settle, IInv, Standing, TypeOK, Promise, Settled
  <1>8. CASE PollRequestFails
    BY <1>8 DEF PollRequestFails, AnswersError, MarkCompleted,
       Settle, IInv, Standing, TypeOK, Promise, Settled
  <1>9. CASE NextPoll \/ NextPollThrows \/ Deadline \/ Wait
    BY <1>9 DEF NextPoll, NextPollThrows, Deadline, Wait, opVars, RepollFires, RepollThrows,
       MasterFires, Tick, MarkCompleted, Settle, IInv, Standing, TypeOK, Promise, Settled,
       CompletedIsQuiet, Off
  <1>10. CASE PollerSettles
    BY <1>10 DEF PollerSettles, PollerRejects, AppOfResponse, ModelOfResponse, End, vars
  <1>11. CASE UNCHANGED allVars
    BY <1>11 DEF allVars, opVars, vars
  <1> QED
    BY <1>1, <1>2, <1>3, <1>4, <1>5, <1>6, <1>7, <1>8, <1>9, <1>10, <1>11
       DEF OperationNext, Arrives

(* OpInv is an invariant.                                                   *)
LEMMA SpecOpInv == OperationSpec => []OpInv
  <1>1. OpInv /\ [OperationNext]_allVars => OpInv'
    BY NextOperationType, NextKnown, PollerSteps, NextIInv DEF OpInv
  <1> QED
    BY <1>1, InitOpInv, PTL DEF OperationSpec

(* Type correctness of the calls and of the service, for any operations.    *)
THEOREM OperationTypeCorrect == OperationSpec => []OperationTypeOK
  <1>1. OpInv => OperationTypeOK
    BY DEF OpInv
  <1> QED
    BY <1>1, SpecOpInv, PTL

(* A call that ends without a word about the operation gives up.            *)
LEMMA GiveUpStep ==
    ASSUME phase \notin Ended, UNCHANGED operation,
           phase' \in {"request", "answer", "deadline", "unlocked"}
    PROVE  Abstract!Next
  <1>1. Abstract!GiveUp
    BY DEF Abstract!GiveUp, Abstract!Pending, Abstract!Rejected, Outcome, Ended
  <1> QED
    BY <1>1 DEF Abstract!Next

(* The calls keep the promise of AbstractOperation, for any operations and  *)
(* delays: however late the answers are, a result is that of an operation   *)
(* that has succeeded, an operation's error that of one that has failed,    *)
(* and the first outcome stands.                                            *)
THEOREM ImplementsOperationCorrect == OperationSpec => ImplementsOperation
  <1>1. OperationInit => Abstract!Init
    <2> SUFFICES ASSUME OperationInit PROVE Abstract!Init
      OBVIOUS
    <2>1. Outcome = Abstract!Pending
      BY DEF OperationInit, Outcome, Ended, Abstract!Pending
    <2>2. operation \in [Operations -> {"none", "running"} \cup Abstract!Finished]
      BY DEF OperationInit
    <2> QED
      BY <2>1, <2>2 DEF Abstract!Init
  <1>2. OpInv /\ [OperationNext]_allVars => [Abstract!Next]_(Abstract!vars)
    <2> SUFFICES ASSUME OpInv, OperationNext
                 PROVE  Abstract!Next \/ UNCHANGED <<operation, Outcome>>
      BY DEF allVars, opVars, Abstract!vars, Outcome
    <2> USE OperationAssumption
        DEF OpInv, OperationTypeOK, OperationState, Done, Ended, Outcome, InFlight,
            Answered, Progress, PollerTells
    <2>1. CASE CreateApp
      BY <2>1 DEF CreateApp
    <2>2. CASE CreateModel
      <3>1. CASE SignUrlFails
        BY <2>2, <3>1, GiveUpStep DEF CreateModel, SignUrlFails, End
      <3> QED
        BY <2>2, <3>1 DEF CreateModel
    <2>3. CASE WaitForUnlocked
      BY <2>3, GiveUpStep DEF WaitForUnlocked, HandleOperation, StartPolling, End
    <2>4. CASE Service
      <3>1. ASSUME NEW o \in Operations, ServiceStarts(o) \/ ServiceFinishes(o)
            PROVE  Abstract!Advance(o)
        BY <3>1 DEF ServiceStarts, ServiceFinishes, Abstract!Advance, Abstract!Finished
      <3>2. CASE ServiceReads
        BY <3>2 DEF ServiceReads
      <3> QED
        BY <2>4, <3>1, <3>2 DEF Service, Abstract!Next
    <2>5. CASE AppOperationArrives
      BY <2>5, GiveUpStep DEF AppOperationArrives, StartPolling, StartPollingThrows, End
    <2>6. CASE ModelOperationArrives
      <3>1. PICK o \in Operations : o = request.op
        BY <2>6 DEF ModelOperationArrives
      <3>2. CASE request.seen = "succeeded"
        <4>1. Abstract!Fulfil(o)
          BY <2>6, <3>1, <3>2 DEF ModelOperationArrives, HandleOperation, End,
             Abstract!Fulfil, Abstract!Pending
        <4> QED
          BY <4>1 DEF Abstract!Next
      <3>3. CASE request.seen = "failed"
        <4>1. Abstract!FailWith(o)
          BY <2>6, <3>1, <3>3 DEF ModelOperationArrives, HandleOperation, End,
             Abstract!FailWith, Abstract!Pending
        <4> QED
          BY <4>1 DEF Abstract!Next
      <3>4. CASE request.seen \notin {"succeeded", "failed"}
        BY <2>6, <3>4, GiveUpStep DEF ModelOperationArrives, HandleOperation, End
      <3> QED
        BY <3>2, <3>3, <3>4
    <2>7. CASE ModelArrives
      <3>1. CASE phase' = "current"
        <4>1. Abstract!FulfilEarly(awaited)
          BY <2>7, <3>1 DEF ModelArrives, End, Abstract!FulfilEarly, Abstract!Pending
        <4> QED
          BY <2>7, <4>1 DEF ModelArrives, Abstract!Next
      <3>2. CASE phase' = "answer"
        BY <2>7, <3>2, GiveUpStep DEF ModelArrives, End
      <3> QED
        BY <2>7, <3>1, <3>2 DEF ModelArrives, End
    <2>8. CASE AppRequestFails \/ ModelRequestFails
      BY <2>8, GiveUpStep DEF AppRequestFails, ModelRequestFails, End
    <2>9. CASE \/ PollAnswered \/ PollRequestFails
               \/ NextPoll \/ NextPollThrows \/ Deadline \/ Wait
      BY <2>9 DEF PollAnswered, PollRequestFails, NextPoll, NextPollThrows, Deadline,
         Wait, opVars
    <2>10. CASE PollerRejects
      <3>1. CASE phase' = "operation"
        <4>1. Abstract!FailWith(awaited)
          BY <2>10, <3>1 DEF PollerRejects, End, Abstract!FailWith, Abstract!Pending
        <4> QED
          BY <2>10, <4>1 DEF PollerRejects, Abstract!Next
      <3>2. CASE phase' # "operation"
        BY <2>10, <3>2, GiveUpStep DEF PollerRejects, End
      <3> QED
        BY <3>1, <3>2
    <2>11. CASE AppOfResponse \/ ModelOfResponse
      <3>1. CASE phase' = "result"
        <4>1. Abstract!Fulfil(awaited)
          BY <2>11, <3>1 DEF AppOfResponse, ModelOfResponse, End, Abstract!Fulfil,
             Abstract!Pending
        <4> QED
          BY <2>11, <4>1 DEF AppOfResponse, ModelOfResponse, Abstract!Next
      <3>2. CASE phase' = "answer"
        BY <2>11, <3>2, GiveUpStep DEF AppOfResponse, ModelOfResponse, End
      <3> QED
        BY <2>11, <3>1, <3>2 DEF AppOfResponse, ModelOfResponse, End
    <2> QED
      BY <2>1, <2>2, <2>3, <2>4, <2>5, <2>6, <2>7, <2>8, <2>9, <2>10, <2>11
         DEF OperationNext, Arrives, PollerSettles
  <1> QED
    BY <1>1, <1>2, SpecOpInv, PTL DEF OperationSpec, ImplementsOperation, Abstract!Spec
=============================================================================
