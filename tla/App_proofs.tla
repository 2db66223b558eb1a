------------------------------ MODULE App_proofs ------------------------------
(* Theorems about an app, for every value of the constants: the tokens of   *)
(* FirebaseAppInternals, and then the life of apps, of AppLifecycle.        *)
EXTENDS FirebaseAppInternals, AppLifecycle, TLAPS

\* The plan is one that the model's types allow: at most four retries.
LEMMA RefreshPlanType ==
    ASSUME NEW e \in Nat
    PROVE  /\ RefreshPlan(e).delay \in Nat
           /\ RefreshPlan(e).retries \in -1 .. MaxRetries
<1> USE ConstantsAssumption DEF ConstantsAssumption
<1>1. CASE e - 5 * Minute > 0
  BY <1>1 DEF RefreshPlan, MaxRetries
<1>2. CASE ~(e - 5 * Minute > 0)
  <2>1. e % Minute \in Nat /\ e \div Minute \in Nat
    OBVIOUS
  <2>2. e = (Minute * (e \div Minute)) + (e % Minute)
    OBVIOUS
  <2>3. e \div Minute <= 5
    BY <1>2, <2>1, <2>2
  <2> QED
    BY <1>2, <2>1, <2>3 DEF RefreshPlan, MaxRetries
<1> QED
  BY <1>1, <1>2

\* Whatever the plan, its last attempt is due exactly one minute before the
\* token expires: the first delay and the minutes between retries add up.
THEOREM RefreshPlanEndsBeforeExpiry ==
    ASSUME NEW e \in Nat
    PROVE  RefreshPlan(e).delay + RefreshPlan(e).retries * Minute = e - Minute
<1> USE ConstantsAssumption DEF ConstantsAssumption
<1>1. CASE e - 5 * Minute > 0
  BY <1>1 DEF RefreshPlan, MaxRetries
<1>2. CASE ~(e - 5 * Minute > 0)
  <2> DEFINE q == e \div Minute
             r == e % Minute
  <2>1. q \in Nat /\ r \in Nat /\ e = (Minute * q) + r
    OBVIOUS
  <2>2. RefreshPlan(e).delay = r /\ RefreshPlan(e).retries = q - 1
    BY <1>2 DEF RefreshPlan
  <2> HIDE DEF q, r
  <2>3. (q - 1) * Minute = (Minute * q) - Minute
    BY <2>1
  <2> QED
    BY <2>1, <2>2, <2>3
<1> QED
  BY <1>1, <1>2

-----------------------------------------------------------------------------
(* Type correctness. *)

\* The records of the model, as members of the sets TypeOK speaks of.
LEMMA ChainTypes ==
    /\ Idle \in Chain /\ Calling \in Chain
    /\ \A n \in -1 .. MaxRetries : Refreshing(n) \in Chain /\ Failed(n) \in Chain
    /\ \A d \in Nat, n \in -1 .. MaxRetries : Armed(d, n) \in Chain
BY DEF Idle, Calling, Refreshing, Failed, Armed, Chain, Phases, MaxRetries

LEMMA PromiseTypes ==
    /\ NoPromise \in Promises /\ Rejected \in Promises
    /\ \A k \in Chains : Pending(k) \in Promises
    /\ \A t \in Token : Fulfilled(t) \in Promises
BY DEF Promises, NoPromise, Rejected, Pending, Fulfilled

\* What the state of the cached promise says of its fields.
LEMMA PromiseFields ==
    ASSUME NEW p \in Promises
    PROVE  /\ p.st = "none" => p = NoPromise
           /\ p.st = "pending" => p.chain \in Chains /\ p = Pending(p.chain)
           /\ p.st = "fulfilled" => p.token \in Token /\ p = Fulfilled(p.token)
           /\ p.st = "rejected" => p = Rejected
BY DEF Promises, NoPromise, Rejected, Pending, Fulfilled

LEMMA TickedType ==
    \A t \in Token \cup {NoToken} : Ticked(t) \in Token \cup {NoToken}
BY DEF Ticked, Token

\* clearTimeout leaves every chain idle or as it was.
LEMMA ClearTimeoutType ==
    ASSUME NEW ch \in [Chains -> Chain]
    PROVE  /\ ClearTimeout(ch) \in [Chains -> Chain]
           /\ \A k \in Chains : ClearTimeout(ch)[k] \in {Idle, ch[k]}
BY ChainTypes DEF ClearTimeout

LEMMA AnswerType ==
    /\ \A t : AnswerOf(t) \in Answers
    /\ \A st \in {"idle", "catching"} \cup Waiting \cup Answers : At(st) \in Caller
    /\ \A st \in Waiting, k \in Chains : [st |-> st, chain |-> k] \in Caller
BY DEF AnswerOf, Answers, At, Caller, Waiting

\* TypeOK is preserved by every step of getToken, of its promise chain and of
\* the timers.
THEOREM TypeCorrect == Spec => []TypeOK
<1>1. Init => TypeOK
  BY ChainTypes, PromiseTypes, AnswerType DEF Init, TypeOK
<1>2. TypeOK /\ [Next]_vars => TypeOK'
  <2> SUFFICES ASSUME TypeOK, [Next]_vars PROVE TypeOK'
    OBVIOUS
  <2>1. ASSUME NEW c \in Callers, JoinCached(c) PROVE TypeOK'
    <3>1. PICK x \in Caller : caller' = [caller EXCEPT ![c] = x]
      BY <2>1, AnswerType, PromiseFields DEF JoinCached, TypeOK, Waiting
    <3> QED
      BY <2>1, <3>1 DEF JoinCached, TypeOK
  <2>2. ASSUME NEW c \in Callers, NEW k \in Chains, StartFetch(c, k)
        PROVE  TypeOK'
    BY <2>2, ClearTimeoutType, ChainTypes, PromiseTypes, AnswerType
       DEF StartFetch, TypeOK, Waiting
  <2>3. ASSUME NEW c \in Callers, StartFetchThrows(c) PROVE TypeOK'
    BY <2>3, ClearTimeoutType, AnswerType DEF StartFetchThrows, TypeOK, Answers
  <2>4. ASSUME NEW c \in Callers, CatchHandler(c) PROVE TypeOK'
    BY <2>4, PromiseTypes, AnswerType DEF CatchHandler, TypeOK, Answers
  <2>5. ASSUME NEW k \in Chains, NEW a \in AccessTokens, NEW e \in Lifetimes,
               FetchSucceeds(k, a, e)
        PROVE  TypeOK'
    <3> DEFINE token == [accessToken |-> a, lifetime |-> e]
               plan  == RefreshPlan(e)
    <3>1. token \in Token /\ e \in Nat
      BY ConstantsAssumption DEF ConstantsAssumption, Token
    <3>2. chain' \in [Chains -> Chain]
      <4>1. SetTimeout(plan.delay) \in Nat /\ plan.retries \in -1 .. MaxRetries
        BY <3>1, RefreshPlanType DEF SetTimeout
      <4>2. Armed(SetTimeout(plan.delay), plan.retries) \in Chain
        BY <4>1, ChainTypes
      <4> QED
        BY <2>5, <4>2, ChainTypes DEF FetchSucceeds, TypeOK
    <3>3. tokenListeners' \in [Listeners -> AccessTokens \cup {NoToken, NotListening}]
      BY <2>5 DEF FetchSucceeds, Notified, TypeOK
    <3>4. cachedTokenPromise' \in Promises
      BY <2>5, <3>1, PromiseTypes DEF FetchSucceeds, TypeOK
    <3>5. caller' \in [Callers -> Caller]
      BY <2>5, AnswerType DEF FetchSucceeds, TypeOK, Answers
    <3> QED
      BY <2>5, <3>1, <3>2, <3>3, <3>4, <3>5 DEF FetchSucceeds, TypeOK
  <2>6. ASSUME NEW k \in Chains, FetchFails(k) PROVE TypeOK'
    <3>1. chain' \in [Chains -> Chain]
      BY <2>6, ChainTypes DEF FetchFails, TypeOK, Chain
    <3>2. caller' \in [Callers -> Caller]
      BY <2>6, AnswerType DEF FetchFails, TypeOK, Answers
    <3> QED
      BY <2>6, <3>1, <3>2, PromiseTypes DEF FetchFails, TypeOK
  <2>7. ASSUME NEW k \in Chains, TimerFires(k) PROVE TypeOK'
    <3>1. Refreshing(chain[k].retries) \in Chain
      BY ChainTypes DEF TypeOK, Chain
    <3> QED
      BY <2>7, <3>1, ClearTimeoutType, PromiseTypes DEF TimerFires, TypeOK
  <2>8. ASSUME NEW k \in Chains, TimerThrows(k) PROVE TypeOK'
    BY <2>8, ChainTypes, ClearTimeoutType DEF TimerThrows, TypeOK
  <2>9. ASSUME NEW k \in Chains, RetryAfterFailure(k) PROVE TypeOK'
    <3>1. chain[k].retries > 0 => Armed(Minute, chain[k].retries - 1) \in Chain
      <4>1. chain[k].retries \in -1 .. MaxRetries
        BY DEF TypeOK, Chain
      <4>2. chain[k].retries > 0 => chain[k].retries - 1 \in -1 .. MaxRetries
        BY <4>1 DEF MaxRetries
      <4> QED
        BY <4>2, ChainTypes, ConstantsAssumption DEF ConstantsAssumption
    <3> QED
      BY <2>9, <3>1, ChainTypes DEF RetryAfterFailure, TypeOK
  <2>10. ASSUME NEW l \in Listeners, AddAuthTokenListener(l) PROVE TypeOK'
    BY <2>10 DEF AddAuthTokenListener, TypeOK, Token
  <2>11. ASSUME NEW l \in Listeners, RemoveAuthTokenListener(l) PROVE TypeOK'
    BY <2>11 DEF RemoveAuthTokenListener, TypeOK
  <2>12. CASE Delete
    BY <2>12, ClearTimeoutType DEF Delete, TypeOK
  <2>13. CASE Tick
    <3>1. cachedTokenPromise' \in Promises
      <4> DEFINE p == cachedTokenPromise
      <4>1. p \in Promises /\ p' = [p EXCEPT !.token = Ticked(@)]
        BY <2>13 DEF Tick, TypeOK
      <4>2. ASSUME NEW t \in Token, p = Fulfilled(t) PROVE p' = Fulfilled(Ticked(t))
        BY <4>1, <4>2 DEF Fulfilled
      <4>3. ASSUME NEW t \in Token PROVE Ticked(t) \in Token
        BY MarkersAssumption DEF MarkersAssumption, Ticked, Token
      <4>4. CASE p = NoPromise \/ p = Rejected \/ \E k \in Chains : p = Pending(k)
        BY <4>1, <4>4 DEF NoPromise, Rejected, Pending, Ticked
      <4>5. p = NoPromise \/ p = Rejected \/ (\E k \in Chains : p = Pending(k))
            \/ (\E t \in Token : p = Fulfilled(t))
        BY <4>1, PromiseFields DEF Promises
      <4>6. CASE \E t \in Token : p = Fulfilled(t)
        BY <4>2, <4>3, <4>6, PromiseTypes
      <4> QED
        BY <4>1, <4>4, <4>5, <4>6, PromiseTypes
    <3>2. chain' \in [Chains -> Chain]
      BY <2>13 DEF Tick, TypeOK, Chain
    <3> QED
      BY <2>13, <3>1, <3>2, TickedType DEF Tick, TypeOK
  <2>14. CASE UNCHANGED vars
    BY <2>14 DEF vars, TypeOK
  <2> QED
    BY <2>1, <2>2, <2>3, <2>4, <2>5, <2>6, <2>7, <2>8, <2>9, <2>10, <2>11,
       <2>12, <2>13, <2>14 DEF Next, GetToken, Settle
<1> QED
  BY <1>1, <1>2, PTL DEF Spec

-----------------------------------------------------------------------------
(* Listeners. *)

\* Every registered listener has always been given the string that is cached.
THEOREM ListenersCorrect == Spec => []ListenersUpToDate
<1>1. Init => ListenersUpToDate
  BY DEF Init, ListenersUpToDate
<1>2. TypeOK /\ ListenersUpToDate /\ [Next]_vars => ListenersUpToDate'
  <2> SUFFICES ASSUME TypeOK, ListenersUpToDate, [Next]_vars
               PROVE  ListenersUpToDate'
    OBVIOUS
  <2> USE DEF ListenersUpToDate
  <2>1. ASSUME NEW k \in Chains, NEW a \in AccessTokens, NEW e \in Lifetimes,
               FetchSucceeds(k, a, e)
        PROVE  ListenersUpToDate'
    <3> DEFINE token == [accessToken |-> a, lifetime |-> e]
    <3>1. cachedToken' = token /\ token # NoToken /\ token.accessToken = a
      BY <2>1, MarkersAssumption, ConstantsAssumption
         DEF FetchSucceeds, MarkersAssumption, ConstantsAssumption
    <3>2. CASE cachedToken = token
      BY <2>1, <3>1, <3>2 DEF FetchSucceeds, Notified
    <3>3. CASE cachedToken # token
      <4>1. tokenListeners' = [l \in Listeners |->
                IF tokenListeners[l] = NotListening THEN NotListening ELSE a]
        BY <2>1, <3>3 DEF FetchSucceeds, Notified
      <4> QED
        BY <3>1, <4>1
    <3> QED
      BY <3>2, <3>3
  <2>2. ASSUME NEW l \in Listeners, AddAuthTokenListener(l)
        PROVE  ListenersUpToDate'
    BY <2>2 DEF AddAuthTokenListener, TypeOK
  <2>3. ASSUME NEW l \in Listeners, RemoveAuthTokenListener(l)
        PROVE  ListenersUpToDate'
    BY <2>3 DEF RemoveAuthTokenListener, TypeOK
  <2>4. CASE Tick
    <3>1. cachedToken = NoToken <=> cachedToken' = NoToken
      BY <2>4, MarkersAssumption DEF Tick, Ticked, TypeOK, Token, MarkersAssumption
    <3>2. cachedToken # NoToken => cachedToken'.accessToken = cachedToken.accessToken
      BY <2>4 DEF Tick, Ticked, TypeOK, Token
    <3> QED
      BY <2>4, <3>1, <3>2 DEF Tick
  <2>5. ASSUME UNCHANGED <<cachedToken, tokenListeners>> PROVE ListenersUpToDate'
    BY <2>5
  <2> QED
    BY <2>1, <2>2, <2>3, <2>4, <2>5
       DEF Next, GetToken, Settle, JoinCached, StartFetch, StartFetchThrows,
           CatchHandler, FetchFails, RetryAfterFailure, TimerFires, TimerThrows,
           Delete, vars
<1> QED
  BY <1>1, <1>2, TypeCorrect, PTL DEF Spec

-----------------------------------------------------------------------------
(* Callers. *)

InFlight(k) == k \in Chains /\ chain[k].phase \in {"calling", "refreshing"}

\* Clearing the timeout touches no fetch.
LEMMA ClearTimeoutInFlight ==
    ASSUME NEW ch \in [Chains -> Chain], NEW k \in Chains,
           ch[k].phase \in {"calling", "refreshing"}
    PROVE  ClearTimeout(ch)[k] = ch[k]
BY DEF ClearTimeout

\* A step that takes no fetch out of flight and hands out no promise strands
\* nobody.
LEMMA StrandsNobody ==
    ASSUME NoStrandedWaiter, UNCHANGED caller,
           cachedTokenPromise'.st = "pending" =>
               cachedTokenPromise' = cachedTokenPromise
               \/ InFlight(cachedTokenPromise.chain)',
           \A k \in Chains : InFlight(k) => InFlight(k)'
    PROVE  NoStrandedWaiter'
<1>1. ASSUME cachedTokenPromise'.st = "pending"
      PROVE  InFlight(cachedTokenPromise.chain)'
  <2>1. CASE cachedTokenPromise' = cachedTokenPromise
    BY <1>1, <2>1 DEF NoStrandedWaiter, InFlight
  <2> QED
    BY <1>1, <2>1
<1>2. ASSUME NEW c \in Callers, caller'[c].st \in Waiting
      PROVE  InFlight(caller[c].chain)'
  BY <1>2 DEF NoStrandedWaiter, InFlight
<1> QED
  BY <1>1, <1>2 DEF NoStrandedWaiter, InFlight

\* Every caller that waits, and every later caller that will be handed the
\* cached promise, waits for a request that is in flight.
THEOREM NoStrandedWaiterCorrect == Spec => []NoStrandedWaiter
<1>1. Init => NoStrandedWaiter
  BY DEF Init, NoStrandedWaiter, NoPromise, At, Waiting
<1>2. TypeOK /\ NoStrandedWaiter /\ [Next]_vars => NoStrandedWaiter'
  <2> SUFFICES ASSUME TypeOK, NoStrandedWaiter, [Next]_vars
               PROVE  NoStrandedWaiter'
    OBVIOUS
  <2>1. ASSUME NEW c \in Callers, JoinCached(c) PROVE NoStrandedWaiter'
    <3>1. \A d \in Callers : d # c => caller'[d] = caller[d]
      BY <2>1 DEF JoinCached, TypeOK
    <3>2. caller'[c].st \in Waiting =>
              /\ cachedTokenPromise.st = "pending"
              /\ caller'[c].chain = cachedTokenPromise.chain
      BY <2>1 DEF JoinCached, TypeOK, At, AnswerOf, Waiting
    <3> QED
      BY <2>1, <3>1, <3>2 DEF JoinCached, NoStrandedWaiter
  <2>2. ASSUME NEW c \in Callers, NEW k \in Chains, StartFetch(c, k)
        PROVE  NoStrandedWaiter'
    <3>1. InFlight(k)'
      BY <2>2, ClearTimeoutType DEF StartFetch, InFlight, Calling, TypeOK
    <3>2. \A j \in Chains : InFlight(j) => InFlight(j)'
      <4> SUFFICES ASSUME NEW j \in Chains, InFlight(j) PROVE InFlight(j)'
        OBVIOUS
      <4>1. ClearTimeout(chain)[j] = chain[j]
        BY ClearTimeoutInFlight DEF InFlight, TypeOK
      <4> QED
        BY <2>2, <3>1, <4>1, ClearTimeoutType DEF StartFetch, InFlight, TypeOK
    <3>3. \A d \in Callers : caller'[d].st \in Waiting =>
              caller'[d].chain = k \/ caller'[d] = caller[d]
      BY <2>2 DEF StartFetch, TypeOK
    <3> QED
      BY <2>2, <3>1, <3>2, <3>3 DEF StartFetch, NoStrandedWaiter, InFlight, Pending
  <2>3. ASSUME NEW c \in Callers, StartFetchThrows(c) PROVE NoStrandedWaiter'
    <3>1. \A j \in Chains : InFlight(j) => InFlight(j)'
      BY <2>3, ClearTimeoutInFlight DEF StartFetchThrows, InFlight, TypeOK
    <3>2. \A d \in Callers : caller'[d].st \in Waiting => caller'[d] = caller[d]
      BY <2>3 DEF StartFetchThrows, TypeOK, At, Waiting
    <3> QED
      BY <2>3, <3>1, <3>2 DEF StartFetchThrows, NoStrandedWaiter, InFlight
  <2>4. ASSUME NEW c \in Callers, CatchHandler(c) PROVE NoStrandedWaiter'
    <3>1. cachedTokenPromise'.st # "pending"
      BY <2>4 DEF CatchHandler, Fulfilled, NoPromise
    <3>2. \A d \in Callers : caller'[d].st \in Waiting => caller'[d] = caller[d]
      BY <2>4 DEF CatchHandler, TypeOK, At, AnswerOf, Waiting
    <3> QED
      BY <2>4, <3>1, <3>2 DEF CatchHandler, NoStrandedWaiter
  <2>5. ASSUME NEW k \in Chains, Settle(k) PROVE NoStrandedWaiter'
    <3>1. \A j \in Chains \ {k} : InFlight(j) => InFlight(j)'
      BY <2>5 DEF Settle, FetchSucceeds, FetchFails, InFlight, TypeOK
    <3>2. ASSUME NEW d \in Callers, caller'[d].st \in Waiting
          PROVE  caller'[d] = caller[d] /\ caller[d].chain # k
      <4> DEFINE waits == caller[d].st \in Waiting /\ caller[d].chain = k
      <4>1. caller'[d] = caller[d] \/ waits
        BY <2>5 DEF Settle, FetchSucceeds, FetchFails
      <4>2. waits => caller'[d] \in {At("fresh"), At("error"), At("catching")}
        BY <2>5 DEF Settle, FetchSucceeds, FetchFails
      <4>3. ~waits
        BY <3>2, <4>2 DEF At, Waiting
      <4> QED
        BY <3>2, <4>1, <4>3
    <3>3. ASSUME cachedTokenPromise'.st = "pending"
          PROVE  cachedTokenPromise' = cachedTokenPromise /\ cachedTokenPromise.chain # k
      <4>1. \/ cachedTokenPromise # Pending(k) /\ cachedTokenPromise' = cachedTokenPromise
            \/ \E t : cachedTokenPromise' = Fulfilled(t)
            \/ cachedTokenPromise' = Rejected
        BY <2>5 DEF Settle, FetchSucceeds, FetchFails
      <4>2. cachedTokenPromise # Pending(k) /\ cachedTokenPromise' = cachedTokenPromise
        BY <3>3, <4>1 DEF Fulfilled, Rejected
      <4> QED
        BY <3>3, <4>2, PromiseFields DEF TypeOK
    <3> QED
      BY <3>1, <3>2, <3>3 DEF NoStrandedWaiter, InFlight
  <2>6. ASSUME NEW k \in Chains, TimerFires(k) PROVE NoStrandedWaiter'
    <3> DEFINE ch == [chain EXCEPT ![k] = Refreshing(chain[k].retries)]
    <3>1. ch \in [Chains -> Chain] /\ ch[k].phase = "refreshing"
      BY ChainTypes DEF TypeOK, Chain, Refreshing
    <3>2. \A j \in Chains : InFlight(j) \/ j = k => InFlight(j)'
      BY <2>6, <3>1, ClearTimeoutInFlight DEF TimerFires, InFlight, TypeOK
    <3> QED
      BY <2>6, <3>2, StrandsNobody DEF TimerFires, Pending
  <2>7. ASSUME NEW k \in Chains, TimerThrows(k) PROVE NoStrandedWaiter'
    <3> DEFINE ch == [chain EXCEPT ![k] = Idle]
    <3>1. ch \in [Chains -> Chain]
      BY ChainTypes DEF TypeOK
    <3>2. \A j \in Chains : InFlight(j) => InFlight(j)'
      BY <2>7, <3>1, ClearTimeoutInFlight DEF TimerThrows, InFlight, TypeOK
    <3> QED
      BY <2>7, <3>2, StrandsNobody DEF TimerThrows
  <2>8. ASSUME NEW k \in Chains, RetryAfterFailure(k) PROVE NoStrandedWaiter'
    <3>1. \A j \in Chains : InFlight(j) => InFlight(j)'
      BY <2>8 DEF RetryAfterFailure, InFlight, TypeOK
    <3> QED
      BY <2>8, <3>1, StrandsNobody DEF RetryAfterFailure
  <2>9. CASE Delete
    <3>1. \A j \in Chains : InFlight(j) => InFlight(j)'
      BY <2>9, ClearTimeoutInFlight DEF Delete, InFlight, TypeOK
    <3> QED
      BY <2>9, <3>1, StrandsNobody DEF Delete
  <2>10. CASE Tick
    <3>1. \A j \in Chains : InFlight(j) => InFlight(j)'
      BY <2>10 DEF Tick, InFlight, TypeOK, Chain
    <3>2. cachedTokenPromise'.st = "pending" => cachedTokenPromise' = cachedTokenPromise
      BY <2>10, PromiseFields DEF Tick, TypeOK, Pending, NoPromise, Rejected, Fulfilled, Ticked, Promises
    <3> QED
      BY <2>10, <3>1, <3>2, StrandsNobody DEF Tick
  <2>11. ASSUME UNCHANGED <<cachedTokenPromise, chain, caller>>
         PROVE  NoStrandedWaiter'
    BY <2>11 DEF NoStrandedWaiter
  <2> QED
    BY <2>1, <2>2, <2>3, <2>4, <2>5, <2>6, <2>7, <2>8, <2>9, <2>10, <2>11
       DEF Next, GetToken, AddAuthTokenListener, RemoveAuthTokenListener, vars
<1> QED
  BY <1>1, <1>2, TypeCorrect, PTL DEF Spec

-----------------------------------------------------------------------------
(* Timers of a deleted app. *)

\* After delete() a timer is armed only as the next retry of a refresh that a
\* timer had started, so with MaxRetries at most four more per chain.
THEOREM DeletedTimersWindDownCorrect == Spec => DeletedTimersWindDown
<1> DEFINE WindsDown(k) ==
      chain'[k].phase = "armed" =>
        \/ chain[k].phase = "armed" /\ chain'[k].retries = chain[k].retries
        \/ chain[k].phase = "failed" /\ chain'[k].retries = chain[k].retries - 1
<1>1. ASSUME TypeOK, [Next]_vars, isDeleted, NEW k \in Chains
      PROVE  WindsDown(k)
  <2>1. ASSUME chain' = ClearTimeout(chain) PROVE WindsDown(k)
    BY <1>1, <2>1, ClearTimeoutType DEF TypeOK, Idle
  <2>2. ASSUME NEW c \in Callers, GetToken(c) PROVE WindsDown(k)
    <3>1. CASE \E j \in Chains : StartFetch(c, j)
      <4>1. PICK j \in Chains : chain' = [ClearTimeout(chain) EXCEPT ![j] = Calling]
        BY <3>1 DEF StartFetch
      <4>2. chain'[k] \in {Calling, ClearTimeout(chain)[k]}
        BY <1>1, <4>1, ClearTimeoutType DEF TypeOK
      <4> QED
        BY <1>1, <4>2, ClearTimeoutType DEF TypeOK, Idle, Calling
    <3>2. CASE JoinCached(c) \/ StartFetchThrows(c)
      BY <3>2, <2>1 DEF JoinCached, StartFetchThrows
    <3> QED
      BY <2>2, <3>1, <3>2 DEF GetToken
  <2>3. ASSUME NEW j \in Chains, Settle(j) PROVE WindsDown(k)
    <3>1. chain' = [chain EXCEPT ![j] = Idle]
          \/ \E n : chain' = [chain EXCEPT ![j] = Failed(n)]
      BY <1>1, <2>3 DEF Settle, FetchSucceeds, FetchFails, MayArm
    <3> QED
      BY <1>1, <3>1 DEF TypeOK, Idle, Failed
  <2>4. ASSUME NEW j \in Chains, RetryAfterFailure(j) PROVE WindsDown(k)
    BY <1>1, <2>4 DEF RetryAfterFailure, TypeOK, Idle, Armed
  <2>5. ASSUME NEW j \in Chains, TimerFires(j) \/ TimerThrows(j)
        PROVE  WindsDown(k)
    <3>1. PICK x \in {Refreshing(chain[j].retries), Idle} :
             chain' = ClearTimeout([chain EXCEPT ![j] = x])
      BY <2>5 DEF TimerFires, TimerThrows
    <3>2. x \in Chain /\ x.phase # "armed"
      <4>1. chain[j].retries \in -1 .. MaxRetries
        BY <1>1 DEF TypeOK, Chain
      <4>2. x \in Chain
        BY <3>1, <4>1, ChainTypes
      <4> QED
        BY <3>1, <4>2 DEF Refreshing, Idle
    <3> DEFINE ch == [chain EXCEPT ![j] = x]
    <3>3. ch \in [Chains -> Chain] /\ ch[k] \in {chain[k], x}
      BY <1>1, <3>2 DEF TypeOK
    <3>4. chain'[k] \in {Idle, chain[k], x}
      BY <3>1, <3>3, ClearTimeoutType
    <3> QED
      BY <3>2, <3>4 DEF Idle
  <2>6. CASE Tick
    BY <1>1, <2>6 DEF Tick, TypeOK, Chain
  <2>7. CASE Delete
    BY <2>1, <2>7 DEF Delete
  <2>8. CASE UNCHANGED chain
    BY <2>8
  <2> QED
    BY <1>1, <2>2, <2>3, <2>4, <2>5, <2>6, <2>7, <2>8
       DEF Next, CatchHandler, AddAuthTokenListener, RemoveAuthTokenListener, vars
<1>2. TypeOK /\ [Next]_vars =>
        [isDeleted => \A k \in Chains :
           chain[k]'.phase = "armed" =>
             \/ chain[k].phase = "armed" /\ chain[k]'.retries = chain[k].retries
             \/ chain[k].phase = "failed"
                /\ chain[k]'.retries = chain[k].retries - 1]_vars
  BY <1>1
<1> QED
  BY <1>2, TypeCorrect, PTL DEF Spec, DeletedTimersWindDown

-----------------------------------------------------------------------------
(* The proactive refresh. *)

\* Chain k will go on trying until the last minute of the cached token's life.
Covers(k) ==
    /\ chain[k].phase = "armed" =>
         cachedToken.lifetime <= chain[k].delay + chain[k].retries * Minute + Minute
    /\ chain[k].phase \in {"refreshing", "failed"} =>
         cachedToken.lifetime <= chain[k].retries * Minute + Minute
    /\ chain[k].phase = "idle" => cachedToken.lifetime < 2 * Minute

\* The inductive invariant for one user and fetches that do not overlap: a
\* call starts a fetch only before the first token or after its expiry, so it
\* never clears a timer that is still needed.
AliveInv(c, k) ==
    /\ cachedToken = NoToken => chain[k].phase \in {"idle", "calling"}
    /\ cachedToken # NoToken \/ chain[k].phase = "calling"
         => cachedTokenPromise # NoPromise
    /\ chain[k].phase = "calling" =>
         caller[c].st = "raw" /\ (cachedToken = NoToken \/ Expired)
    /\ ~isDeleted /\ cachedToken # NoToken => Covers(k)

\* A new plan covers the token it was made for; a token that gets no timer has
\* less than two minutes.
LEMMA PlanCovers ==
    ASSUME NEW e \in Nat
    PROVE  /\ e = RefreshPlan(e).delay + RefreshPlan(e).retries * Minute + Minute
           /\ RefreshPlan(e).retries = 0 => e < 2 * Minute
<1> USE ConstantsAssumption DEF ConstantsAssumption
<1>1. RefreshPlan(e).retries \in Int /\ RefreshPlan(e).delay \in Nat
  BY RefreshPlanType DEF MaxRetries
<1>2. RefreshPlan(e).retries * Minute \in Int
  BY <1>1
<1>3. e = RefreshPlan(e).delay + RefreshPlan(e).retries * Minute + Minute
  BY <1>1, <1>2, RefreshPlanEndsBeforeExpiry
<1>4. ASSUME RefreshPlan(e).retries = 0 PROVE e < 2 * Minute
  <2>1. RefreshPlan(e).delay = e % Minute
    BY <1>4 DEF RefreshPlan, MaxRetries
  <2> QED
    BY <1>3, <1>4, <2>1
<1> QED
  BY <1>3, <1>4

\* The delay of a plan is never longer than the token lives.
LEMMA PlanDelay ==
    ASSUME NEW e \in Nat
    PROVE  RefreshPlan(e).delay \in Nat /\ RefreshPlan(e).delay <= e
<1> USE ConstantsAssumption DEF ConstantsAssumption
<1>1. e % Minute <= e
  <2>1. e % Minute \in Nat /\ e \div Minute \in Nat
        /\ e = (Minute * (e \div Minute)) + (e % Minute)
    OBVIOUS
  <2> QED
    BY <2>1
<1> QED
  BY <1>1, RefreshPlanType DEF RefreshPlan

\* An app with one user that never forces a refresh, whose credential never
\* throws, whose fetches do not overlap and whose tokens live no longer than a
\* timeout can last has a refresh under way or planned for as long as its token
\* has two minutes to live.
THEOREM RefreshAliveCorrect ==
    ASSUME NEW c0, Callers = {c0}, NEW k0, Chains = {k0},
           \A force \in ForceRefresh : ~force, ~MayThrow,
           \A e \in Lifetimes : e <= TimeoutMax
    PROVE  Spec => []RefreshAlive
<1> USE ConstantsAssumption DEF ConstantsAssumption
<1>1. Init => AliveInv(c0, k0)
  BY DEF Init, AliveInv, Idle
<1>2. TypeOK /\ AliveInv(c0, k0) /\ [Next]_vars => AliveInv(c0, k0)'
  <2> SUFFICES ASSUME TypeOK, AliveInv(c0, k0), [Next]_vars
               PROVE  AliveInv(c0, k0)'
    OBVIOUS
  <2>1. CASE JoinCached(c0)
    <3>1. caller[c0].st # "raw"
      BY <2>1 DEF JoinCached, CanCall, Answers
    <3> QED
      BY <2>1, <3>1 DEF JoinCached, AliveInv, Covers, Expired
  <2>2. CASE StartFetch(c0, k0)
    <3>1. cachedToken = NoToken \/ Expired
      BY <2>2 DEF StartFetch, UsesCache, AliveInv
    <3>2. chain'[k0] = Calling
      <4>1. ClearTimeout(chain) \in [Chains -> Chain]
        BY ClearTimeoutType DEF TypeOK
      <4>2. chain' = [ClearTimeout(chain) EXCEPT ![k0] = Calling]
        BY <2>2 DEF StartFetch
      <4> QED
        BY <4>1, <4>2
    <3>3. caller'[c0].st = "raw" /\ cachedTokenPromise' # NoPromise
      BY <2>2 DEF StartFetch, TypeOK, Pending, NoPromise
    <3> QED
      BY <2>2, <3>1, <3>2, <3>3 DEF StartFetch, AliveInv, Covers, Expired, Calling
  <2>3. CASE CatchHandler(c0)
    <3>1. chain[k0].phase # "calling"
      BY <2>3 DEF CatchHandler, AliveInv
    <3>2. cachedToken # NoToken => cachedTokenPromise' # NoPromise
      BY <2>3 DEF CatchHandler, Fulfilled, NoPromise
    <3> QED
      BY <2>3, <3>1, <3>2 DEF CatchHandler, AliveInv, Covers, Expired
  <2>4. ASSUME NEW a \in AccessTokens, NEW e \in Lifetimes,
               FetchSucceeds(k0, a, e)
        PROVE  AliveInv(c0, k0)'
    <3>1. cachedTokenPromise # NoPromise
      BY <2>4 DEF FetchSucceeds, AliveInv
    <3>2. cachedTokenPromise' # NoPromise
      BY <2>4, <3>1 DEF FetchSucceeds, Fulfilled, NoPromise
    <3>3. cachedToken' # NoToken /\ cachedToken'.lifetime = e
      <4>1. cachedToken' = [accessToken |-> a, lifetime |-> e]
        BY <2>4 DEF FetchSucceeds
      <4>2. e \in Int
        OBVIOUS
      <4>3. [accessToken |-> a, lifetime |-> e] # NoToken
        BY <4>2, MarkersAssumption DEF MarkersAssumption
      <4> QED
        BY <4>1, <4>3
    <3>4. chain'[k0] = IF RefreshPlan(e).retries # 0 /\ ~isDeleted
                       THEN Armed(RefreshPlan(e).delay, RefreshPlan(e).retries)
                       ELSE Idle
      <4>1. SetTimeout(RefreshPlan(e).delay) = RefreshPlan(e).delay
        BY PlanDelay, e <= TimeoutMax DEF SetTimeout
      <4> QED
        BY <2>4, <4>1 DEF FetchSucceeds, MayArm, TypeOK
    <3>5. isDeleted' = isDeleted
      BY <2>4 DEF FetchSucceeds
    <3>6. ~isDeleted => Covers(k0)'
      <4>1. CASE RefreshPlan(e).retries # 0 /\ ~isDeleted
        <5>1. /\ chain'[k0].phase = "armed"
              /\ chain'[k0].delay = RefreshPlan(e).delay
              /\ chain'[k0].retries = RefreshPlan(e).retries
          BY <3>4, <4>1 DEF Armed
        <5> QED
          BY <3>3, <5>1, PlanCovers DEF Covers
      <4>2. CASE RefreshPlan(e).retries = 0
        BY <3>3, <3>4, <4>2, PlanCovers DEF Covers, Idle
      <4> QED
        BY <4>1, <4>2
    <3>7. chain'[k0].phase # "calling"
      BY <3>4 DEF Armed, Idle
    <3> QED
      BY <3>2, <3>3, <3>5, <3>6, <3>7 DEF AliveInv
  <2>5. CASE FetchFails(k0)
    <3>1. cachedTokenPromise' # NoPromise
      BY <2>5 DEF FetchFails, AliveInv, Rejected, NoPromise
    <3>2. CASE chain[k0].phase = "calling"
      <4>1. chain'[k0] = Idle
        BY <2>5, <3>2 DEF FetchFails, TypeOK
      <4>2. cachedToken # NoToken => cachedToken.lifetime < 2 * Minute
        BY <3>2 DEF AliveInv, Expired, TypeOK, Token
      <4> QED
        BY <2>5, <3>1, <4>1, <4>2 DEF FetchFails, AliveInv, Covers, Idle
    <3>3. CASE chain[k0].phase = "refreshing"
      <4>1. chain'[k0] = Failed(chain[k0].retries)
        BY <2>5, <3>3 DEF FetchFails, TypeOK
      <4> QED
        BY <2>5, <3>1, <3>3, <4>1 DEF FetchFails, AliveInv, Covers, Failed
    <3> QED
      BY <2>5, <3>2, <3>3 DEF FetchFails
  <2>6. CASE TimerFires(k0)
    <3>1. chain[k0].phase = "armed" /\ chain[k0].delay = 0
      BY <2>6 DEF TimerFires
    <3>2. chain'[k0] = Refreshing(chain[k0].retries)
      BY <2>6 DEF TimerFires, ClearTimeout, TypeOK, Refreshing
    <3>3. cachedTokenPromise' # NoPromise
      BY <2>6 DEF TimerFires, Pending, NoPromise
    <3>4. chain[k0].retries * Minute \in Int
      BY DEF TypeOK, Chain, MaxRetries
    <3> QED
      BY <2>6, <3>1, <3>2, <3>3, <3>4 DEF TimerFires, AliveInv, Covers, Refreshing
  <2>7. CASE RetryAfterFailure(k0)
    <3> DEFINE n == chain[k0].retries
    <3>1. n \in Int /\ n * Minute \in Int /\ (n <= 0 => n * Minute <= 0)
          /\ (n - 1) * Minute = n * Minute - Minute
      BY DEF TypeOK, Chain, MaxRetries
    <3>2. chain'[k0] = IF n > 0 THEN Armed(Minute, n - 1) ELSE Idle
      BY <2>7 DEF RetryAfterFailure, TypeOK
    <3>3. chain[k0].phase = "failed"
      BY <2>7 DEF RetryAfterFailure
    <3>4. ~isDeleted /\ cachedToken # NoToken => Covers(k0)'
      <4> SUFFICES ASSUME ~isDeleted, cachedToken # NoToken PROVE Covers(k0)'
        OBVIOUS
      <4>1. cachedToken.lifetime <= n * Minute + Minute
        BY <3>3 DEF AliveInv, Covers
      <4>2. cachedToken' = cachedToken /\ cachedToken.lifetime \in Int
        BY <2>7 DEF RetryAfterFailure, TypeOK, Token
      <4>3. CASE n > 0
        <5>1. chain'[k0].phase = "armed" /\ chain'[k0].delay = Minute
              /\ chain'[k0].retries = n - 1
          BY <3>2, <4>3 DEF Armed
        <5> HIDE DEF n
        <5> QED
          BY <3>1, <4>1, <4>2, <5>1 DEF Covers
      <4>4. CASE ~(n > 0)
        <5>1. chain'[k0].phase = "idle"
          BY <3>2, <4>4 DEF Idle
        <5> HIDE DEF n
        <5> QED
          BY <3>1, <4>1, <4>2, <4>4, <5>1 DEF Covers
      <4> QED
        BY <4>3, <4>4
    <3>5. chain'[k0].phase # "calling"
      BY <3>2 DEF Armed, Idle
    <3> QED
      BY <2>7, <3>3, <3>4, <3>5 DEF RetryAfterFailure, AliveInv
  <2>8. CASE Delete
    <3>1. chain'[k0] \in {Idle, chain[k0]}
      BY <2>8, ClearTimeoutType DEF Delete, TypeOK
    <3> QED
      BY <2>8, <3>1 DEF Delete, AliveInv, Idle, Expired
  <2>9. CASE Tick
    <3>1. chain'[k0].phase = chain[k0].phase /\ chain'[k0].retries = chain[k0].retries
          /\ chain'[k0].delay = IF chain[k0].delay > 0 THEN chain[k0].delay - 1 ELSE 0
      BY <2>9 DEF Tick, TypeOK, Chain
    <3>2. cachedToken = NoToken <=> cachedToken' = NoToken
      BY <2>9, MarkersAssumption DEF Tick, Ticked, TypeOK, Token, MarkersAssumption
    <3>3. cachedTokenPromise # NoPromise => cachedTokenPromise' # NoPromise
      BY <2>9, PromiseFields DEF Tick, TypeOK, NoPromise, Promises, Rejected, Pending, Fulfilled
    <3>4. ASSUME cachedToken # NoToken
          PROVE  /\ cachedToken.lifetime \in Nat \cup {-1}
                 /\ cachedToken'.lifetime = IF cachedToken.lifetime < 0 THEN -1
                                            ELSE cachedToken.lifetime - 1
      BY <2>9, <3>4 DEF Tick, Ticked, TypeOK, Token
    <3>5. Expired => Expired'
      BY <3>2, <3>4 DEF Expired
    <3>6. ASSUME cachedToken # NoToken, Covers(k0) PROVE Covers(k0)'
      <4> DEFINE n == chain[k0].retries
      <4>1. n * Minute + Minute \in Nat /\ n * Minute \in Int /\ chain[k0].delay \in Nat
        <5>1. n \in -1 .. 4 /\ chain[k0].delay \in Nat
          BY DEF TypeOK, Chain, MaxRetries
        <5> HIDE DEF n
        <5>2. n * Minute + Minute = (n + 1) * Minute /\ n + 1 \in Nat
          BY <5>1
        <5> QED
          BY <5>1, <5>2
      <4> QED
        BY <3>1, <3>4, <3>6, <4>1 DEF Covers
    <3> QED
      BY <2>9, <3>1, <3>2, <3>3, <3>5, <3>6 DEF Tick, AliveInv
  <2>10. ASSUME UNCHANGED <<cachedToken, cachedTokenPromise, isDeleted, chain, caller>>
         PROVE  AliveInv(c0, k0)'
    BY <2>10 DEF AliveInv, Covers, Expired
  <2> QED
    BY <2>1, <2>2, <2>3, <2>4, <2>5, <2>6, <2>7, <2>8, <2>9, <2>10
       DEF Next, GetToken, Settle, StartFetchThrows, TimerThrows,
           AddAuthTokenListener, RemoveAuthTokenListener, vars
<1>3. TypeOK /\ AliveInv(c0, k0) => RefreshAlive
  BY DEF TypeOK, AliveInv, Covers, RefreshAlive, Token
<1> QED
  BY <1>1, <1>2, <1>3, TypeCorrect, PTL DEF Spec

-----------------------------------------------------------------------------
(* The life of an app: AppLifecycle. *)

\* What the safety properties rest on: a call of delete() belongs to an app on
\* which delete() was called, and such an app exists and refreshes no token.
Calls ==
    /\ \A a \in Apps : app[a].called => app[a].created /\ ~app[a].refreshing
    /\ \A d \in Deleters : deleter[d].st # "idle" =>
           deleter[d].app \in Apps /\ app[deleter[d].app].called

IInv == AppTypes /\ Calls /\ DeletedNotRegistered /\ DeletedIsEmpty

LEMMA InitIInv == AppInit => IInv
<1> SUFFICES ASSUME AppInit PROVE IInv
  OBVIOUS
<1>1. AppTypes
  <2>1. app \in [Apps -> AppRecord]
    BY DEF AppInit, AppRecord
  <2>2. service \in [Apps -> [Services -> ServiceStates]]
    BY DEF AppInit, ServiceStates
  <2>3. deleter \in [Deleters -> Deleter] /\ apps \in [Names -> Apps \cup {NoApp}]
    BY DEF AppInit, Deleter
  <2> QED
    BY <2>1, <2>2, <2>3 DEF AppTypes
<1>2. \A a \in Apps : ~app[a].called
  BY DEF AppInit
<1> QED
  BY <1>1, <1>2 DEF AppInit, IInv, Calls, DeletedNotRegistered, DeletedIsEmpty

\* INTERNAL.delete() of services: the states stay service states.
LEMMA ClosingType ==
    ASSUME service \in [Apps -> [Services -> ServiceStates]],
           NEW a \in Apps, NEW S \in SUBSET Services
    PROVE  Closing(a, S) \in [Apps -> [Services -> ServiceStates]]
BY DEF Closing, ServiceStates

\* What every call of delete() that gets past removeApp does.
LEMMA DeleteCallIInv ==
    ASSUME IInv, NEW d \in Deleters, NEW a \in Apps, CanDelete(d, a),
           Unregister(a), NEW S \in SUBSET Services, service' = Closing(a, S),
           NEW st \in {"waiting", "thrown"}, NEW W \in SUBSET Services,
           deleter' = [deleter EXCEPT ![d] = [st |-> st, app |-> a, waitsFor |-> W]]
    PROVE  IInv'
<1> USE DEF IInv
<1>1. AppTypes'
  <2>1. app' \in [Apps -> AppRecord]
    BY DEF Unregister, AppTypes, AppRecord
  <2>2. deleter' \in [Deleters -> Deleter]
    BY DEF AppTypes, Deleter
  <2>3. apps' \in [Names -> Apps \cup {NoApp}]
    BY DEF Unregister, AppTypes
  <2> QED
    BY <2>1, <2>2, <2>3, ClosingType DEF AppTypes
<1>2. /\ app'[a].called /\ app'[a].created /\ ~app'[a].refreshing
      /\ \A b \in Apps : /\ app'[b].name = app[b].name
                         /\ app'[b].created = app[b].created
                         /\ app'[b].isDeleted = app[b].isDeleted
                         /\ app'[b].services = app[b].services
                         /\ b # a => app'[b] = app[b]
  BY DEF Unregister, CanDelete, AppTypes, AppRecord
<1>3. \A e \in Deleters : deleter'[e] = deleter[e] \/ (e = d /\ deleter'[e].app = a
                                                     /\ deleter'[e].st # "done")
  BY DEF AppTypes
<1>4. Calls'
  BY <1>2, <1>3 DEF Calls
<1>5. DeletedNotRegistered'
  <2>1. \A n \in Names : apps'[n] # NoApp => apps'[n] = apps[n] /\ n # app[a].name
    BY DEF Unregister, AppTypes
  <2> QED
    BY <1>2, <2>1, AppsAssumption
       DEF DeletedNotRegistered, AppTypes, AppsAssumption
<1>6. DeletedIsEmpty'
  BY <1>2, <1>3 DEF DeletedIsEmpty, Calls
<1> QED
  BY <1>1, <1>4, <1>5, <1>6

\* The invariant is preserved by every step.
LEMMA NextIInv == IInv /\ [AppNext]_appVars => IInv'
<1> SUFFICES ASSUME IInv, [AppNext]_appVars PROVE IInv'
  OBVIOUS
<1>1. ASSUME NEW a \in Apps, InitializeApp(a) PROVE IInv'
  <2>1. AppTypes'
    <3>1. app' \in [Apps -> AppRecord]
      BY <1>1 DEF InitializeApp, IInv, AppTypes, AppRecord
    <3> QED
      BY <1>1, <3>1 DEF InitializeApp, IInv, AppTypes
  <2>2. /\ app'[a].created /\ ~app[a].called /\ ~app'[a].called
        /\ \A b \in Apps : app'[b].name = app[b].name /\ (b # a => app'[b] = app[b])
    BY <1>1 DEF InitializeApp, IInv, AppTypes, AppRecord, Calls
  <2>3. \A e \in Deleters : deleter[e].st # "idle" => deleter[e].app # a
    BY <2>2 DEF IInv, Calls
  <2>4. \A n \in Names : apps'[n] = apps[n] \/ (n = app[a].name /\ apps'[n] = a)
    BY <1>1 DEF InitializeApp, IInv, AppTypes
  <2>5. DeletedNotRegistered'
    BY <2>2, <2>4 DEF IInv, DeletedNotRegistered, AppTypes
  <2>6. Calls'
    <3>1. \A e \in Deleters : deleter'[e] = deleter[e]
      BY <1>1 DEF InitializeApp
    <3>2. \A b \in Apps : app'[b].called => app'[b].created /\ ~app'[b].refreshing
      BY <2>2 DEF IInv, Calls
    <3>3. \A e \in Deleters : deleter'[e].st # "idle" =>
              deleter'[e].app \in Apps /\ app'[deleter'[e].app].called
      BY <2>2, <2>3, <3>1 DEF IInv, Calls
    <3> QED
      BY <3>2, <3>3 DEF Calls
  <2>7. DeletedIsEmpty'
    <3>1. \A e \in Deleters : deleter'[e] = deleter[e]
      BY <1>1 DEF InitializeApp
    <3> SUFFICES ASSUME NEW e \in Deleters, deleter'[e].st = "done"
                 PROVE  LET b == app'[deleter'[e].app]
                        IN  b.isDeleted /\ b.services = {} /\ ~b.refreshing
      BY DEF DeletedIsEmpty
    <3>2. deleter[e].app \in Apps /\ deleter[e].app # a
      BY <2>3, <3>1 DEF IInv, Calls
    <3> QED
      BY <2>2, <3>1, <3>2 DEF IInv, DeletedIsEmpty
  <2> QED
    BY <2>1, <2>5, <2>6, <2>7 DEF IInv
<1>2. ASSUME NEW a \in Apps, NEW s \in Services, GetService(a, s) PROVE IInv'
  <2>1. AppTypes'
    <3>1. app' \in [Apps -> AppRecord]
      BY <1>2 DEF GetService, IInv, AppTypes, AppRecord
    <3>2. service' \in [Apps -> [Services -> ServiceStates]]
      BY <1>2 DEF GetService, IInv, AppTypes, ServiceStates
    <3> QED
      BY <1>2, <3>1, <3>2 DEF GetService, IInv, AppTypes
  <2>2. \A b \in Apps : /\ app'[b].name = app[b].name
                        /\ app'[b].called = app[b].called
                        /\ app'[b].created = app[b].created
                        /\ app'[b].refreshing = app[b].refreshing
                        /\ b # a => app'[b] = app[b] /\ service'[b] = service[b]
    BY <1>2 DEF GetService, IInv, AppTypes, AppRecord
  <2>3. \A e \in Deleters : deleter[e].st = "done" => deleter[e].app # a
    BY <1>2 DEF GetService, IInv, DeletedIsEmpty
  <2>4. UNCHANGED <<apps, deleter>>
    BY <1>2 DEF GetService
  <2>5. Calls' /\ DeletedNotRegistered'
    BY <2>2, <2>4 DEF IInv, Calls, DeletedNotRegistered, AppTypes
  <2>6. DeletedIsEmpty'
    BY <2>2, <2>3, <2>4 DEF IInv, Calls, DeletedIsEmpty
  <2> QED
    BY <2>1, <2>5, <2>6 DEF IInv
<1>3. ASSUME NEW d \in Deleters, NEW a \in Apps, DeleteApp(d, a) PROVE IInv'
  <2>1. app[a].services \in SUBSET Services
    BY DEF IInv, AppTypes, AppRecord
  <2> QED
    BY <1>3, <2>1, DeleteCallIInv DEF DeleteApp
<1>4. ASSUME NEW d \in Deleters, NEW a \in Apps, NEW s \in Services,
             DeleteThrows(d, a, s)
      PROVE  IInv'
  <2>1. PICK before \in SUBSET Services : service' = Closing(a, before)
    BY <1>4 DEF DeleteThrows, IInv, AppTypes, AppRecord
  <2>2. CanDelete(d, a) /\ Unregister(a)
    BY <1>4 DEF DeleteThrows
  <2>3. deleter' = [deleter EXCEPT ![d] =
                       [st |-> "thrown", app |-> a, waitsFor |-> {}]]
    BY <1>4 DEF DeleteThrows
  <2>4. {} \in SUBSET Services
    OBVIOUS
  <2> QED
    BY <2>1, <2>2, <2>3, <2>4, DeleteCallIInv
<1>5. ASSUME NEW a \in Apps, NEW s \in Services, ServiceCloses(a, s) PROVE IInv'
  <2>1. service' \in [Apps -> [Services -> ServiceStates]]
    BY <1>5 DEF ServiceCloses, IInv, AppTypes, ServiceStates
  <2>3. UNCHANGED <<apps, app, deleter>>
    BY <1>5 DEF ServiceCloses
  <2>5. AppTypes'
    BY <2>1, <2>3 DEF IInv, AppTypes
  <2>6. Calls' /\ DeletedNotRegistered' /\ DeletedIsEmpty'
    BY <2>3 DEF IInv, Calls, DeletedNotRegistered, DeletedIsEmpty
  <2> QED
    BY <2>5, <2>6 DEF IInv
<1>6. ASSUME NEW d \in Deleters, DeleteCompletes(d) PROVE IInv'
  <2> DEFINE a == deleter[d].app
  <2>1. a \in Apps /\ app[a].called
    BY <1>6 DEF DeleteCompletes, IInv, Calls
  <2>2. AppTypes'
    <3>1. app' \in [Apps -> AppRecord]
      <4>1. app' = [app EXCEPT ![a].services = {}, ![a].isDeleted = TRUE]
        BY <1>6 DEF DeleteCompletes
      <4>2. app \in [Apps -> AppRecord]
        BY DEF IInv, AppTypes
      <4> HIDE DEF a
      <4> QED
        BY <2>1, <4>1, <4>2 DEF AppRecord
    <3>2. deleter' \in [Deleters -> Deleter]
      BY <1>6 DEF DeleteCompletes, IInv, AppTypes, Deleter
    <3> QED
      BY <1>6, <3>1, <3>2 DEF DeleteCompletes, IInv, AppTypes
  <2>3. /\ app'[a].isDeleted /\ app'[a].services = {}
        /\ \A b \in Apps : /\ app'[b].name = app[b].name
                           /\ app'[b].called = app[b].called
                           /\ app'[b].created = app[b].created
                           /\ app'[b].refreshing = app[b].refreshing
                           /\ b # a => app'[b] = app[b]
    BY <1>6, <2>1 DEF DeleteCompletes, IInv, AppTypes, AppRecord
  <2>4. \A e \in Deleters : /\ deleter'[e].app = deleter[e].app
                            /\ deleter'[e].waitsFor = deleter[e].waitsFor
                            /\ e # d => deleter'[e].st = deleter[e].st
    BY <1>6 DEF DeleteCompletes, IInv, AppTypes, Deleter
  <2>5. deleter[d].st = "waiting"
        /\ \A s \in deleter[d].waitsFor : service[a][s] = "closed"
    BY <1>6 DEF DeleteCompletes
  <2>6. UNCHANGED <<apps, service>>
    BY <1>6 DEF DeleteCompletes
  <2>7. Calls'
    BY <2>1, <2>3, <2>4, <2>5 DEF IInv, Calls
  <2>8. DeletedNotRegistered'
    BY <2>3, <2>6 DEF IInv, DeletedNotRegistered, AppTypes
  <2>9. DeletedIsEmpty'
    BY <2>1, <2>3, <2>4 DEF IInv, Calls, DeletedIsEmpty
  <2> QED
    BY <2>2, <2>7, <2>8, <2>9 DEF IInv
<1>7. ASSUME NEW d \in Deleters, DeleteFails(d) PROVE IInv'
  <2>1. deleter' \in [Deleters -> Deleter]
    BY <1>7 DEF DeleteFails, IInv, AppTypes, Deleter
  <2>2. deleter[d].st = "waiting" /\ deleter'[d].st = "failed"
    BY <1>7 DEF DeleteFails, IInv, AppTypes, Deleter
  <2>3. \A e \in Deleters : /\ deleter'[e].app = deleter[e].app
                            /\ deleter'[e].waitsFor = deleter[e].waitsFor
                            /\ e # d => deleter'[e].st = deleter[e].st
    BY <1>7 DEF DeleteFails, IInv, AppTypes, Deleter
  <2>4. UNCHANGED <<apps, app, service>>
    BY <1>7 DEF DeleteFails
  <2>5. AppTypes'
    BY <2>1, <2>4 DEF IInv, AppTypes
  <2>6. Calls'
    BY <2>2, <2>3, <2>4 DEF IInv, Calls
  <2>7. DeletedNotRegistered'
    BY <2>4 DEF IInv, DeletedNotRegistered
  <2>8. DeletedIsEmpty'
    BY <2>2, <2>3, <2>4 DEF IInv, DeletedIsEmpty
  <2> QED
    BY <2>5, <2>6, <2>7, <2>8 DEF IInv
<1>8. CASE UNCHANGED appVars
  BY <1>8 DEF appVars, IInv, AppTypes, Calls, DeletedNotRegistered, DeletedIsEmpty
<1> QED
  BY <1>1, <1>2, <1>3, <1>4, <1>5, <1>6, <1>7, <1>8 DEF AppNext

\* The type invariant, for every value of the constants: among others, an app is
\* found in the registry under its own name only.
THEOREM AppTypeCorrect == AppSpec => []AppTypeOK
<1>1. IInv => AppTypeOK
  BY DEF IInv, DeletedNotRegistered, AppTypeOK
<1> QED
  BY <1>1, InitIInv, NextIInv, PTL DEF AppSpec

\* Once delete() has unregistered an app the registry never gives it out again.
THEOREM DeletedNotRegisteredCorrect == AppSpec => []DeletedNotRegistered
BY InitIInv, NextIInv, PTL DEF AppSpec, IInv

\* A fulfilled delete() leaves an app with no service and no token refresh.
THEOREM DeletedIsEmptyCorrect == AppSpec => []DeletedIsEmpty
BY InitIInv, NextIInv, PTL DEF AppSpec, IInv

\* What NoSilentReplacement says of a step.
FreedByDelete ==
    \A n \in Names : apps[n] # NoApp /\ apps[n]' # apps[n] =>
        /\ apps[n]' = NoApp
        /\ \E d \in Deleters : deleter[d].st = "idle"
              /\ deleter[d]'.st \in {"waiting", "thrown"}
              /\ app[deleter[d]'.app].name = n

\* A delete() frees the name of its app, and nothing else.
LEMMA DeleteFrees ==
    ASSUME IInv, NEW d \in Deleters, NEW a \in Apps, CanDelete(d, a), Unregister(a),
           NEW st \in {"waiting", "thrown"}, NEW W,
           deleter' = [deleter EXCEPT ![d] = [st |-> st, app |-> a, waitsFor |-> W]]
    PROVE  FreedByDelete
<1>1. /\ apps' = [apps EXCEPT ![app[a].name] = NoApp]
      /\ apps \in [Names -> Apps \cup {NoApp}] /\ deleter \in [Deleters -> Deleter]
  BY DEF Unregister, IInv, AppTypes
<1>2. deleter[d].st = "idle" /\ deleter'[d].st = st /\ deleter'[d].app = a
  BY <1>1 DEF CanDelete
<1>3. ASSUME NEW n \in Names, apps[n]' # apps[n]
      PROVE  n = app[a].name /\ apps[n]' = NoApp
  BY <1>1, <1>3
<1> QED
  BY <1>2, <1>3 DEF FreedByDelete

\* A name that is taken changes hands only through a delete() of an app of that
\* name: neither a second initializeApp nor a late end of an older delete() of the
\* name takes it from its app.
THEOREM NoSilentReplacementCorrect == AppSpec => NoSilentReplacement
<1>1. IInv /\ [AppNext]_appVars => [FreedByDelete]_appVars
  <2> SUFFICES ASSUME IInv, AppNext PROVE FreedByDelete
    OBVIOUS
  <2>1. ASSUME NEW a \in Apps, InitializeApp(a) PROVE FreedByDelete
    <3>1. \A n \in Names : apps[n] # NoApp => apps'[n] = apps[n]
      BY <2>1 DEF InitializeApp, IInv, AppTypes
    <3> QED
      BY <3>1 DEF FreedByDelete
  <2>2. ASSUME UNCHANGED apps PROVE FreedByDelete
    BY <2>2 DEF FreedByDelete
  <2>3. ASSUME NEW d \in Deleters, NEW a \in Apps, DeleteApp(d, a) PROVE FreedByDelete
    BY <2>3, DeleteFrees DEF DeleteApp
  <2>4. ASSUME NEW d \in Deleters, NEW a \in Apps, NEW s \in Services,
               DeleteThrows(d, a, s)
        PROVE  FreedByDelete
    BY <2>4, DeleteFrees DEF DeleteThrows
  <2> QED
    BY <2>1, <2>2, <2>3, <2>4
       DEF AppNext, GetService, ServiceCloses, DeleteCompletes, DeleteFails
<1>2. AppSpec => [][FreedByDelete]_appVars
  BY <1>1, InitIInv, NextIInv, PTL DEF AppSpec
<1> QED
  BY <1>2 DEF NoSilentReplacement, FreedByDelete
=============================================================================
