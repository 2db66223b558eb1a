------------------------ MODULE FirebaseAppInternals ------------------------
(***************************************************************************)
(* The OAuth2 token cache of one app: class FirebaseAppInternals of        *)
(* src/firebase-app.ts.                                                    *)
(*                                                                         *)
(* JavaScript runs one callback at a time, so an action is one callback:   *)
(* a call of a method, the settlement of the promise of a credential, a    *)
(* promise reaction, a timer.  The behaviours come from the order in which *)
(* callbacks run.                                                          *)
(*                                                                         *)
(* A fetch, the refresh timer its success arms, the fetch that timer       *)
(* starts, and so on are one CHAIN.  A chain is doing one thing at a time, *)
(* so it names both the fetch in flight and the timer handle; chains that  *)
(* end are used again by later fetches.  Several chains live at once when  *)
(* fetches overlap.                                                        *)
(*                                                                         *)
(* Time is relative: a token has a remaining lifetime and a timer a        *)
(* remaining delay, and Tick lowers them.                                  *)
(***************************************************************************)
EXTENDS Integers

CONSTANTS
    Callers,       \* concurrent users of getToken (services and clients)
    Listeners,     \* callbacks that may be passed to addAuthTokenListener
    Chains,        \* bound: fetch/timer chains that may live at one time
    AccessTokens,  \* strings the OAuth2 endpoint may return
    Lifetimes,     \* values of expires_in it may return
    Minute,        \* sixty seconds, in ticks
    TimeoutMax,    \* the longest delay setTimeout accepts (2^31 - 1 ms)
    ForceRefresh,  \* values of forceRefresh that callers pass
    MayThrow,      \* may credential.getAccessToken() throw synchronously?
    NoToken, NoChain, NotListening   \* markers

ASSUME ConstantsAssumption ==
    /\ Minute \in Nat \ {0}
    /\ TimeoutMax \in Nat
    /\ Minute <= TimeoutMax
    /\ Lifetimes \subseteq Nat
    /\ ForceRefresh \subseteq BOOLEAN
    /\ MayThrow \in BOOLEAN

ASSUME MarkersAssumption ==
    /\ NoChain \notin Chains
    /\ NoToken \notin AccessTokens
    /\ NoToken \notin [accessToken : AccessTokens, lifetime : Int]
    /\ NotListening \notin AccessTokens \cup {NoToken}

VARIABLES
    cachedToken,          \* cachedToken_ : NoToken or a token
    cachedTokenPromise,   \* cachedTokenPromise_ : what it is bound to
    tokenListeners,       \* tokenListeners_ : the last string each was given
    tokenRefreshTimeout,  \* tokenRefreshTimeout_ : chain of the last timer set
    isDeleted,            \* isDeleted_
    chain,                \* fetches in flight and timers armed
    caller                \* where each caller's latest getToken stands

vars == <<cachedToken, cachedTokenPromise, tokenListeners,
          tokenRefreshTimeout, isDeleted, chain, caller>>

-----------------------------------------------------------------------------
(* Data. *)

\* FirebaseAccessToken; expirationTime - Date.now() stops counting at -1,
\* below zero being all that `expirationTime < Date.now()` tells apart.
Token == [accessToken : AccessTokens, lifetime : Nat \cup {-1}]

NoPromise   == [st |-> "none", chain |-> NoChain, token |-> NoToken]
Pending(k)  == [st |-> "pending", chain |-> k, token |-> NoToken]
Fulfilled(t) == [st |-> "fulfilled", chain |-> NoChain, token |-> t]
Rejected    == [st |-> "rejected", chain |-> NoChain, token |-> NoToken]
Promises ==
    [st : {"none", "rejected"}, chain : {NoChain}, token : {NoToken}]
    \cup [st : {"pending"}, chain : Chains, token : {NoToken}]
    \cup [st : {"fulfilled"}, chain : {NoChain}, token : Token]

\* "calling": a fetch a getToken call started; "refreshing": a fetch a timer
\* started; "failed": such a fetch was rejected and the .catch of the timer
\* has not run yet; "armed": a timer is set.
Phases == {"idle", "calling", "refreshing", "failed", "armed"}
MaxRetries == 4
Chain == [phase : Phases, delay : Nat, retries : -1 .. MaxRetries]

Idle          == [phase |-> "idle", delay |-> 0, retries |-> 0]
Calling       == [phase |-> "calling", delay |-> 0, retries |-> 0]
Refreshing(n) == [phase |-> "refreshing", delay |-> 0, retries |-> n]
Failed(n)     == [phase |-> "failed", delay |-> 0, retries |-> n]
Armed(d, n)   == [phase |-> "armed", delay |-> d, retries |-> n]

\* "raw": the call started the fetch and holds its promise; "joined": the call
\* holds cachedTokenPromise_.catch(...); "catching": that .catch must now run.
\* The other values are answers: a token (expired or not when handed over), a
\* rejection, or an exception thrown by getToken itself.
Waiting == {"raw", "joined"}
Answers == {"fresh", "stale", "error", "thrown"}
Caller == [st : {"idle", "catching"} \cup Waiting \cup Answers,
           chain : Chains \cup {NoChain}]
At(st) == [st |-> st, chain |-> NoChain]

Ticked(t) == IF t = NoToken THEN NoToken
             ELSE [t EXCEPT !.lifetime = IF t.lifetime < 0 THEN -1
                                         ELSE t.lifetime - 1]
AnswerOf(t) == IF t.lifetime < 0 THEN "stale" ELSE "fresh"

-----------------------------------------------------------------------------
(* Helpers. *)

Expired == cachedToken # NoToken /\ cachedToken.lifetime < 0

\* Mutant: four retries are taken for three after the first attempt.
RefreshPlan_OffByOne(e) ==
    IF e - 5 * Minute > 0
    THEN [delay |-> e - 5 * Minute, retries |-> MaxRetries - 1]
    ELSE [delay |-> e % Minute, retries |-> (e \div Minute) - 1]

\* Mutant: the rule for short-lived tokens is applied to every token.
RefreshPlan_NoCap(e) ==
    [delay |-> e % Minute, retries |-> (e \div Minute) - 1]

\* The refresh timer a token that expires in e asks for.
RefreshPlan(e) ==
    IF e - 5 * Minute > 0
    THEN [delay |-> e - 5 * Minute, retries |-> MaxRetries]
    ELSE [delay |-> e % Minute, retries |-> (e \div Minute) - 1]

\* setTimeout: a delay it cannot represent becomes a millisecond, which is less
\* than a tick.
SetTimeout(d) == IF d <= TimeoutMax THEN d ELSE 0

\* Mutant: the test of isDeleted_ is missing.
MayArm_Deleted(plan) == plan.retries # 0

MayArm(plan) == plan.retries # 0 /\ ~isDeleted

\* clearTimeout(tokenRefreshTimeout_): nothing if that timer has fired.
ClearTimeout(ch) ==
    [k \in Chains |-> IF k = tokenRefreshTimeout /\ ch[k].phase = "armed"
                      THEN Idle ELSE ch[k]]

\* Mutant: listeners are told of a new expiration only.
Notified_Expiration(token) ==
    IF cachedToken # NoToken /\ cachedToken.lifetime = token.lifetime
    THEN tokenListeners
    ELSE [l \in Listeners |-> IF tokenListeners[l] = NotListening
                              THEN NotListening ELSE token.accessToken]

\* The listeners once a fetched token has been cached.
Notified(token) ==
    IF cachedToken = token THEN tokenListeners
    ELSE [l \in Listeners |-> IF tokenListeners[l] = NotListening
                              THEN NotListening ELSE token.accessToken]

\* A promise reaction is queued: it runs before any timer callback.
MicrotaskQueued ==
    \/ \E c \in Callers : caller[c].st = "catching"
    \/ \E k \in Chains : chain[k].phase = "failed"

CanCall(c) == caller[c].st \in {"idle"} \cup Answers
UsesCache(force) == cachedTokenPromise # NoPromise /\ ~force /\ ~Expired

TypeOK ==
    /\ cachedToken \in Token \cup {NoToken}
    /\ cachedTokenPromise \in Promises
    /\ tokenListeners \in [Listeners -> AccessTokens \cup {NoToken, NotListening}]
    /\ tokenRefreshTimeout \in Chains \cup {NoChain}
    /\ isDeleted \in BOOLEAN
    /\ chain \in [Chains -> Chain]
    /\ caller \in [Callers -> Caller]

Init ==
    /\ cachedToken = NoToken
    /\ cachedTokenPromise = NoPromise
    /\ tokenListeners = [l \in Listeners |-> NotListening]
    /\ tokenRefreshTimeout = NoChain
    /\ isDeleted = FALSE
    /\ chain = [k \in Chains |-> Idle]
    /\ caller = [c \in Callers |-> At("idle")]

-----------------------------------------------------------------------------
(* getToken(forceRefresh). *)

\* The branch that returns cachedTokenPromise_.catch(...).
JoinCached(c) ==
    /\ CanCall(c)
    /\ \E force \in ForceRefresh : UsesCache(force)
    /\ \/ /\ cachedTokenPromise.st = "pending"
          /\ caller' = [caller EXCEPT ![c] =
                 [st |-> "joined", chain |-> cachedTokenPromise.chain]]
       \/ /\ cachedTokenPromise.st = "fulfilled"
          /\ caller' = [caller EXCEPT ![c] = At(AnswerOf(cachedTokenPromise.token))]
       \/ /\ cachedTokenPromise.st = "rejected"
          /\ caller' = [caller EXCEPT ![c] = At("catching")]
    /\ UNCHANGED <<cachedToken, cachedTokenPromise, tokenListeners,
                   tokenRefreshTimeout, isDeleted, chain>>

\* The branch that starts a fetch.
StartFetch(c, k) ==
    /\ CanCall(c)
    /\ \E force \in ForceRefresh : ~UsesCache(force)
    /\ ClearTimeout(chain)[k].phase = "idle"
    /\ chain' = [ClearTimeout(chain) EXCEPT ![k] = Calling]
    /\ cachedTokenPromise' = Pending(k)
    /\ caller' = [caller EXCEPT ![c] = [st |-> "raw", chain |-> k]]
    /\ UNCHANGED <<cachedToken, tokenListeners, tokenRefreshTimeout,
                   isDeleted>>

\* The same branch when credential_.getAccessToken() throws: the timeout has
\* been cleared and cachedTokenPromise_ is not assigned.
StartFetchThrows(c) ==
    /\ MayThrow
    /\ CanCall(c)
    /\ \E force \in ForceRefresh : ~UsesCache(force)
    /\ chain' = ClearTimeout(chain)
    /\ caller' = [caller EXCEPT ![c] = At("thrown")]
    /\ UNCHANGED <<cachedToken, cachedTokenPromise, tokenListeners,
                   tokenRefreshTimeout, isDeleted>>

\* The promise chain k's fetch answers with a well-formed token.
FetchSucceeds(k, a, e) ==
    LET token == [accessToken |-> a, lifetime |-> e]
        plan  == RefreshPlan(e)
        arms  == MayArm(plan)
    IN
    /\ chain[k].phase \in {"calling", "refreshing"}
    /\ cachedToken' = token
    /\ tokenListeners' = Notified(token)
    /\ chain' = [chain EXCEPT ![k] =
                     IF arms THEN Armed(SetTimeout(plan.delay), plan.retries)
                     ELSE Idle]
    /\ tokenRefreshTimeout' = IF arms THEN k ELSE tokenRefreshTimeout
    /\ cachedTokenPromise' = IF cachedTokenPromise = Pending(k)
                             THEN Fulfilled(token) ELSE cachedTokenPromise
    /\ caller' = [c \in Callers |->
                     IF caller[c].st \in Waiting /\ caller[c].chain = k
                     THEN At("fresh") ELSE caller[c]]
    /\ UNCHANGED isDeleted

\* The fetch is rejected, or its result has the wrong shape.
FetchFails(k) ==
    /\ chain[k].phase \in {"calling", "refreshing"}
    /\ chain' = [chain EXCEPT ![k] =
                     IF chain[k].phase = "refreshing"
                     THEN Failed(chain[k].retries) ELSE Idle]
    /\ cachedTokenPromise' = IF cachedTokenPromise = Pending(k)
                             THEN Rejected ELSE cachedTokenPromise
    /\ caller' = [c \in Callers |->
                     IF caller[c].st \in Waiting /\ caller[c].chain = k
                     THEN At(IF caller[c].st = "raw" THEN "error"
                             ELSE "catching")
                     ELSE caller[c]]
    /\ UNCHANGED <<cachedToken, tokenListeners, tokenRefreshTimeout,
                   isDeleted>>

\* Mutant: the handler calls getToken() again, which joins the rejected promise
\* that it was to replace.
CatchHandler_Again(c) ==
    /\ caller[c].st = "catching"
    /\ cachedTokenPromise.st # "rejected"
    /\ cachedTokenPromise' = IF cachedToken # NoToken
                             THEN Fulfilled(cachedToken) ELSE NoPromise
    /\ caller' = [caller EXCEPT ![c] =
                     At(IF cachedToken # NoToken THEN AnswerOf(cachedToken)
                        ELSE "error")]
    /\ UNCHANGED <<cachedToken, tokenListeners, tokenRefreshTimeout,
                   isDeleted, chain>>

\* The .catch handler of a call that joined a promise since rejected.
CatchHandler(c) ==
    /\ caller[c].st = "catching"
    /\ cachedTokenPromise' = IF cachedToken # NoToken
                             THEN Fulfilled(cachedToken) ELSE NoPromise
    /\ caller' = [caller EXCEPT ![c] =
                     At(IF cachedToken # NoToken THEN AnswerOf(cachedToken)
                        ELSE "error")]
    /\ UNCHANGED <<cachedToken, tokenListeners, tokenRefreshTimeout,
                   isDeleted, chain>>

-----------------------------------------------------------------------------
(* setTokenRefreshTimeout(delay, numRetries). *)

\* The timer callback: getToken(true).
TimerFires(k) ==
    /\ chain[k].phase = "armed"
    /\ chain[k].delay = 0
    /\ ~MicrotaskQueued
    /\ chain' = ClearTimeout([chain EXCEPT ![k] = Refreshing(chain[k].retries)])
    /\ cachedTokenPromise' = Pending(k)
    /\ UNCHANGED <<cachedToken, tokenListeners, tokenRefreshTimeout,
                   isDeleted, caller>>

\* The same when credential_.getAccessToken() throws: nothing catches it.
TimerThrows(k) ==
    /\ MayThrow
    /\ chain[k].phase = "armed"
    /\ chain[k].delay = 0
    /\ ~MicrotaskQueued
    /\ chain' = ClearTimeout([chain EXCEPT ![k] = Idle])
    /\ UNCHANGED <<cachedToken, cachedTokenPromise, tokenListeners,
                   tokenRefreshTimeout, isDeleted, caller>>

\* Mutant: the retries are not counted down.
RetryAfterFailure_Forever(k) ==
    /\ chain[k].phase = "failed"
    /\ chain' = [chain EXCEPT ![k] =
                     IF chain[k].retries > 0
                     THEN Armed(Minute, chain[k].retries) ELSE Idle]
    /\ tokenRefreshTimeout' = IF chain[k].retries > 0
                              THEN k ELSE tokenRefreshTimeout
    /\ UNCHANGED <<cachedToken, cachedTokenPromise, tokenListeners,
                   isDeleted, caller>>

\* The .catch of the timer callback; it does not look at isDeleted_.
RetryAfterFailure(k) ==
    /\ chain[k].phase = "failed"
    /\ chain' = [chain EXCEPT ![k] =
                     IF chain[k].retries > 0
                     THEN Armed(Minute, chain[k].retries - 1) ELSE Idle]
    /\ tokenRefreshTimeout' = IF chain[k].retries > 0
                              THEN k ELSE tokenRefreshTimeout
    /\ UNCHANGED <<cachedToken, cachedTokenPromise, tokenListeners,
                   isDeleted, caller>>

-----------------------------------------------------------------------------
(* Listeners, deletion and time. *)

AddAuthTokenListener(l) ==
    /\ tokenListeners[l] = NotListening
    /\ tokenListeners' = [tokenListeners EXCEPT ![l] =
           IF cachedToken = NoToken THEN NoToken ELSE cachedToken.accessToken]
    /\ UNCHANGED <<cachedToken, cachedTokenPromise, tokenRefreshTimeout,
                   isDeleted, chain, caller>>

RemoveAuthTokenListener(l) ==
    /\ tokenListeners[l] # NotListening
    /\ tokenListeners' = [tokenListeners EXCEPT ![l] = NotListening]
    /\ UNCHANGED <<cachedToken, cachedTokenPromise, tokenRefreshTimeout,
                   isDeleted, chain, caller>>

\* Mutant: fetches in flight are dropped with the timer.
Delete_Aborts ==
    /\ isDeleted' = TRUE
    /\ chain' = [k \in Chains |-> Idle]
    /\ UNCHANGED <<cachedToken, cachedTokenPromise, tokenListeners,
                   tokenRefreshTimeout, caller>>

Delete ==
    /\ isDeleted' = TRUE
    /\ chain' = ClearTimeout(chain)
    /\ UNCHANGED <<cachedToken, cachedTokenPromise, tokenListeners,
                   tokenRefreshTimeout, caller>>

\* Time passes when no promise reaction is queued.  A timer may be late: it
\* stays at zero until its callback runs.
Tick ==
    /\ ~MicrotaskQueued
    /\ cachedToken' = Ticked(cachedToken)
    /\ cachedTokenPromise' = [cachedTokenPromise EXCEPT !.token = Ticked(@)]
    /\ chain' = [k \in Chains |-> [chain[k] EXCEPT !.delay =
                     IF chain[k].delay > 0 THEN chain[k].delay - 1 ELSE 0]]
    /\ UNCHANGED <<tokenListeners, tokenRefreshTimeout, isDeleted, caller>>

-----------------------------------------------------------------------------
GetToken(c) ==
    \/ JoinCached(c)
    \/ \E k \in Chains : StartFetch(c, k)
    \/ StartFetchThrows(c)

Settle(k) ==
    \/ \E a \in AccessTokens, e \in Lifetimes : FetchSucceeds(k, a, e)
    \/ FetchFails(k)

Next ==
    \/ \E c \in Callers : GetToken(c) \/ CatchHandler(c)
    \/ \E k \in Chains : Settle(k) \/ RetryAfterFailure(k)
                         \/ TimerFires(k) \/ TimerThrows(k)
    \/ \E l \in Listeners : AddAuthTokenListener(l)
                            \/ RemoveAuthTokenListener(l)
    \/ Delete
    \/ Tick

Spec == Init /\ [][Next]_vars

\* The event loop runs every queued reaction and comes back to its timers and
\* to the clock (strong fairness: reactions disable them only for a while);
\* every credential request is answered or fails, which is an assumption about
\* the credential, whose requests carry no timeout.
Fairness ==
    /\ \A c \in Callers : WF_vars(CatchHandler(c))
    /\ \A k \in Chains : /\ WF_vars(Settle(k))
                         /\ WF_vars(RetryAfterFailure(k))
                         /\ SF_vars(TimerFires(k) \/ TimerThrows(k))
    /\ SF_vars(Tick)

FairSpec == Spec /\ Fairness
-----------------------------------------------------------------------------
(* Properties. *)

\* Every registered listener was last given the string cached now, however the
\* fetches that delivered it overlapped (the notification loop of getToken and
\* addAuthTokenListener's immediate call).
ListenersUpToDate ==
    \A l \in Listeners : tokenListeners[l] # NotListening =>
        tokenListeners[l] = IF cachedToken = NoToken THEN NoToken
                            ELSE cachedToken.accessToken

\* Nobody waits for a fetch that is over: the promise that getToken hands out
\* and the promise every caller holds belong to a request still in flight,
\* although timers are cleared and chains replaced under them.
NoStrandedWaiter ==
    LET InFlight(k) == k \in Chains /\ chain[k].phase \in {"calling", "refreshing"}
    IN  /\ cachedTokenPromise.st = "pending" => InFlight(cachedTokenPromise.chain)
        /\ \A c \in Callers :
               caller[c].st \in Waiting => InFlight(caller[c].chain)

\* An app that is not deleted and whose token has two minutes or more to live
\* has a refresh under way or planned: the proactive refresh of getToken and
\* its retries never peter out early.
RefreshAlive ==
    ~isDeleted /\ cachedToken # NoToken /\ cachedToken.lifetime >= 2 * Minute
        => \E k \in Chains : chain[k].phase # "idle"

\* In a deleted app a timer is armed only by the failure of a refresh that a
\* timer had started, and with one retry fewer: setTokenRefreshTimeout goes on
\* after delete() but runs down.
DeletedTimersWindDown ==
    [][isDeleted => \A k \in Chains :
         chain[k]'.phase = "armed" =>
           \/ chain[k].phase = "armed" /\ chain[k]'.retries = chain[k].retries
           \/ chain[k].phase = "failed" /\ chain[k]'.retries = chain[k].retries - 1
      ]_vars

\* Once delete() has been called the app's timers stop keeping the process
\* alive: from some time on none is armed.
DeleteQuiesces == isDeleted ~> [](\A k \in Chains : chain[k].phase # "armed")

\* Every getToken call is answered, whichever fetch it joined and whatever
\* happened to the cached promise meanwhile.
EveryCallAnswered ==
    \A c \in Callers :
        caller[c].st \in Waiting \cup {"catching"} ~> caller[c].st \in Answers
=============================================================================
