# Verification of the Firebase Admin SDK for Node.js

TLA+ models of the SDK in `src/src`, checked with TLC on small instances and,
where a result matters for every size, proved with TLAPS. The models are
translated from the TypeScript source; every definition that stands for code is
listed in `PROJECT.json` under `map` with the lines it models.

## 1. The system

The SDK is a library: it runs inside somebody's Node.js process, on one thread.
Nothing runs in parallel inside it, but almost every operation is split over
several callbacks (promise reactions, timers, responses), and callbacks of
different calls interleave. Outside are the servers: the OAuth2 token endpoint,
the metadata server, the public-key endpoint and the Firebase REST APIs. A
request to them may be answered, refused, lost, cut or never answered, and it
may have been carried out in any of these cases. The SDK persists nothing, so
there is no crash recovery in it; a restart is a new process.

### 1.1 Inventory

| Component | Source (`src/src/`) | State | Operations | What is hard | What makes it correct |
|---|---|---|---|---|---|
| Token cache | `firebase-app.ts`, `FirebaseAppInternals` | cached token and promise, refresh timer, listeners, deleted flag | `getToken`, the timer and its retries, listeners, `delete` | overlapping fetches, a timer racing calls, fallback to the cached token, deletion with a fetch in flight | listeners hold the current token, every call is answered, a live token is refreshed in time, a deleted app falls silent |
| Apps and registry | `firebase-namespace.ts`, `firebase-app.ts` | apps by name, services of an app, deleted flag | `initializeApp`, `app`, service getters, `delete` | deletion is asynchronous: names are taken again, services appear and deletions overlap meanwhile; one service may refuse to close | a deleted app is not in the registry and keeps nothing, no app is displaced, every `delete` settles |
| HTTP client | `utils/api-request.ts`, `HttpClient`, `AsyncHttpCall` | attempt in flight, retries made, retry timer | `send`, responses, timeouts, retries | an attempt can end in many ways and more than once, may be carried out and lost, and is retried by four rules at once | one outcome, no attempt after it, transient failures used up, a call with a timeout ends |
| Authorised client | `utils/api-request.ts`, `AuthorizedHttpClient` | none of its own | `send` after `getToken` | one token for all the retries of a call | no attempt with an expired token unless a retry waited past its expiry (not modelled apart from `HttpClient`) |
| Back-off poller | `utils/api-request.ts`, `ExponentialBackoffPoller` | poll in flight, tries, two timers, completed flag | `poll`, answers, deadline | answer, error, deadline and next poll race | one poll at a time, paced, one outcome, ends by the deadline |
| Token verification | `auth/token-verifier.ts`, `auth/auth.ts` | public keys, their expiry, algorithm | `verifyIdToken`, `verifySessionCookie`, `revokeRefreshTokens`, `setJwtVerificationEnabled` | stale keys, concurrent fetches, keys without an expiry, revocation and switches during a call | withdrawn keys, revoked sessions and tokens of another algorithm are refused |
| Token generation | `auth/token-generator.ts` | account id cached by the IAM signer | `createCustomToken`, `sign`, `getAccountId` | the cache, failing discovery | a claim set is signed by the account it names |
| Auth service | `auth/auth.ts`, `auth/auth-api-request.ts` | tenant manager, verifiers | create, update, get, delete and list users; import; sessions; links; providers | create and update are two requests each, may be sent again and run beside other clients; lists are cut, sent and put together again | updates write what they name; what is returned is as new as the call's own write; errors of absence are true; a result belongs to its position |
| User import | `auth/user-import-builder.ts` | request, index map | `buildRequest`, `buildResponse` | invalid users are left out, so server indexes differ from the caller's | each error names the caller's own index, in order |
| Tenants and providers | `auth/tenant-manager.ts`, `tenant.ts`, `auth-config.ts` | tenant-aware services by id | `authForTenant`, CRUD | update masks are computed from what was built, not from what was named | an update writes what its options name and nothing else |
| Credentials, project id | `credential/`, `utils/index.ts` | project id caches | `getAccessToken`, `getApplicationDefault`, `findProjectId` | order of sources, caches in several places, an environment that changes | the services of one app agree on its project |
| Messaging | `messaging/` | none | `send`, batches, multicast, topics | parts of a batch, per-message errors, objects that the caller changes while they are being sent, copies that are none | the n-th result belongs to the n-th message, and what is sent is what was given where messages are copied |
| Project management | `project-management/` | none | apps, certificates, operations | long-running operations polled to the end | an app is returned only when its operation is done |
| Machine learning | `machine-learning/` | operations known of a model | create, update, publish, `waitForUnlocked` | operations on a locked model, polling | an operation's result is that of the model |
| Security rules | `security-rules/` | none | rulesets and releases | create, then release | the released ruleset is the one created |
| Remote config | `remote-config/` | ETag held by templates | get, validate, publish, roll back | concurrent publishers, lost answers | no update overwrites one it has not seen |
| Database, Firestore, Storage, Instance ID | `database/`, `firestore/`, `storage/`, `instance-id/` | database per URL | getters, `delete` | mostly external packages | one database per URL, closed with the app |

### 1.2 Interaction

    FirebaseNamespace -- apps by name --> FirebaseApp -- services --> Auth, Messaging, ...
                                              |                          |
                                     INTERNAL | getToken, delete         | requests
                                              v                          v
           Credential <-- getAccessToken -- FirebaseAppInternals <-- AuthorizedHttpClient
               |                              | listeners                |
               | requests                     v                          v
               +--------> HttpClient     Realtime Database          HttpClient --> AsyncHttpCall --> server
                                                                         ^
                       ProjectManagement, MachineLearning -- ExponentialBackoffPoller

`FirebaseApp.delete()` unregisters the app, stops the token cache and calls
`INTERNAL.delete()` of the services. An `AuthorizedHttpClient` asks the token
cache once per call and then lets an `HttpClient` retry. Pollers call service
functions that make such requests.

## 2. Modules

| Module | Models | Extends or instantiates |
|---|---|---|
| `FirebaseAppInternals` | the token cache of one app | |
| `AppLifecycle` | registry, apps, services and their deletion | |
| `AbstractRequest` | what a request promises to its caller | |
| `HttpClient` | one call of `send()`, its attempts and the server | implements `AbstractRequest` |
| `BackoffPoller` | one `poll()` of a poller | |
| `TokenVerification` | verification of ID tokens and session cookies, the key cache, revocation | |
| `AbstractOperation` | what a call that waits for a long-running operation promises | |
| `RemoteOperation` | the calls of project management and machine learning that poll operations | `BackoffPoller`; implements `AbstractOperation` |
| `UserRequests` | requests of user accounts and their validation | |
| `ProviderRequests` | requests and update masks of providers, tenants and apps | |
| `ServerErrors` | the tables from server codes to client codes | |
| `AdminResources` | users, providers, tenants and apps on the server, with several clients | the three above |
| `UserImport` | `UserImportBuilder` | |
| `MessageRequests` | validation and conversion of messages | |
| `BulkCalls` | the operations on lists | extends `UserImport`; `MessageRequests`, `ServerErrors` |
| `RestCalls` | one request at a time, its attempts and error codes | |
| `RemoteConfig` | templates under ETags, several publishers | `RestCalls` |
| `SecurityRules` | rulesets and releases | `RestCalls` |
| `Publishing` | remote config or security rules, and their properties | `RemoteConfig`, `SecurityRules` |
| `Credentials` | kinds of credentials, the default credential, explicit project ids | |
| `Discovery` | project, signer and databases of an app | `Credentials` |
| `MC*` | instances for TLC: symmetry, sets a `.cfg` cannot write | the module |
| `*_proofs` | theorems and their proofs (`App_proofs` those of the first two) | the module, `TLAPS` |

In every module an action is one JavaScript callback, since one callback runs
at a time and to its end. What JavaScript guarantees about order (promise
reactions run before timers) is a guard where it matters, `MicrotaskQueued` in
`FirebaseAppInternals`. Names follow the source; an operator whose name is
another's with a suffix, as `RefreshPlan_OffByOne`, is a *mutant*: a plausible
bug in the same place. No specification uses one; each is there to show that
the property it is listed with in `PROJECT.json` would notice.

Three layers occur again and again. Pure modules (`UserRequests`,
`ProviderRequests`, `UserImport`, `MessageRequests`, `ServerErrors`, `Credentials`)
hold operators only: what a validator refuses, what a request holds, what an
answer is turned into. Modules with state put them between a caller, an HTTP
client that may send a request again, and a server. Properties compare what the
caller was told with what the server did.

### 2.1 `FirebaseAppInternals`

`cachedToken`, `cachedTokenPromise`, `tokenListeners`, `tokenRefreshTimeout`
and `isDeleted` are the fields of the class. `chain` holds what is in the
closures: a *chain* is a fetch, the timer its success arms, the fetch that
timer starts, and so on. A chain does one thing at a time, and so its name
stands for the promise of its fetch and for its timer handle. `caller` says how
each user's latest `getToken` stands: whether it holds the fetch's own promise
(`raw`) or the cached promise with its `.catch` (`joined`) matters, because only
the second falls back to the cached token.

`getToken` has two branches, `JoinCached` and `StartFetch`, and a third outcome
when the credential throws (`StartFetchThrows`). `FetchSucceeds` is the whole
`.then`: cache, listeners, plan of the refresh, timer. `FetchFails` rejects;
`CatchHandler` is the `.catch` of a joined call, `RetryAfterFailure` the `.catch`
of the timer. Time is relative: a token has a remaining lifetime and a timer a
remaining delay, and `Tick` lowers both; a lifetime stops at -1, since the code
asks only whether the expiry is in the past.

Left out: the wording of errors; listeners that throw; the check of the shape of
a credential's answer, which is one of the ways in which `FetchFails`.

### 2.2 `AppLifecycle`

`apps` is `apps_`, `app` the app objects, `service` the service objects, in
`services_` or no longer, and `deleter` the pending calls of `delete()`. A call
keeps the set of services it found (`waitsFor`) and its own place in the
protocol, so that overlapping calls are told apart. `DeleteThrows` is the case
of a service whose `INTERNAL.delete()` throws instead of rejecting: the services
after it are not asked. A service that is created between `delete()` and its
completion leaves the app with it, unclosed (`FreesAllServices`, which TLC refutes; section 5). Calls that throw before they change anything are not
actions. Left out: `registerService`, options from the environment, hooks.

### 2.3 `HttpClient`

One call of `send()`, with or without a token to be asked for first. `call` is
the `AsyncHttpCall` of the latest attempt: in flight, receiving a regular or a
multipart body, ended, or `stuck` (a cut multipart body, on which no listener
is left). `executed` is the server's side: the attempts that were carried out,
whether or not anybody waits for the answer. `Fails` is the `.catch` of
`sendWithRetry`, shared by all the ways in which an attempt can fail. A call that fails
for want of a token or of a valid configuration makes no attempt.

`AbstractRequest` has the number of attempts, those that were carried out, and the
outcome. `ImplementsRequest` is the refinement, with `Attempts` and `Outcome` as the
mapping. It is what the services' modules assume of a request: up to so many
attempts, none of them known to have been carried out or not until one is answered,
and one outcome. Left out:
building of requests, parsing of bodies, retry configurations with other status
codes than the default 503.

### 2.4 `BackoffPoller`

`numTries`, `completed`, `masterTimer`, `repollTimer` and `promise` are the fields
of the class, `callback` is the call in flight and `elapsed` the clock. `SetTimeout`
models what `setTimeout` does to a delay of zero or beyond 2^31 - 1 ms: it
becomes one millisecond.

### 2.5 `TokenVerification`

`publicKeys`, `publicKeysExpireAt` and `algorithm` are the fields of a
`FirebaseTokenVerifier`. The key set that is cached is named by its version: the
endpoint (`served`) moves from version to version, and with each one a key is
added and the oldest withdrawn. `call` holds the calls of `verifyIdToken` or
`verifySessionCookie`, which differ in wording only. A call checks the claims,
then uses the cached keys or fetches (`EndpointAnswers` is the endpoint's side,
`KeysArrive` the `.then` of `fetchPublicKeys` with the verification that follows
it), and then may look the user up (`UserAnswered`, `UserArrives`). `revocation`
is the calls of `revokeRefreshTokens`, whose request may be late or carried out
twice. A token is a record of what the checks can tell: its key, its algorithm,
whether it is signed with that key, and its times; times of a token are in
seconds, the clock is in ticks, and the rounding between them is the code's.
`floor` and `servedUntil` are history, kept for the properties.

Left out: the look-up of the project id, which has failed or succeeded before
anything here is read; a `max-age` that is not a number.

### 2.6 `RemoteOperation` and `AbstractOperation`

`createAndroidApp()` and `createIosApp()` start an operation by a POST and poll it;
`createModel()`, `updateModel()`, `publishModel()` and `unpublishModel()` start one
and read the model when it has not ended at once; `waitForUnlocked()` polls the
operation that was active when the model was read. The variables of
`BackoffPoller` are the poller's; `phase` is where the call stands, `request` the
POST, PATCH or GET under way with what the service has answered, `operation` the
service's operations, `awaited` the one that the call was told of. `PollAnswered`
is the `.then` of a poll: what it says was true when the service answered.
`PollerSettles` is the continuation of the promise that `poll()` has returned.

`AbstractOperation` has two variables: the operations, and the outcome of the
call. A call has one outcome: the result of an operation that has succeeded, the
resource as it is, the error of an operation that has failed, or nothing about it:
the deadline of the poller is a rejection, for `waitForUnlocked()` too, whose
documentation says otherwise (`WaitResolvesInTime`, which TLC refutes; section 5).
`ImplementsOperation` is the refinement, with `Outcome` as the mapping.

Left out: the reading of an app or model out of a response; the signed URL of a
model's file, which is obtained before the call; other methods, which are single
requests.

### 2.7 `UserRequests`, `ProviderRequests`, `ServerErrors`, `AdminResources`

A caller's options are a function from field names to values, and a value is
the mark of the client that writes it, or null, empty or not valid. A field may be
missing (`Undefined`) or there without a value (`Void`): the code tests some options
with `typeof` and others with `hasOwnProperty`, which differ in just this. An empty
`multiFactorConfig` is `Void` in its fields (`WithoutFactors`), and so is a `multiFactor`
of a user that is no object or has no list of factors, which is dropped.
`UserRequests` and `ProviderRequests` turn options into bodies: with
`deleteAttribute` and `deleteProvider` for users, with `generateUpdateMask()` over
the body for the rest, where a nested value adds its own paths, and an object without
fields is a path by itself, which clears all under it (`PathsUnder`).

`AdminResources` has a `store` of one kind of resource, and a call per client.
`createUser()` and `updateUser()` are a write and a read; the other methods are one
request; `list` reads pages. Every request may be executed and sent again
(`MaxAttempts`), or lost. `seen` is history: what the resource has been since the
call, or since its last write. A listing sees the ids page by page, in an order,
while others create and delete.

What an update writes is then of three sorts: what its options give a value
(`Named`), what the code makes of options that give it none (`Unasked`: a tenant's
undefined `passwordRequired`, an empty `multiFactorConfig`, an undefined display name
of an app), and nothing else. `UpdatesAreExact` says the last; that the second sort is
not empty is what TLC refutes `OnlyNamedChange` with (section 5). The server of the model answers with every
field of a tenant; that it may leave `mfaConfig` out is not modelled.

### 2.8 `UserImport`, `MessageRequests`, `BulkCalls`

`UserImport` is `UserImportBuilder`: `IndexMap` from positions of the upload to
those of the caller, the hash options, and `BuildResponse`. `MessageRequests` says
which parts of a message a validator refuses and which it renames or converts in
place; a payload is the form of each of its parts, with a version that a change by
the caller raises. What a message that is refused has converted of itself before the
refusal is left out.

`BulkCalls` runs one operation on a list: `Call` is what happens before the promise
is returned, `Prepare` the first `.then`, `Serialise` the moment the request is made
into text, `Execute` the outcome of each item on the server, `Arrive` the result. The
text of a batch of messages is made in `Prepare`, by `getMultipartPayload()`.
Some operations keep a copy of what they were given (`Copying`); `deleteUsers()` and
`getUsers()` read the caller's list again for the result, `sendToDevice()` and the
topic operations when the request is made. `heap` tells objects from copies: items
refer to payloads and may share one, and the caller may change its list and its
payloads between any two steps. `deepCopy()` copies plain objects and arrays and
returns instances of a class as they are: `op.made` says what the caller has made its
messages, or the parts of them, of, `DeepCopy` copies or does not, and `Copied` are the calls
whose messages are copied. `sendMulticast()` makes plain objects of its own and so
copies a message that is an instance, but not its parts.

### 2.9 `RestCalls`, `RemoteConfig`, `SecurityRules`, `Publishing`

`RestCalls` is what the two services share: a call is called, sent, answered and
settled; the request may be sent again after it was executed; a failure is from
the SDK or from the server, and `by` says who refused or failed: the arguments, the
look-up of the project (whose code is `unknown-error` in remote config and
`invalid-argument` in security rules), the credential, the network, or the answer,
which the constructors of the results refuse when a part is missing (`Forms`).

In `RemoteConfig`, `templates` is the server's list of versions, `held` the object each
client has, with its ETag. Its `form` is the SDK's own class, as of every template
that the SDK hands out, or a plain object, which a client gets through JSON
(`ToJSON`). A publish or a validation of a plain object keeps a copy; of the SDK's
class it keeps the caller's own object, overwrites its version at once
(`Overwritten`), and reads its content when the request is sent, each time
(`TemplateSent`). A call remembers the contents that its object has had since. `saw` and `blind` are history: which template a publisher had seen, and
whether it asked to overwrite any. In `SecurityRules`, `ReleaseFromSource` is a
creation followed by the release; `getForRelease` is two reads; a malformed answer to
the creation refuses the call after the ruleset was created. The arguments are
those the validators tell apart.

### 2.10 `Credentials` and `Discovery`

`Credentials` decides which default credential there is and which project is
explicit. `Discovery` makes one app with any of them; a behaviour is about one of
three things. *Project*: services ask `findProjectId()`, some remember it, lookups
overlap and may fail, the environment may change. *Token*: `createCustomToken()` asks
the signer for its account and then signs; lookups overlap. *Database*: one database
per URL; `@firebase/database` accepts URLs (`OpaqueUrls`) that `new URL` rejects.

## 3. Runs

| Run | Instance | Shows |
|---|---|---|
| `token_safety` | 2 callers, 2 chains, 1 listener, 2 tokens, lifetimes 1, 3, 12 with a minute of 2, forced refreshes and exceptions | listeners are told the cached token; nobody waits for a finished fetch; after `delete()` timers only run down |
| `token_liveness` | 1 caller, 2 chains, lifetimes 1 and 11, forced refreshes | every call is answered; a deleted app stops arming timers |
| `token_alive` | 1 caller, 1 chain, 12 lifetimes on both sides of five minutes, nothing forced | a token with two minutes to live has a refresh planned or under way |
| `app` | 3 apps, 2 names, 2 services (one may refuse to close), 2 calls of `delete()` | a deleted app keeps no service and no refresh; no name changes hands silently; every `delete()` settles |
| `app_orphaned` (violation) | 2 apps, 1 name, no services | a repeated `delete()` unregisters the app that took the name |
| `http` | 4 retries, back-off factor 0.5 s, longest delay 3 s, three `Retry-After` headers, both kinds of bodies, with and without timeout | responses are true, timeouts are retried to the end, one outcome, a call with a timeout ends; `send()` implements `AbstractRequest` |
| `verify` | 2 calls, 1 revoker, 2 key sets, 4 tokens, `max-age` missing or 2, 2 ticks to the second, an emulator | withdrawn keys and revoked sessions are refused |
| `operations` | the three kinds of calls, 2 operations, delays 1 to 10, deadline 60, a callback that may throw | one poll at a time, paced; a completed poller is quiet; the call settles and implements `AbstractOperation` |
| `auth` | 2 clients, 1 known id, 2 ids the server may give; one client tries every kind of options with up to 2 fields; 2 attempts | updates are exact, own writes are returned, absence is true, listings are complete |
| `bulk` | lists of up to 3 items where 2 are allowed, 1 change by the caller, 2 attempts | results belong to positions; what is sent is what was given, where messages are copied |
| `publishing` | 2 clients, of 2 calls and of 1, both holding the first template, 3 templates over 2 contents, 2 rulesets, 2 attempts; the third template has a time of another precision | no template is overwritten unseen; what is fulfilled was done; refusals have their reason |
| `discovery` | 2 projects, 2 calls of services, 2 tokens, 2 accounts, 2 URLs of which one is opaque, 3 databases, 1 change of the environment | services agree on the project; issuers sign; databases are closed |

### 3.1 Bounds

*Token cache.* Two chains are the fewest that overlap; with two callers one can
hold a fetch's own promise while the other joins it, and a caller can call again
and again. The lifetimes are one below a minute (no retry), one between one and
two minutes (no timer), and one above five minutes (the plain case); `token_alive`
adds each boundary. A minute of two ticks lets time pass within a minute. Chains
bound the fetches and timers alive at once: a call that would need a third waits.

*Apps.* Three apps over two names allow a name to be taken twice over; two calls
of `delete()` are the fewest that overlap. The violation uses the smallest
instance that shows it.

*Operations.* The delays are the defaults of `ExponentialBackoffPoller`,
1, 10 and 60 s, with a second to the tick: the back-off reaches its maximum
after four polls. Two operations are what a POST that is sent again starts.

*HTTP.* The default configuration, in units of half a second; the longest delay is
lowered to 3 s so that the back-off reaches it within four retries.

*Verification.* Two calls are the fewest whose answers can overtake each other.
A withdrawn key may be used until the longest `max-age` (2) and the way of an
answer (1) have passed, and the fourth tick is the first at which it must be
refused. Two ticks to the second make revocations and sessions of the same
second, and of the one before, differ.

*Auth.* One call per client suffices for a write between another's write and
read, and one known id makes them meet; ids the server gives are two, for a
creation that is sent twice. Two fields tell an update of a field from one of its
neighbour, and are enough for nested masks. One client writes a field of its own,
which the other must not touch.

*Bulk.* Three items over a limit of two: a list that is too long, one in which the
item in the middle fails, and an index map that is not the identity. One change
by the caller can fall between any two steps of the call. Messages are plain, are
instances, or have parts that are; payloads are few, one for each of the ways in which
conversion and refusal differ.

*Publishing.* Both clients hold the first template, so that each can publish at once
and overtake the other; the one with two calls can read, edit and publish, or publish
again with the template it was given. A third template is what a publish over an
unseen one would be. One client tries every method, the other reads and publishes.

*Discovery.* Two projects and accounts can disagree; two calls or two tokens are the
fewest lookups that overlap. Three databases are one more than there are URLs.

`CHECK_DEADLOCK FALSE` stands where a behaviour ends: one `send()`, one call that
waits for an operation, apps that are all deleted, the last tick of `verify`, and the finite
numbers of calls in `auth`, `bulk`, `publishing` and `discovery`.

### 3.2 Fairness

The event loop runs every queued promise reaction and returns to its timers and
to the clock. Weak fairness suffices for reactions, which nothing disables;
timers and the clock of the token cache need strong fairness, because a queued
reaction disables them for a moment, again and again. A credential is assumed
to answer or fail: its request has no timeout in the code, so this is an
assumption about the outside, and `EveryCallAnswered` says nothing without it.
Services answer `INTERNAL.delete()`: those of the SDK return settled promises. In
`HttpClient` nothing is assumed of a request without a timeout; one with a timeout
gets an answer, an error or its timeout. In `RemoteOperation` the timers of the
poller fire, and the requests of project management, which have a timeout of ten
seconds, end; requests of machine learning have none, and nothing is assumed of
them, nor of the service: an operation may run for ever and a poll may never be
answered, the deadline alone ends it (`CallSettles` therefore says of machine
learning only that a call that polls settles). Nothing outside is ever assumed to
succeed, and users are never assumed to call. `auth`, `bulk`, `publishing` and
`discovery` state safety only: their calls end when their requests do.

## 4. Proofs

All theorems hold for every value of the constants that satisfies the named
assumptions of the modules. Each safety proof follows the same path: type
correctness first, then an inductive invariant, one step per action.

*`App_proofs`, tokens.* `TypeCorrect`. `ListenersCorrect` is inductive
with types. `NoStrandedWaiterCorrect` is inductive by itself, its heart being
that `ClearTimeout` touches armed timers only. `DeletedTimersWindDownCorrect` is an
action property that uses types only. `RefreshPlanEndsBeforeExpiry` is the
arithmetic of the plan: the first delay and one minute per retry end one minute
before expiry. `RefreshAliveCorrect` needs a stronger invariant,
`AliveInv`: an armed timer with delay `d` and `n` retries *covers* a token of
remaining lifetime `d + n` minutes and one more, and this slack is kept by every
tick, failure and retry. Its assumptions are the ones TLC shows necessary: one
caller, one chain, nothing forced, no exceptions, lifetimes that `setTimeout` can
represent. (With two chains a timer that was orphaned by an overlapping fetch
clears the good one and fails in its place.)

*`App_proofs`, registry.* `AppTypeCorrect`, `DeletedNotRegisteredCorrect`,
`DeletedIsEmptyCorrect`, the last with an invariant that ties a finished call to its
app, which takes no service any more. `NoSilentReplacementCorrect`: `initializeApp` takes free
names only, and the one step that frees a name is the unregistering of a
`delete()` whose app has that name (`DeleteFrees`).

*`RemoteOperation_proofs`, poller.* `TypeCorrect`, `CompletedIsQuietCorrect`,
`KeepsPollingCorrect`, for any delays and deadline. `BackoffHonouredCorrect` is about a sum of delays, which
`BackoffHonoured` defines by a recursive function: the function is shown to exist
(`SumsExist`) and to be the only one (`SumsAgree`), and a poll adds its delay to it.

*`RemoteOperation_proofs`, calls.* `ImplementsPoller`: every step of a call is a step of
its poller or leaves it alone, so that the theorems above hold in every call.
`OperationTypeCorrect`. `ImplementsOperationCorrect`, the refinement of
`AbstractOperation`, needs four facts beside types and the poller's invariant:
what an answer said is still so unless it said that the operation runs
(`Answered`), because operations end once; where a call stands tells which
operation it awaits (`Progress`); the poller's promise tells the truth about that
operation (`PollerTells`); and `IInv` of the poller gives one outcome. The step that
tells the caller is then `Fulfil`, `FulfilEarly`, `FailWith` or `GiveUp` of the abstract
operation, a step of the service is `Advance`, every other is a stutter.

*`HttpClient_proofs`.* `BackOffDelayBounded`: the back-off never exceeds the longest
delay; hence `TransientErrorsRetriedCorrect`: it can never be the reason to give
up. `TypeCorrect`, `ResponseMeansExecutedCorrect`, `SettledMeansQuietCorrect`, from one
invariant that ties the promise, the attempt and the retry timer together
(`Standing`). `ImplementsRequestCorrect` uses it for the refinement of
`AbstractRequest`: `Send`, `TokenArrives` and `RetryFires` are an `Attempt` each; an attempt
that fails is a stutter when it is planned again, and `Fail` when it is the last, a
timeout then having used up the retries; the server's step is `Execute`, also after
the outcome.

*`TokenVerification_proofs`.* `TypeCorrect`. `WithdrawnKeysRefusedCorrect` rests on
`KeysInv`: the key set of an answer under way was served within the last
`MaxLatency` ticks, and the one that is cached was served at most `LongestAge +
MaxLatency` ticks before the cache expires. An answer without `max-age` would
break this if it prolonged the expiry; it does not, and it is used once itself.
`RevokedRefusedCorrect` keeps `floor` below every answer of the look-up,
`OnlyCurrentAlgorithmCorrect` needs types only. They hold for any number of
calls, revocations and rotations, any tokens and any ages.

*`Discovery_proofs`.* `ProjectsAgreeCorrect`: what an app has of its own goes before
the environment (`FixedIsExplicit`), so that a change of the environment matters
only to an app that has nothing; otherwise everything found, remembered or used
is one project (`Agreed`). `SignedByIssuerCorrect` is inductive with types.
`DatabasesClosedCorrect`: a database is remembered before anybody is given it, and
never replaced. They assume that `None` is none of the other values.

*`Publishing_proofs`.* `NoUnseenOverwriteCorrect`. The invariant `SeenInv` follows the
ETag through every hand it passes: in a template object it is that of the template
which was seen (`Seen`), a call that runs sends the ETag of the copy it was given
unless it forces (`GivenSeen`; an edit of the object changes its content, never its ETag), an answer shows that of its template or none
(`Shows`), and a validation gives back the one it was called with. A publish that
the server accepts was therefore based on the newest template, also when it is
sent again after its answer was lost. `ResultsHeldCorrect`, `RefusalsHoldCorrect` and
`PublishTypeCorrect` rest on what the caller is told. `TellsInv`: an answer to a
publish shows a template of this caller with a content that its object has had since
the call, the one at the call when that was a plain object, or it is refused
while a newer template than the one it had seen exists, and both stay so because
templates are only added. `RuInv`, for rulesets: what is answered or returned was
referred to by the release since the call (`during`), a ruleset keeps its source
when others are created or deleted, and a call refused for its arguments or
its project has changed nothing. A call refused for its answer may have, and no
theorem says otherwise. All hold for any number of clients, templates, rulesets
and attempts. They assume that `None` is no error and that a request is sent at
least once.

*`AdminResources_proofs`.* Two theorems about operators come first. `RequestsExact`:
for every kind of resource, what the builders and update masks make of a
caller's options writes the fields the caller gave a value to, and no other (but for
the update of `enableRequestSigning` alone, `Dropped`, and for what `Unasked` lists;
`Touched` is both). `AppliedExact`: applying an
exact request gives these fields what was meant and leaves the rest. `TellsInv` then
relates three things of every call: its own state, the history `seen` and the
`store`. What the store holds is among the versions seen, an answer is a version
since the call or its own write, an error of absence means that absence was seen,
and a listing has met everything steady as far as it has come. Whatever one call
writes is added to the versions of all others by the same step (`OthersTell`).
`OwnWriteReturnedCorrect`, `NotFoundIsTruthfulCorrect`, `ListingCompleteCorrect` and
`AdminTypeCorrect` follow. `UpdatesAreExactCorrect` needs `ExactInv` as well: every
value has an `Origin`, and a field that a call has written `Stays` as it was
meant until another call writes it, also between two attempts of a call whose
answer was lost. The theorems hold for any number of clients, ids, attempts and
named fields; they assume that the marks of clients differ from undefined, null,
empty, invalid and absent values.

*`BulkCalls_proofs`.* The lemmas first: `InOrder` enumerates a set of positions,
once each and increasing (`InOrderFacts`); the index map of an import is increasing
and leads to exactly the valid users (`IndexMapFacts`, `ImportFacts`); counts of
successes and failures add up (`Counts`); and `ValidatedMessages`, a recursive
function over the list, converts every payload once as long as no two items share
one (`ValidatedFacts`). `BulkInv` has six parts. `ShapeInv` and `CopyInv` say that
what is sent are the items given, in their order, but for those that an import
leaves out or, in the operations that read the caller's array late, those
that the caller changed. `AnswerInv` says that the answer has the outcome of each
item in its place, and `Fates` reads what became of an item off the attempt that
was answered. `PayloadInv` says that the objects of the caller stay alike (`Originals`) and
that a call has one object of its own per message (`Copies`), made in the step of
the call itself, before the caller can act; both are about the calls whose messages
are copied (`Copied`, `CopiedSends`), and without that premise TLC refutes them. `ResultsByPosition` and `ErrorsInv` are
set by the step that tells the caller and by refusals. `ResultsByPositionCorrect`,
`SentAsGivenCorrect` and `BulkTypeCorrect` follow, for lists and batches of any
length, any number of attempts and any number of changes by the caller.

*Induction.* The library's induction theorems take an operator as parameter,
which the provers here cannot instantiate. `SetInduction`, in two of the modules,
does without: the numbers for which a fact holds are a set, and if some number is
missing there is a least one (`WFMin`). So sums, orders and recursive functions over
lists of any length are within reach, as long as they are functions and not
`RECURSIVE` operators.

Every safety property of a passing run is stated by a theorem. Proved although no
run states them separately: `DeletedNotRegisteredCorrect`,
`ResponseMeansExecutedCorrect`, which the refinement of `AbstractRequest` implies,
`OnlyCurrentAlgorithmCorrect`, `RefreshPlanEndsBeforeExpiry`,
`BackOffDelayBounded`, `RequestsExact`, `AppliedExact`, `ImplementsPoller` and the types
of the poller.

Only model-checked: liveness (`EveryCallAnswered`, `DeleteQuiesces`,
`DeleteSettles`, `SendEnds`, `CallSettles`), since fairness and ENABLED are out of
the prover's reach.

## 5. Where code and comments differ

`app_orphaned` is a run that TLC finds violated, listed under `findings` in
`PROJECT.json`. Five more statements of comments, declarations or tests are invariants of
the modules that belong to no run. TLC refutes each when it is added to the `.cfg`
named here as an `INVARIANT`:

| Statement | Instance | What the repository says | What the code does |
|---|---|---|---|
| `FreesAllServices` (`AppLifecycle`) | `app.cfg` | `delete()` "frees the resources of all associated services" (`index.d.ts:537-538`) | a service created before `delete()` completes is dropped unclosed (`firebase-app.ts:443-448`) |
| `WaitResolvesInTime` (`RemoteOperation`) | `operations.cfg` | `waitForUnlocked()` "resolves when the model is unlocked or the maximum wait time has passed" (`index.d.ts:813-814`) | it rejects when the time has passed (`api-request.ts:947-954`) |
| `OnlyNamedChange` (`AdminResources`) | `auth.cfg` | the options are "the properties to update on the provided tenant" (`auth.d.ts:2009`) | an undefined `passwordRequired` and an empty `multiFactorConfig` write fields too (`auth-config.ts:393`, `utils/index.ts:178-185`) |
| `PayloadsUntouched` (`BulkCalls`) | `bulk.cfg` | the payload that is renamed is "a copy of the provided payload" (`messaging.ts:793-794`); "should not mutate the payload argument" (`test/unit/messaging/messaging.spec.ts:1423`) | an instance of a class is renamed in place (`deep-copy.ts:66-68`) |
| `PublishedAsGiven` (`Publishing`) | `publishing.cfg` | "Returns a deep copy of an object or array" (`deep-copy.ts:18`) | templates of the SDK's class are kept by reference and published with later edits |

Seen while modelling, and in the models where a name is given. They are not
runs, since each can be read off one definition.

*Token cache and apps.* A forced refresh that fails leaves no refresh planned
(`firebase-app.ts:111`, the comment at 144-147). A refresh that fails after
`delete()` arms a timer again (237, the comment at 160-161; `DeletedTimersWindDown`
and `DeleteQuiesces` say how it ends). A service that is created during `delete()` is
dropped unclosed (446, `index.d.ts:537-538`; `FreesAllServices`). A credential that throws makes
`getToken()` throw, or the refresh timer with nobody to catch it, against the
comment on `Promise.resolve` (`StartFetchThrows`, `TimerThrows`). A token that lives 60
to 119 seconds gets no timer (`RefreshPlan` gives zero retries, `MayArm` refuses). A
joined caller whose fetch failed may be given an expired token (`CatchHandler`,
answer `stale`). Two overlapping fetches arm two timers and `delete()` clears one
(`FetchSucceeds`, `ClearTimeout`). A delay above 2^31 - 1 ms fires at once
(`SetTimeout`).

*HTTP client.* A multipart response that is cut never settles `send()`
(`api-request.ts:611`, the comment at 253-255; `stuck`). The comment on `send()` speaks
of one retry and the default is four; the comment on `backOffFactor` gives a
formula that the first retry does not follow (`BackOffDelay`). A request reported
as an error may have been carried out (`executed`).

*Operations.* `waitForUnlocked()` is documented to resolve "when the model is unlocked
or the maximum wait time has passed" (`index.d.ts:813-814`): it waits for the first of
the active operations only, and it rejects when the time has passed
(`WaitResolvesInTime`). An
operation that is done without a response is polled until the deadline.

*Auth.* A revocation that is sent again after a later one sets `validSince` back
(`ServerRevokes`). A retried `createUser()` without a uid creates two accounts. An
update of `enableRequestSigning` alone is dropped (`auth-config.ts:508`; `Dropped`).
`passwordRequired: undefined` is sent as `enableEmailLinkSignin: true`
(`auth-config.ts:393`), and `multiFactorConfig: {}` clears the configuration of the tenant,
since the mask names `mfaConfig` (`tenant.ts:85-87`, `utils/index.ts:178-185`;
`OnlyNamedChange`). A `multiFactor` that is no object, or without a list of factors, is
dropped and the call is fulfilled (`auth-api-request.ts:1321-1341`, 1407-1431).
`INVALID_SERVICE_ACCOUNT` is translated to a name that `AuthClientErrorCode` lacks
(`error.ts:885`), and the translation throws a `TypeError` (160-163). `deleteUsers()` and
`getUsers()` read the caller's list again for the result (`auth.ts:288`, 372, 381). Listings
of providers and tenants drop the next page token of an answer without a list
(`auth-api-request.ts:1518-1521`; `NextPageToken`;
`ListingComplete` holds because such a server that has more is taken to give a page
that is not empty, as `ServerLists` says). `verifyIdToken()` looks the project up at every call, the services once.

*Messaging.* The length of a batch part counts UTF-16 units and the body is UTF-8
(`batch-request-internal.ts:111`, 131). `sendToDevice()` and the topic operations read
the caller's array when the request is made into text. Instances of a class are not
copied (`deep-copy.ts:66-68`, against `messaging.ts:793-794`; `PayloadsUntouched`): their
fields are renamed in place, an instance that is sent twice is refused the second
time, where a renamed field is not a valid one, and what the caller changes between
the call and the look-up of the project is sent. `sendToDevice()` writes the options
and `registration_ids` into such a payload.

*Remote config and security rules.* `publishTemplate()` and `validateTemplate()` mean to
copy the template (`remote-config-api-client-internal.ts:267`) and keep by reference the
ones that the SDK has handed out: later edits are sent (173-185; `PublishedAsGiven`),
and the version of the caller's object is overwritten (293-296). The errors of the
two services for a project that is not found have different codes, and that of
security rules, `invalid-argument`, is also the code for an answer that lacks a part,
of the creation of a ruleset among others, after the ruleset was created
(`security-rules.ts:101-108`). A time in UTC is checked and then dropped
(`remote-config.ts:366-378`). An answer whose time has another precision than
milliseconds is refused after the publish was carried out (`FineTimes`). A publish
whose answer was lost is sent again and refused for its ETag although it is
published; a rollback, or a forced publish, that is sent again undoes what was
published in between. Invalid arguments of `publishTemplate()` and `rollback()` are
thrown, not rejected. A release that fails leaves its ruleset behind; a release
that is sent again undoes another client's.

*Credentials, databases, the rest.* The caches of credentials ignore the second
caller's `httpAgent` (`credential.ts:62-67`, 114-120). `getDatabase()` with a URL that `new URL`
rejects makes a database that nobody is given and nothing closes
(`database-internal.ts:90-92`, the comment at 39-43; `OpaqueUrls`). A database that is
created after `delete()` stays open. `Storage` with default credentials ignores the
option `projectId` (`StorageProject`). A deletion of an instance id that is sent
again after its answer was lost reports that there is none.

## 6. Not modelled, and why

- *Authorised client.* The composition of the token cache with `HttpClient`: the code
  between them is one call of `getToken()`. One token for all the retries of a call is
  a hazard without a property (`PROJECT.json`, `hazards`).
- *Registry.* `registerService()`, options from the environment and the hooks of
  services beyond their effect on the registry.
- *Auth.* Session cookies, links to actions, look-ups by e-mail and phone number:
  single requests with validated arguments. The cache of `TenantManager` has no
  asynchronous step.
- *Messaging.* The texts of batches, answers of device groups, and the sends of one
  message, which are single requests of parts that are modelled.
- *Single requests elsewhere.* `getModel()`, `listModels()`, certificates and configuration
  files of apps, rules of databases, instance ids.
- *Cryptography and external packages.* Signatures; the clients behind Firestore,
  Storage and the Realtime Database.
- *Declarations and entry points*, and validators of single values, which are
  abstracted to valid or not.
- *Late attempts of services.* `HttpClient` and the revocations of `TokenVerification`
  let the server carry out an attempt that was given up, even after a later one was
  answered. In `AdminResources`, `BulkCalls`, `RemoteConfig` and `SecurityRules` an
  attempt is carried out before it is given up, or not at all.

Worth doing next: late attempts in `AdminResources` and the publishing services; and the
composition of the token cache with `HttpClient`, for the token that outlives its call.
