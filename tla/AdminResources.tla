---------------------------- MODULE AdminResources ----------------------------
(***************************************************************************)
(* Users, SAML and OIDC configurations, tenants and apps: resources that   *)
(* the server keeps and that several clients create, read, update and      *)
(* delete.  createUser() and updateUser() are two requests each: the write *)
(* and a read of what was written; the other operations are one.  A        *)
(* request whose answer is lost may be sent again by the HTTP client,      *)
(* after the server has executed it.                                       *)
(*                                                                         *)
(* UserRequests and ProviderRequests say what the requests hold.           *)
(***************************************************************************)
EXTENDS Naturals, FiniteSets

CONSTANTS
    Clients,      \* callers, with one call each; a client marks what it writes
    Thorough,     \* the clients that try every kind of options
    Ids,          \* uids, provider ids, tenant ids and app ids that callers know
    Spares,       \* ids that the server gives to what it names itself
    Initial,      \* the mark of what was there before
    Absent,       \* no such resource; no result
    Undefined, Void, Null, Empty, Invalid,      \* see UserRequests
    MaxAttempts,  \* bound: how often the HTTP client sends a request
    MaxNamed      \* bound: how many fields the options of an update name

ASSUME BoundsAssumption == MaxAttempts \in Nat \ {0} /\ MaxNamed \in Nat

ASSUME ThoroughAssumption == Thorough \subseteq Clients

ASSUME MarksAssumption ==
    /\ {Initial, Absent, Undefined, Void, Null, Empty, Invalid} \cap Clients = {}
    /\ Undefined \notin {Void, Null, Empty, Invalid} \cup Ids \cup Spares
    /\ Void \notin {Null, Empty, Invalid}
    /\ Null \notin {Empty, Invalid} /\ Empty # Invalid

User == INSTANCE UserRequests
Provider == INSTANCE ProviderRequests
Errors == INSTANCE ServerErrors

VARIABLES
    kind,    \* the kind of the resources
    store,   \* the server: what each id holds
    call,    \* the call of each client
    seen     \* history: the id of each call, the ids that it has written, the
             \* versions of the resource since its last write (without one: since
             \* the call), and the ids that have existed ever since the call

vars == <<kind, store, call, seen>>

Kinds == {"user", "saml", "oidc", "tenant", "app"}

OpsOf(k) ==
    CASE k = "user" -> {"create", "update", "claims", "delete", "get", "list"}
      [] k = "app" -> {"update", "get"}
      [] OTHER -> {"create", "update", "delete", "get", "list"}

-----------------------------------------------------------------------------
(* The fields of each kind, as callers name them and as the server does.   *)

Fields(k) ==
    CASE k = "user" -> User!UserFields
      [] k = "saml" -> Provider!SamlFields
      [] k = "oidc" -> Provider!OidcFields
      [] k = "tenant" -> Provider!TenantFields
      [] k = "app" -> Provider!AppFields

PathOf(k, f) ==
    CASE k = "user" -> User!UserPathOf(f)
      [] k = "saml" -> Provider!SamlPath(f)
      [] k = "tenant" -> Provider!TenantPath(f)
      [] OTHER -> f

Paths(k) == {PathOf(k, f) : f \in Fields(k)}

Nameless(k) == [f \in Fields(k) |-> Undefined]

\* The lists and maps, which may be empty.
Collections == {"multiFactor", "x509Certificates", "factorIds", "testPhoneNumbers"}

\* The fields of which undefined is not the same as missing, in some object at least.
ToldApart(k) ==
    CASE k = "user" -> {"multiFactor"}
      [] k = "tenant" -> {"enabled", "passwordRequired", "state", "factorIds"}
      [] OTHER -> {}

\* What a creation or an update may name: claims have an operation of their own.
Editable(k) == Fields(k) \ {"customClaims"}

\* Options that name at most n fields, each with a value of the client's own, null,
\* undefined, empty or (alone) not valid; setDisplayName() is only given what it can
\* send.
Naming(n, c, k) ==
    LET ValuesOf(f) == {c, Null} \cup (IF f \in Collections THEN {Empty} ELSE {})
                                  \cup (IF f \in ToldApart(k) THEN {Void} ELSE {})
    IN  UNION {{[f \in Fields(k) |-> IF f \in DOMAIN v THEN v[f] ELSE Undefined] :
                   v \in {w \in [names -> {c, Void, Null, Empty}] :
                             \A f \in names : w[f] \in ValuesOf(f)}} :
               names \in {m \in SUBSET Editable(k) : Cardinality(m) <= n}}

UpdateOptions(c, k) ==
    IF c \in Thorough
    THEN Naming(MaxNamed, c, k) \cup
         {[Nameless(k) EXCEPT ![f] = Invalid] : f \in IF k = "app" THEN {} ELSE Editable(k)}
    ELSE {[Nameless(k) EXCEPT ![f] = c] : f \in Editable(k)}

\* Options to create with: everything, or all but one field.
CreateOptions(c, k) ==
    LET all == [f \in Fields(k) |-> IF f \in Editable(k) THEN c ELSE Undefined]
    IN  {all} \cup IF c \in Thorough
                   THEN {[all EXCEPT ![f] = v] :
                            f \in Editable(k), v \in {Undefined, Null, Invalid}} \cup
                        {[all EXCEPT ![f] = Void] : f \in ToldApart(k)}
                   ELSE {}

ClaimsOptions(c) ==
    {[Nameless("user") EXCEPT !.customClaims = v] :
        v \in IF c \in Thorough THEN {c, Null, Invalid} ELSE {c}}

Options(c, k, op) ==
    CASE op = "create" -> CreateOptions(c, k)
      [] op = "update" -> UpdateOptions(c, k)
      [] op = "claims" -> ClaimsOptions(c)
      [] OTHER -> {Nameless(k)}

-----------------------------------------------------------------------------
(* The requests. *)

Masked(b) ==
    LET mask == Provider!GenerateUpdateMask(b.body)
    IN  [set |-> [p \in mask |-> b.body[p]],
         clear |-> UNION {Provider!PathsUnder(p) : p \in mask}, valid |-> b.valid]

NoChange == [User!Refused EXCEPT !.valid = TRUE]

UserRequest(op, o) ==
    CASE op = "create" -> User!CreateNewAccount(o)
      [] op = "update" -> User!UpdateExistingAccount(o)
      [] op = "claims" -> User!SetCustomUserClaims(o)

\* createInboundSamlConfig(), updateInboundSamlConfig().
SamlRequest(op, o) == Masked(Provider!SamlBuildServerRequest(o, op = "update"))

\* createOAuthIdpConfig(), updateOAuthIdpConfig().
OidcRequest(op, o) == Masked(Provider!OidcBuildServerRequest(o, op = "update"))

\* createTenant(), updateTenant().
TenantRequest(op, o) == Masked(Provider!TenantBuildServerRequest(o, op = "create"))

\* setDisplayName(), of apps: null deletes the name, and so does undefined.
AppRequest(o) ==
    IF o.displayName \in {Undefined, Null} THEN [NoChange EXCEPT !.clear = {"displayName"}]
    ELSE Masked(Provider!SetDisplayName(o))

IsWrite(op) == op \in {"create", "update", "claims"}

\* What the write of a call sends.
RequestOf(k, op, o) ==
    CASE ~IsWrite(op) -> NoChange
      [] k = "user" /\ IsWrite(op) -> UserRequest(op, o)
      [] k = "saml" /\ IsWrite(op) -> SamlRequest(op, o)
      [] k = "oidc" /\ IsWrite(op) -> OidcRequest(op, o)
      [] k = "tenant" /\ IsWrite(op) -> TenantRequest(op, o)
      [] k = "app" /\ IsWrite(op) -> AppRequest(o)

\* What a client makes of a resource that it was answered.
Parse(k, r) ==
    CASE k = "user" -> User!UserRecord(r)
      [] k = "saml" -> Provider!SamlConfig(r)
      [] k = "oidc" -> Provider!OidcConfig(r)
      [] k = "tenant" -> Provider!TenantOf(r)
      [] k = "app" -> Provider!AppMetadata(r)

\* The server names tenants, and users when the caller does not.
NamedByServer(k) == k \in {"user", "tenant"}
NamedByCaller(k) == k # "tenant"

-----------------------------------------------------------------------------
NoCall == [op |-> "none", id |-> Undefined, options |-> Undefined, phase |-> "idle",
           st |-> "none", attempts |-> 0, answer |-> Absent, result |-> Absent,
           error |-> "none", visited |-> {}, listed |-> {}]

Nothing == [id |-> Undefined, wrote |-> {}, versions |-> {}, steady |-> {}]

\* The error of a resource that is not there, and of one that is.
NotFound(k) ==
    CASE k = "user" -> "USER_NOT_FOUND"
      [] k = "tenant" -> "TENANT_NOT_FOUND"
      [] OTHER -> "CONFIGURATION_NOT_FOUND"

Exists(k) == IF k = "user" THEN "DUPLICATE_LOCAL_ID" ELSE "CONFIGURATION_EXISTS"

Init ==
    /\ kind \in Kinds
    /\ store \in {s \in [Ids \cup Spares -> {Absent, [p \in Paths(kind) |-> Initial]}] :
                   \A id \in Spares : s[id] = Absent}
    /\ call = [c \in Clients |-> NoCall]
    /\ seen = [c \in Clients |-> Nothing]

Sent(r) == [r EXCEPT !.st = "sent", !.attempts = @ + 1]
SettleOk(r, result) == [r EXCEPT !.phase = "ok", !.st = "none", !.answer = Absent,
                                 !.result = result]
SettleError(r, e) == [r EXCEPT !.phase = "failed", !.st = "none", !.answer = Absent,
                               !.error = e]

\* The operation is called: it builds its request and validates it.  What is not
\* valid is refused before anything is sent.
Called(r) ==
    CASE r.op = "get" -> Sent([r EXCEPT !.phase = "read"])
      [] r.op = "list" -> Sent([r EXCEPT !.phase = "list"])
      [] r.op \notin {"get", "list"} /\ RequestOf(kind, r.op, r.options).valid ->
             Sent([r EXCEPT !.phase = "write"])
      [] OTHER -> SettleError([r EXCEPT !.options = Undefined], "invalid")

Resources == Ids \cup Spares

Call(c) ==
    /\ call[c].phase = "idle"
    /\ \E op \in OpsOf(kind) : \E o \in Options(c, kind, op) :
         \E id \in Ids \cup {Undefined} :
           /\ IF id = Undefined
              THEN op = "list" \/ (op = "create" /\ NamedByServer(kind))
              ELSE op # "list" /\ (op = "create" => NamedByCaller(kind))
           /\ call' = [call EXCEPT ![c] = Called([NoCall EXCEPT !.op = op, !.id = id,
                                                                !.options = o])]
           /\ seen' = [seen EXCEPT ![c] =
                 [id |-> id, wrote |-> {},
                  versions |-> IF id = Undefined THEN {} ELSE {store[id]},
                  steady |-> {i \in Resources : store[i] # Absent}]]
    /\ UNCHANGED <<kind, store>>

\* The server, executing the write of c on id.
Written(c, id, new) ==
    /\ store' = [store EXCEPT ![id] = new]
    /\ call' = [call EXCEPT ![c].st = "answered",
                            ![c].answer = [error |-> "none", id |-> id, resource |-> new]]
    /\ seen' = [d \in Clients |->
                  IF d = c
                  THEN [seen[c] EXCEPT !.id = id, !.wrote = @ \cup {id}, !.versions = {new}]
                  ELSE [seen[d] EXCEPT !.versions = IF seen[d].id = id THEN @ \cup {new}
                                                    ELSE @,
                                       !.steady = IF new = Absent THEN @ \ {id} ELSE @]]

Answered(c, e) ==
    /\ call' = [call EXCEPT ![c].st = "answered",
                            ![c].answer = [error |-> e, id |-> call[c].id,
                                           resource |-> Absent]]
    /\ UNCHANGED <<store, seen>>

\* What a request makes of a resource: SET_ACCOUNT_INFO sets some fields of an
\* account and deletes others, PATCH writes the paths of the mask.
Applied(resource, request) ==
    [p \in DOMAIN resource |->
        IF p \in request.clear THEN Undefined
        ELSE IF p \in DOMAIN request.set THEN request.set[p]
        ELSE resource[p]]

ServerCreates(c) ==
    /\ call[c].op = "create"
    /\ LET request == RequestOf(kind, "create", call[c].options)
           new == Applied([p \in Paths(kind) |-> Undefined], request)
       IN  \/ \E id \in IF call[c].id = Undefined THEN Spares ELSE {call[c].id} :
                /\ store[id] = Absent
                /\ Written(c, id, new)
           \/ /\ call[c].id # Undefined
              /\ store[call[c].id] # Absent
              /\ Answered(c, Exists(kind))

ServerUpdates(c) ==
    /\ call[c].op \in {"update", "claims"}
    /\ IF store[call[c].id] = Absent
       THEN Answered(c, NotFound(kind))
       ELSE Written(c, call[c].id,
                    Applied(store[call[c].id],
                            RequestOf(kind, call[c].op, call[c].options)))

ServerDeletes(c) ==
    /\ call[c].op = "delete"
    /\ IF store[call[c].id] = Absent
       THEN Answered(c, NotFound(kind))
       ELSE Written(c, call[c].id, Absent)

\* An attempt of the write reaches the server.
ServerWrites(c) ==
    /\ call[c].phase = "write" /\ call[c].st = "sent"
    /\ ServerCreates(c) \/ ServerUpdates(c) \/ ServerDeletes(c)
    /\ UNCHANGED kind

\* An attempt of a read does.
ServerReads(c) ==
    /\ call[c].phase = "read" /\ call[c].st = "sent"
    /\ call' = [call EXCEPT ![c].st = "answered",
                            ![c].answer = [error |-> IF store[call[c].id] = Absent
                                                     THEN NotFound(kind) ELSE "none",
                                           id |-> call[c].id,
                                           resource |-> store[call[c].id]]]
    /\ UNCHANGED <<kind, store, seen>>

\* An attempt of a listing does: the server goes through some of what is left, in an
\* order of its own, and answers with what exists of it and whether there is more.
\* A page of users may be empty although there is more.
ServerLists(c) ==
    /\ call[c].phase = "list" /\ call[c].st = "sent"
    /\ \E window \in SUBSET (Resources \ call[c].visited) :
         LET page == {id \in window : store[id] # Absent}
             more == Resources # call[c].visited \cup window
         IN  /\ window # {}
             /\ kind # "user" /\ more => page # {}
             /\ call' = [call EXCEPT ![c].st = "answered",
                           ![c].answer = [error |-> "none", window |-> window,
                                          page |-> page, nextPageToken |-> more]]
    /\ UNCHANGED <<kind, store, seen>>

\* The connection breaks, before or after the server has executed the attempt, and
\* the HTTP client sends the request again.
AnswerLost(c) ==
    /\ call[c].st \in {"sent", "answered"} /\ call[c].attempts < MaxAttempts
    /\ call' = [call EXCEPT ![c] = Sent([call[c] EXCEPT !.answer = Absent])]
    /\ UNCHANGED <<kind, store, seen>>

\* The last attempt fails, or an error that is not retried arrives.
RequestFails(c) ==
    /\ call[c].st \in {"sent", "answered"}
    /\ call' = [call EXCEPT ![c] = SettleError(call[c], "network")]
    /\ UNCHANGED <<kind, store, seen>>

-----------------------------------------------------------------------------
\* The errors as clients know them.
ClientError(code) == Errors!AuthError(code)

\* Mutant: the error of getUser() is passed on.
ErrorOf_Plain(r) == ClientError(r.answer.error)

\* A user that was just created and cannot be found is an internal error.
ErrorOf(r) ==
    IF kind = "user" /\ r.op = "create" /\ ClientError(r.answer.error) = "USER_NOT_FOUND"
    THEN "INTERNAL_ERROR" ELSE ClientError(r.answer.error)

\* Mutant: the record is made of what the caller asked for.
GetUser_Echo(r) == SettleOk(r, r.options)

\* createUser(), updateUser(): the user is read once the write is answered.
GetUser(r) ==
    Sent([r EXCEPT !.phase = "read", !.id = r.answer.id, !.answer = Absent,
                   !.attempts = 0])

ReadsBack(r) == kind = "user" /\ r.phase = "write" /\ r.op \in {"create", "update"}

\* Operations that resolve with nothing.
ResolvesEmpty(r) ==
    \/ r.op \in {"delete", "claims"}
    \/ kind = "app" /\ r.op = "update"

\* Mutant: an empty page is the last one, as it is for configurations.
NextPageToken_Users(a) == a.nextPageToken /\ a.page # {}

\* The token that a listing resolves with: configurations and tenants lose it with
\* an empty page, users do not.
NextPageToken(a) == a.nextPageToken /\ (kind = "user" \/ a.page # {})

\* The caller lists the next page as long as there is a token.
NextPage(r) ==
    LET listed == [r EXCEPT !.visited = @ \cup r.answer.window,
                            !.listed = @ \cup r.answer.page, !.answer = Absent,
                            !.attempts = 0]
    IN  IF NextPageToken(r.answer) THEN Sent(listed) ELSE SettleOk(listed, Absent)

\* The answer arrives.
Arrives(c) ==
    /\ call[c].st = "answered"
    /\ LET r == call[c]
       IN  call' = [call EXCEPT ![c] =
              IF r.answer.error # "none" THEN SettleError(r, ErrorOf(r))
              ELSE IF r.op = "list" THEN NextPage(r)
              ELSE IF ReadsBack(r) THEN GetUser(r)
              ELSE IF ResolvesEmpty(r) THEN SettleOk(r, Absent)
              ELSE SettleOk(r, Parse(kind, r.answer.resource))]
    /\ UNCHANGED <<kind, store, seen>>

Next ==
    \E c \in Clients :
        \/ Call(c)
        \/ ServerWrites(c) \/ ServerReads(c) \/ ServerLists(c)
        \/ AnswerLost(c) \/ RequestFails(c) \/ Arrives(c)

Spec == Init /\ [][Next]_vars

-----------------------------------------------------------------------------
(* What the caller means by its options. *)

\* Null deletes a field of a user and empties the test phone numbers of a tenant.
Intended(f, v) ==
    CASE kind = "user" /\ (v = Null \/ (f = "multiFactor" /\ v = Empty)) -> Undefined
      [] kind = "tenant" /\ v = Null -> Empty
      [] kind = "tenant" /\ f \in Provider!MultiFactorFields /\ v = Void -> Undefined
      [] kind = "app" /\ v = Null -> Undefined
      [] OTHER -> v

\* enableRequestSigning is sent with the rest of idpConfig or not at all.
Dropped(o, f) ==
    /\ kind = "saml" /\ f = "enableRequestSigning"
    /\ \A g \in {"idpEntityId", "ssoURL", "x509Certificates"} : o[g] = Undefined

\* The options give the field a value.
Named(o, f) == o[f] \notin {Undefined, Void} /\ ~Dropped(o, f)

\* What is written although the options give it no value: an undefined
\* passwordRequired makes the password optional, a multiFactorConfig without values
\* clears the configuration, and setDisplayName() deletes the name.
Unasked(o, f) ==
    CASE kind = "tenant" /\ f = "passwordRequired" -> o[f] = Void
      [] kind = "tenant" /\ f \in Provider!MultiFactorFields -> Provider!WithoutFactors(o)
      [] kind = "app" -> o[f] = Undefined
      [] OTHER -> FALSE

Touched(o, f) == Named(o, f) \/ Unasked(o, f)

Names(c, f) == IsWrite(call[c].op) /\ Named(call[c].options, f)

Touches(c, f) == IsWrite(call[c].op) /\ Touched(call[c].options, f)

\* Another call has written the field, or all of them.
Overwritten(c, f) ==
    \E d \in Clients \ {c} :
        /\ seen[c].id \in seen[d].wrote
        /\ call[d].op \in {"create", "delete"} \/ Touches(d, f)

StoredValues == Clients \cup {Initial, Undefined, Void, Empty}

\* No resource is what stands for none.
ASSUME AbsentAssumption == \A k \in Kinds : Absent \notin [Paths(k) -> StoredValues]

\* No resource ever holds a value that the validators must refuse, calls and their
\* results have the form the operations give them, and a call that is refused has
\* sent nothing.
AdminTypeOK ==
    /\ kind \in Kinds
    /\ \A id \in Resources : store[id] # Absent =>
          store[id] \in [Paths(kind) -> StoredValues]
    /\ \A c \in Clients :
          /\ call[c].phase \in {"idle", "write", "read", "list", "ok", "failed"}
          /\ call[c].attempts \in 0..MaxAttempts
          /\ call[c].error = "invalid" => seen[c].wrote = {}
          /\ call[c].result # Absent => call[c].result \in [Fields(kind) -> StoredValues]

\* An update writes what its options name and nothing else (but for what Unasked
\* lists), whatever other updates run beside it and however often it is sent: a
\* value that was not there before belongs to a call that named that very field (or
\* to a creation that left it out), and what a fulfilled call named is there unless
\* another call has written it.  updateUser(), updateProviderConfig(),
\* updateTenant(), setDisplayName(), through the update masks and deleteAttribute.
UpdatesAreExact ==
    \A id \in Resources : store[id] # Absent =>
        \A f \in Fields(kind) :
            LET v == store[id][PathOf(kind, f)]
            IN  /\ v = Initial \/ \E c \in Clients :
                        /\ id \in seen[c].wrote
                        /\ \/ Touches(c, f) /\ v = Intended(f, call[c].options[f])
                           \/ call[c].op = "create" /\ v = Undefined
                /\ \A c \in Clients :
                        (/\ call[c].phase = "ok" /\ seen[c].id = id
                         /\ Touches(c, f) /\ ~Overwritten(c, f))
                            => v = Intended(f, call[c].options[f])

\* The options are the properties to set or to update, as auth.d.ts has it of
\* createTenant() and updateTenant(): a field to which no call has given a value is
\* as it was, or as a creation left it.  The code writes what Unasked lists, too.
OnlyNamedChange ==
    \A id \in Resources : store[id] # Absent =>
        \A f \in Fields(kind) :
            LET v == store[id][PathOf(kind, f)]
            IN  v = Initial \/ \E c \in Clients :
                    /\ id \in seen[c].wrote
                    /\ Names(c, f) \/ (call[c].op = "create" /\ v = Undefined)

\* What a call resolves with is a version of the resource that is at least as new
\* as the call's own write (as the call, for a read), although createUser() and
\* updateUser() read it with a second request that others may come before.
OwnWriteReturned ==
    \A c \in Clients :
        call[c].result # Absent =>
            call[c].result \in {Parse(kind, r) : r \in seen[c].versions \ {Absent}}

\* An error that says that a resource does not exist is true: the resource was
\* absent at some time since the call (since the call's own write), and a creation
\* never fails like that.
NotFoundIsTruthful ==
    \A c \in Clients :
        call[c].phase = "failed" /\ call[c].error = NotFound(kind) =>
            call[c].op # "create" /\ Absent \in seen[c].versions

\* Who lists page by page until there is no token has seen every resource that was
\* there all the time, whatever was created and deleted meanwhile.
ListingComplete ==
    \A c \in Clients :
        call[c].op = "list" /\ call[c].phase = "ok" => seen[c].steady \subseteq call[c].listed
=============================================================================
