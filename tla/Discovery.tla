------------------------------- MODULE Discovery ------------------------------
(***************************************************************************)
(* What an app finds out about itself and remembers: the project that its  *)
(* services talk to, the account that signs its custom tokens, and its     *)
(* databases.  Calls overlap, the metadata server may fail, and the        *)
(* environment may change while the app runs.                              *)
(***************************************************************************)
EXTENDS Integers, FiniteSets, Credentials

CONSTANTS
    Caching,      \* services that remember the project
    Calls,        \* calls of services under way at once
    Tokens,       \* calls of createCustomToken()
    Accounts,     \* service accounts the metadata server may name
    Urls,         \* URLs of databases
    OpaqueUrls,   \* URLs that @firebase/database accepts and the class URL does not
    MaxDatabases, \* bound: databases that are created
    MaxChanges    \* bound: changes of the environment

ASSUME UrlsAssumption == OpaqueUrls \subseteq Urls

ASSUME NamesAssumption ==
    /\ None \notin Projects /\ None \notin Accounts /\ None \notin Nat
    /\ Projects \cap {"authorized_user", "other", "missing", "invalid-credential"} = {}

VARIABLES
    aspect,     \* what the behaviour is about
    env,        \* the environment: two files and a project
    changes,
    default,    \* globalAppDefaultCred
    app,        \* the app: its credential and the project of its options
    machine,    \* the project that the machine is in
    known,      \* projectId of the ComputeEngineCredential
    cached,     \* the project that each service remembers
    call,       \* the calls of services
    used,       \* history: the projects that each service has sent requests to
    account,    \* serviceAccountId of the IAMSigner
    token,      \* the calls of createCustomToken()
    databases,  \* INTERNAL.databases
    open,       \* databases that have been created and not closed
    created,    \* how many databases have been created
    handed,     \* history: the databases that callers were given for each URL
    deletions

projectVars == <<known, cached, call, used>>
tokenVars == <<account, token>>
databaseVars == <<databases, open, created, handed, deletions>>
vars == <<aspect, env, changes, default, app, machine, projectVars, tokenVars, databaseVars>>

\* The verification of tokens looks for the project at every call.
Services == Caching \cup {"tokenVerifier"}

Idle == [phase |-> "idle", service |-> None, project |-> None]
NoToken == [phase |-> "idle", issuer |-> None, signer |-> None]

Init ==
    /\ aspect \in {"project", "token", "database"}
    /\ env \in [file : Contents \cup {None}, gcloud : {"missing", "other", "authorized_user"},
                project : Projects \cup {None}]
    /\ machine \in Projects \cup {""}
    /\ changes = 0 /\ default = None /\ app = None
    /\ known = None /\ cached = [s \in Services |-> None]
    /\ call = [k \in Calls |-> Idle] /\ used = [s \in Services |-> {}]
    /\ account = None /\ token = [t \in Tokens |-> NoToken]
    /\ databases = [u \in Urls |-> None] /\ open = {} /\ created = 0
    /\ handed = [u \in Urls |-> {}] /\ deletions = 0

-----------------------------------------------------------------------------
\* applicationDefault(): the first that was found is kept for good.
ApplicationDefault ==
    /\ default = None
    /\ default' = GetApplicationDefault(env)
    /\ UNCHANGED <<aspect, env, changes, app, machine, projectVars, tokenVars, databaseVars>>

\* The credentials an app may be given; without one it looks for the default itself.
Given ==
    {ServiceAccountCredential(p, FALSE) : p \in Projects}
      \cup {RefreshTokenCredential(FALSE), Credential("custom", FALSE, None), default,
            GetApplicationDefault(env)}

\* The account of the signer: a service account, the option, or to be found.
InitializeApp ==
    /\ app = None
    /\ \E c \in Given \ {None}, option \in Projects \cup {None}, id \in Accounts \cup {None} :
         /\ app' = [credential |-> c, projectId |-> option]
         /\ account' = IF c.kind = "cert" THEN c.project ELSE id
    /\ UNCHANGED <<aspect, env, changes, default, machine, projectVars, token, databaseVars>>

EnvironmentChanges ==
    /\ aspect = "project" /\ changes < MaxChanges
    /\ changes' = changes + 1
    /\ \E p \in (Projects \cup {None}) \ {env.project} : env' = [env EXCEPT !.project = p]
    /\ UNCHANGED <<aspect, default, app, machine, projectVars, tokenVars, databaseVars>>

-----------------------------------------------------------------------------
Explicit == GetExplicitProjectId(app.projectId, app.credential, env)

Found(s, p) == [phase |-> "found", service |-> s, project |-> p]

\* findProjectId(): what is explicit; or what the metadata server says, asked until it
\* has answered once; or nothing, when the service refuses the call.
FindProjectId(s) ==
    IF Explicit # None THEN Found(s, Explicit)
    ELSE IF app.credential.kind # "computeEngine" THEN Idle
    ELSE IF known # None THEN Found(s, known)
    ELSE [phase |-> "asking", service |-> s, project |-> None]

\* getProjectId(), getUrlPath(), getProjectIdPrefix(), getPathPrefix().
CallService(k, s) ==
    /\ app # None /\ call[k].phase = "idle"
    /\ call' = [call EXCEPT ![k] = IF cached[s] # None THEN Found(s, cached[s])
                                   ELSE FindProjectId(s)]
    /\ UNCHANGED <<known, cached, used>>

\* ComputeEngineCredential.getProjectId(): an empty answer is not remembered, and is
\* no project for a service.
MetadataAnswers(k) ==
    /\ call[k].phase = "asking"
    /\ known' = IF machine = "" THEN known ELSE machine
    /\ call' = [call EXCEPT ![k] = IF machine = "" THEN Idle ELSE Found(@.service, machine)]
    /\ UNCHANGED <<cached, used>>

MetadataFails(k) ==
    /\ call[k].phase = "asking"
    /\ call' = [call EXCEPT ![k] = Idle]
    /\ UNCHANGED <<known, cached, used>>

\* The service remembers the project and sends its request.
SendRequest(k) ==
    LET s == call[k].service
    IN  /\ call[k].phase = "found"
        /\ cached' = IF s \in Caching THEN [cached EXCEPT ![s] = call[k].project] ELSE cached
        /\ used' = [used EXCEPT ![s] = @ \cup {call[k].project}]
        /\ call' = [call EXCEPT ![k] = Idle]
        /\ UNCHANGED known

-----------------------------------------------------------------------------
\* createCustomToken(): a uid or claims that are not valid are refused.  The account
\* is asked for twice, for the issuer and again to sign.
CreateCustomToken(t, valid) ==
    /\ app # None /\ token[t].phase = "idle"
    /\ token' = [token EXCEPT ![t] =
          IF ~valid THEN [@ EXCEPT !.phase = "refused"]
          ELSE IF account # None THEN [phase |-> "signing", issuer |-> account, signer |-> account]
          ELSE [@ EXCEPT !.phase = "looking"]]
    /\ UNCHANGED account

\* Mutant: the first account that was found is kept.
AccountArrives_First(t, a) ==
    /\ token[t].phase = "looking"
    /\ account' = IF account = None THEN a ELSE account
    /\ token' = [token EXCEPT ![t] = [phase |-> "signing", issuer |-> a, signer |-> account']]

\* IAMSigner.getAccountId(): the answer is the issuer, and sign() asks again, before
\* anything else runs.
AccountArrives(t, a) ==
    /\ token[t].phase = "looking"
    /\ account' = a
    /\ token' = [token EXCEPT ![t] = [phase |-> "signing", issuer |-> a, signer |-> account']]

\* sign(): with the key of the service account, or by a request to the IAM service.
Signs(t) ==
    /\ token[t].phase = "signing"
    /\ token' = [token EXCEPT ![t].phase = "signed"]
    /\ UNCHANGED account

SigningFails(t) ==
    /\ \/ token[t].phase = "looking"
       \/ token[t].phase = "signing" /\ app.credential.kind # "cert"
    /\ token' = [token EXCEPT ![t] = [NoToken EXCEPT !.phase = "failed"]]
    /\ UNCHANGED account

-----------------------------------------------------------------------------
\* Mutant: the database is not remembered.
GetDatabase_Forgotten(u) ==
    /\ app # None /\ created < MaxDatabases
    /\ created' = created + 1
    /\ open' = open \cup {created} /\ handed' = [handed EXCEPT ![u] = @ \cup {created}]
    /\ UNCHANGED <<databases, deletions>>

\* getDatabase(): one for every URL.  When the URL cannot be parsed for the rules of
\* the database, the call throws although the database has been created.
GetDatabase(u) ==
    /\ app # None /\ created < MaxDatabases
    /\ IF databases[u] # None
       THEN handed' = [handed EXCEPT ![u] = @ \cup {databases[u]}]
            /\ UNCHANGED <<databases, open, created>>
       ELSE /\ open' = open \cup {created} /\ created' = created + 1
            /\ IF u \in OpaqueUrls THEN UNCHANGED <<databases, handed>>
               ELSE /\ databases' = [databases EXCEPT ![u] = created]
                    /\ handed' = [handed EXCEPT ![u] = @ \cup {created}]
    /\ UNCHANGED deletions

\* DatabaseInternals.delete(), which overlapping calls of the app's delete() repeat.
DeleteDatabases ==
    /\ app # None /\ deletions < 2
    /\ deletions' = deletions + 1
    /\ open' = open \ {databases[u] : u \in Urls}
    /\ UNCHANGED <<databases, handed, created>>

-----------------------------------------------------------------------------
Next ==
    \/ ApplicationDefault \/ InitializeApp \/ EnvironmentChanges
    \/ /\ aspect = "project"
       /\ \E k \in Calls :
            \/ \E s \in Services : CallService(k, s)
            \/ MetadataAnswers(k) \/ MetadataFails(k) \/ SendRequest(k)
       /\ UNCHANGED <<aspect, env, changes, default, app, machine, tokenVars, databaseVars>>
    \/ /\ aspect = "token"
       /\ \E t \in Tokens :
            \/ \E valid \in BOOLEAN : CreateCustomToken(t, valid)
            \/ \E a \in Accounts : AccountArrives(t, a)
            \/ Signs(t) \/ SigningFails(t)
       /\ UNCHANGED <<aspect, env, changes, default, app, machine, projectVars, databaseVars>>
    \/ /\ aspect = "database"
       /\ (\E u \in Urls : GetDatabase(u)) \/ DeleteDatabases
       /\ UNCHANGED <<aspect, env, changes, default, app, machine, projectVars, tokenVars>>

Spec == Init /\ [][Next]_vars

-----------------------------------------------------------------------------
\* An app with a project in its options, or with a service account, talks to this
\* project only, whatever the environment says; and as long as the environment stays
\* as it is, all services talk to the same project, also when their lookups overlap or
\* fail and are repeated.  The client of Firestore is given the same project, if any.
ProjectsAgree ==
    app # None =>
        LET fixed == IF app.projectId # None THEN app.projectId ELSE app.credential.project
            all == UNION {used[s] : s \in Services}
            firestore == FirestoreProject(app.projectId, app.credential, env)
        IN  /\ fixed # None => all \subseteq {fixed}
            /\ changes = 0 => Cardinality(all) <= 1
            /\ changes = 0 /\ firestore \in Projects => all \subseteq {firestore}
            /\ fixed # None => firestore \in {fixed, "invalid-credential"}

\* A custom token is signed by the account that it names as its issuer, although the
\* account is looked up once for each, and lookups of several tokens overlap.
SignedByIssuer ==
    \A t \in Tokens : token[t].phase \in {"signing", "signed"} =>
        token[t].issuer # None /\ token[t].signer = token[t].issuer

\* All callers of one URL are given the same database, and whenever the service is
\* deleted, no database that a caller has been given stays open.
DatabasesClosed ==
    [][ /\ \A u \in Urls : Cardinality(handed'[u]) <= 1
        /\ deletions' # deletions => \A u \in Urls : handed[u] \cap open' = {} ]_databaseVars
=============================================================================
