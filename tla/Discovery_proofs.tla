--------------------------- MODULE Discovery_proofs ---------------------------
(* Proofs about Discovery, for any number of calls, projects, accounts and  *)
(* databases, and for every environment and every change of it.             *)
EXTENDS Discovery, FiniteSetTheorems, TLAPS

-----------------------------------------------------------------------------
(* Tokens.  What a call of createCustomToken() holds came from one look-up. *)
Issuers == Accounts \cup Projects \cup {None}

TokenInv ==
    /\ account \in Issuers
    /\ token \in [Tokens -> [phase : {"idle", "refused", "looking", "signing", "signed", "failed"},
                             issuer : Issuers, signer : Issuers]]
    /\ SignedByIssuer

(* What is found by default names a project only as a service account.      *)
LEMMA CredentialProjects ==
    ASSUME NEW e, NEW c, c = GetApplicationDefault(e), c # None
    PROVE  /\ c.project \in Projects \cup {None}
           /\ c.kind = "cert" <=> c.project # None
  <1>1. CASE e.file # None
    <2>1. CASE e.file \in Projects
      <3>1. c = [kind |-> "cert", implicit |-> TRUE, project |-> e.file]
        <4>1. e.file # "authorized_user"
          BY <2>1, NamesAssumption
        <4>2. c = ServiceAccountCredential(e.file, TRUE)
          BY <1>1, <2>1, <4>1 DEF GetApplicationDefault, CredentialFromFile
        <4> QED
          BY <4>2 DEF ServiceAccountCredential, Credential
      <3> QED
        BY <2>1, <3>1, NamesAssumption
    <2>2. CASE e.file \notin Projects /\ e.file = "authorized_user"
      BY <1>1, <2>2
      DEF GetApplicationDefault, CredentialFromFile, RefreshTokenCredential, Credential
    <2>3. CASE e.file \notin Projects /\ e.file # "authorized_user"
      BY <1>1, <2>3 DEF GetApplicationDefault, CredentialFromFile
    <2> QED
      BY <2>1, <2>2, <2>3
  <1>2. CASE e.file = None
    BY <1>2 DEF GetApplicationDefault, ComputeEngineCredential, RefreshTokenCredential,
                Credential
  <1> QED
    BY <1>1, <1>2

(* A credential names a project exactly when it is a service account.       *)
CredentialOK(c) ==
    /\ c.project \in Projects \cup {None}
    /\ c.kind = "cert" <=> c.project # None

DefaultOK == default = None \/ CredentialOK(default)

(* So does every credential that an app may be given.                       *)
LEMMA GivenOK ==
    ASSUME DefaultOK, NEW c \in Given \ {None}
    PROVE  CredentialOK(c)
  <1>1. CASE c \in {ServiceAccountCredential(p, FALSE) : p \in Projects}
    BY <1>1, NamesAssumption DEF CredentialOK, ServiceAccountCredential, Credential
  <1>2. CASE c = RefreshTokenCredential(FALSE) \/ c = Credential("custom", FALSE, None)
    BY <1>2 DEF CredentialOK, RefreshTokenCredential, Credential
  <1>3. CASE c = default
    BY <1>3 DEF DefaultOK
  <1>4. CASE c = GetApplicationDefault(env)
    BY <1>4, CredentialProjects DEF CredentialOK
  <1> QED
    BY <1>1, <1>2, <1>3, <1>4 DEF Given

(* The default credential is remembered as it was found.                    *)
LEMMA NextDefaultOK == DefaultOK /\ [Next]_vars => DefaultOK'
  <1> SUFFICES ASSUME DefaultOK, [Next]_vars PROVE DefaultOK'
    OBVIOUS
  <1>1. CASE ApplicationDefault
    <2>1. default' = GetApplicationDefault(env)
      BY <1>1 DEF ApplicationDefault
    <2> QED
      BY <2>1, CredentialProjects DEF DefaultOK, CredentialOK
  <1>2. CASE UNCHANGED default
    BY <1>2 DEF DefaultOK
  <1> QED
    BY <1>1, <1>2 DEF Next, vars, InitializeApp, EnvironmentChanges

(* One step for every action on tokens.                                      *)
LEMMA NextTokenInv == DefaultOK /\ TokenInv /\ [Next]_vars => TokenInv'
  <1> SUFFICES ASSUME DefaultOK, TokenInv, [Next]_vars PROVE TokenInv'
    OBVIOUS
  <1> USE DEF TokenInv, SignedByIssuer, NoToken
  <1>1. CASE InitializeApp
    <2>1. PICK c \in Given \ {None}, id \in Accounts \cup {None} :
             account' = IF c.kind = "cert" THEN c.project ELSE id
      BY <1>1 DEF InitializeApp
    <2>2. account' \in Issuers
      BY <2>1, GivenOK DEF CredentialOK, Issuers
    <2> QED
      BY <1>1, <2>2 DEF InitializeApp
  <1>2. ASSUME NEW t \in Tokens, NEW valid \in BOOLEAN, CreateCustomToken(t, valid)
        PROVE  TokenInv'
    BY <1>2 DEF CreateCustomToken, Issuers
  <1>3. ASSUME NEW t \in Tokens, NEW a \in Accounts, AccountArrives(t, a)
        PROVE  TokenInv'
    BY <1>3, NamesAssumption DEF AccountArrives, Issuers
  <1>4. ASSUME NEW t \in Tokens, Signs(t) PROVE TokenInv'
    BY <1>4 DEF Signs
  <1>5. ASSUME NEW t \in Tokens, SigningFails(t) PROVE TokenInv'
    BY <1>5 DEF SigningFails, Issuers
  <1>6. CASE UNCHANGED tokenVars
    BY <1>6 DEF tokenVars
  <1> QED
    BY <1>1, <1>2, <1>3, <1>4, <1>5, <1>6
    DEF Next, vars, ApplicationDefault, EnvironmentChanges

(* A custom token is signed by the account that it names, however many      *)
(* calls look the account up at once.                                       *)
THEOREM SignedByIssuerCorrect == Spec => []SignedByIssuer
  <1>1. Init => DefaultOK /\ TokenInv
    <2> SUFFICES ASSUME Init PROVE DefaultOK /\ TokenInv
      OBVIOUS
    <2>1. default = None /\ account = None /\ token = [t \in Tokens |-> NoToken]
      BY DEF Init
    <2> QED
      BY <2>1 DEF DefaultOK, TokenInv, SignedByIssuer, NoToken, Issuers
  <1>2. DefaultOK /\ TokenInv /\ [Next]_vars => (DefaultOK /\ TokenInv)'
    BY NextDefaultOK, NextTokenInv
  <1>3. DefaultOK /\ TokenInv => SignedByIssuer
    BY DEF TokenInv
  <1> QED
    BY <1>1, <1>2, <1>3, PTL DEF Spec

-----------------------------------------------------------------------------
(* Databases.  Callers are given the database that the cache holds.         *)
DatabaseInv ==
    /\ created \in Nat
    /\ databases \in [Urls -> Nat \cup {None}]
    /\ handed \in [Urls -> SUBSET Nat]
    /\ \A u \in Urls : handed[u] # {} =>
           databases[u] # None /\ handed[u] = {databases[u]}

(* A database is remembered before anybody is given it.                      *)
LEMMA NextDatabaseInv == DatabaseInv /\ [Next]_vars => DatabaseInv'
  <1> SUFFICES ASSUME DatabaseInv, [Next]_vars PROVE DatabaseInv'
    OBVIOUS
  <1> USE DEF DatabaseInv
  <1>1. ASSUME NEW u \in Urls, GetDatabase(u) PROVE DatabaseInv'
    <2>1. CASE databases[u] # None
      BY <1>1, <2>1 DEF GetDatabase
    <2>2. CASE databases[u] = None /\ u \in OpaqueUrls
      BY <1>1, <2>2 DEF GetDatabase
    <2>3. CASE databases[u] = None /\ u \notin OpaqueUrls
      BY <1>1, <2>3, NamesAssumption DEF GetDatabase
    <2> QED
      BY <2>1, <2>2, <2>3
  <1>2. CASE DeleteDatabases
    BY <1>2 DEF DeleteDatabases
  <1>3. CASE UNCHANGED databaseVars
    BY <1>3 DEF databaseVars
  <1> QED
    BY <1>1, <1>2, <1>3 DEF Next, vars, ApplicationDefault, InitializeApp, EnvironmentChanges

(* All callers of a URL share one database, and a deletion closes every     *)
(* database that a caller was given, however many there are.                *)
THEOREM DatabasesClosedCorrect == Spec => DatabasesClosed
  <1> DEFINE Closed ==
        /\ \A u \in Urls : Cardinality(handed'[u]) <= 1
        /\ deletions' # deletions => \A u \in Urls : handed[u] \cap open' = {}
  <1>1. Init => DatabaseInv
    <2> SUFFICES ASSUME Init PROVE DatabaseInv
      OBVIOUS
    <2>1. /\ created = 0 /\ databases = [u \in Urls |-> None]
          /\ handed = [u \in Urls |-> {}]
      BY DEF Init
    <2> QED
      BY <2>1 DEF DatabaseInv
  <1>2. DatabaseInv /\ [Next]_vars => DatabaseInv'
    BY NextDatabaseInv
  <1>3. DatabaseInv /\ [Next]_vars => [Closed]_databaseVars
    <2> SUFFICES ASSUME DatabaseInv, [Next]_vars PROVE Closed \/ UNCHANGED databaseVars
      OBVIOUS
    <2>1. \A u \in Urls : Cardinality(handed'[u]) <= 1
      <3> SUFFICES ASSUME NEW u \in Urls PROVE Cardinality(handed'[u]) <= 1
        OBVIOUS
      <3>1. handed'[u] = {} \/ handed'[u] = {databases'[u]}
        BY NextDatabaseInv DEF DatabaseInv
      <3>2. Cardinality({}) = 0 /\ Cardinality({databases'[u]}) = 1
        BY FS_EmptySet, FS_Singleton
      <3> QED
        BY <3>1, <3>2
    <2>2. CASE DeleteDatabases
      BY <2>1, <2>2 DEF DatabaseInv, DeleteDatabases
    <2>3. CASE UNCHANGED deletions
      BY <2>1, <2>3
    <2> QED
      BY <2>2, <2>3 DEF Next, vars, databaseVars, ApplicationDefault, InitializeApp,
                        EnvironmentChanges, GetDatabase
  <1> QED
    BY <1>1, <1>2, <1>3, PTL DEF Spec, DatabasesClosed

-----------------------------------------------------------------------------
(* The project.  An app that has none of its own, and whose environment     *)
(* names none, asks the machine.                                            *)
Fixed == IF app.projectId # None THEN app.projectId ELSE app.credential.project

TheProject == IF Explicit # None THEN Explicit ELSE machine

\* The environment has stayed as it was, or does not matter.
Settled == changes = 0 \/ Fixed # None

ProjectTypes ==
    /\ env \in [file : Contents \cup {None}, gcloud : {"missing", "other", "authorized_user"},
               project : Projects \cup {None}]
    /\ machine \in Projects \cup {""}
    /\ changes \in Nat
    /\ known \in Projects \cup {None}
    /\ cached \in [Services -> Projects \cup {None}]
    /\ used \in [Services -> SUBSET Projects]
    /\ call \in [Calls -> [phase : {"idle", "found", "asking"},
                           service : Services \cup {None}, project : Projects \cup {None}]]
    /\ \A k \in Calls : call[k].phase = "found" => call[k].project \in Projects

AppOK == CredentialOK(app.credential) /\ app.projectId \in Projects \cup {None}

(* Whatever has been found, remembered or used is the project of the app.   *)
Agreed ==
    /\ known # None => known = machine
    /\ \A s \in Services : cached[s] \in {None, TheProject} /\ used[s] \subseteq {TheProject}
    /\ \A k \in Calls :
         /\ call[k].phase = "found" => call[k].project = TheProject /\ call[k].service \in Services
         /\ call[k].phase = "asking" => Explicit = None /\ call[k].service \in Services

Untouched ==
    /\ known = None
    /\ \A s \in Services : cached[s] = None /\ used[s] = {}
    /\ \A k \in Calls : call[k].phase = "idle"

ProjectInv ==
    /\ ProjectTypes
    /\ app = None => Untouched
    /\ app # None => AppOK /\ (Settled => Agreed)

(* What an app has of its own goes before the environment.                  *)
LEMMA FixedIsExplicit == AppOK /\ Fixed # None => Explicit = Fixed
  BY DEF AppOK, CredentialOK, Fixed, Explicit, GetExplicitProjectId

(* One step for every action on projects; a change of the environment keeps  *)
(* only what an app has of its own.                                          *)
LEMMA NextProjectInv == DefaultOK /\ ProjectInv /\ [Next]_vars => ProjectInv'
  <1> SUFFICES ASSUME DefaultOK, ProjectInv, [Next]_vars PROVE ProjectInv'
    OBVIOUS
  <1> USE DEF ProjectInv
  <1>1. CASE InitializeApp
    <2>1. PICK c \in Given \ {None}, option \in Projects \cup {None} :
             app' = [credential |-> c, projectId |-> option]
      BY <1>1 DEF InitializeApp
    <2>2. AppOK'
      BY <2>1, GivenOK DEF AppOK, CredentialOK
    <2>3. ProjectTypes'
      BY <1>1 DEF InitializeApp, ProjectTypes, projectVars
    <2>4. Untouched' /\ Agreed'
      BY <1>1 DEF InitializeApp, Untouched, Agreed, projectVars, ProjectTypes
    <2> QED
      BY <2>2, <2>3, <2>4
  <1>2. CASE EnvironmentChanges
    <2>1. UNCHANGED <<app, machine, known, cached, call, used>>
      BY <1>2 DEF EnvironmentChanges, projectVars
    <2>2. ProjectTypes' /\ changes' # 0
      <3>1. changes' \in Nat /\ changes' # 0
        <4>1. changes \in Nat
          BY DEF ProjectTypes
        <4>2. changes' = changes + 1
          BY <1>2 DEF EnvironmentChanges
        <4> QED
          BY <4>1, <4>2
      <3>2. PICK p \in Projects \cup {None} : env' = [env EXCEPT !.project = p]
        BY <1>2 DEF EnvironmentChanges
      <3>3. env' \in [file : Contents \cup {None}, project : Projects \cup {None},
                     gcloud : {"missing", "other", "authorized_user"}]
        BY <3>2 DEF ProjectTypes
      <3> QED
        BY <2>1, <3>1, <3>3 DEF ProjectTypes
    <2>3. app = None => Untouched'
      BY <2>1 DEF Untouched
    <2>4. ASSUME app # None, Settled' PROVE Agreed'
      <3>1. Fixed' = Fixed /\ Fixed # None
        BY <2>1, <2>2, <2>4 DEF Settled, Fixed
      <3>2. AppOK'
        BY <2>1, <2>4 DEF AppOK, CredentialOK
      <3>3. Explicit = Fixed
        BY <2>4, <3>1, FixedIsExplicit
      <3>4. Explicit' = Fixed'
        BY <3>1, <3>2 DEF AppOK, CredentialOK, Fixed, Explicit, GetExplicitProjectId
      <3>5. TheProject' = TheProject
        BY <2>1, <3>1, <3>3, <3>4 DEF TheProject
      <3> QED
        BY <2>1, <2>4, <3>1, <3>3, <3>4, <3>5 DEF Agreed, Settled
    <2>5. app # None => AppOK'
      BY <2>1 DEF AppOK, CredentialOK
    <2> QED
      BY <2>1, <2>2, <2>3, <2>4, <2>5
  <1>3. ASSUME NEW k \in Calls,
               \/ \E s \in Services : CallService(k, s)
               \/ MetadataAnswers(k) \/ MetadataFails(k) \/ SendRequest(k),
               UNCHANGED <<aspect, env, changes, default, app, machine>>
        PROVE  ProjectInv'
    <2>1. app # None
      BY <1>3 DEF CallService, MetadataAnswers, MetadataFails, SendRequest, Untouched
    <2>2. /\ Explicit' = Explicit /\ TheProject' = TheProject /\ (Settled' <=> Settled)
          /\ AppOK'
      BY <1>3, <2>1 DEF Explicit, TheProject, Settled, Fixed, AppOK, CredentialOK
    <2>3. Explicit \in Projects \cup {None}
      BY <2>1 DEF AppOK, CredentialOK, Explicit, GetExplicitProjectId, ProjectTypes
    <2>4. ASSUME NEW s \in Services, CallService(k, s)
          PROVE  ProjectTypes' /\ (Settled => Agreed')
      <3>1. /\ FindProjectId(s) \in [phase : {"idle", "found", "asking"},
                   service : Services \cup {None}, project : Projects \cup {None}]
            /\ FindProjectId(s).phase # "idle" => FindProjectId(s).service = s
            /\ FindProjectId(s).phase = "asking" => Explicit = None
            /\ FindProjectId(s).phase = "found" =>
                  \/ Explicit # None /\ FindProjectId(s).project = Explicit
                  \/ Explicit = None /\ known # None /\ FindProjectId(s).project = known
        BY <2>3 DEF FindProjectId, Found, Idle, ProjectTypes
      <3>2. ProjectTypes'
        BY <1>3, <2>4, <3>1 DEF CallService, ProjectTypes, Found
      <3>3. Settled => Agreed'
        BY <1>3, <2>1, <2>2, <2>4, <3>1
        DEF CallService, ProjectTypes, Agreed, Found, TheProject
      <3> QED
        BY <3>2, <3>3
    <2>5. CASE MetadataAnswers(k)
      <3>1. ProjectTypes'
        BY <1>3, <2>5 DEF MetadataAnswers, ProjectTypes, Found, Idle
      <3>2. Settled => Agreed'
        BY <1>3, <2>1, <2>2, <2>5
        DEF MetadataAnswers, ProjectTypes, Agreed, Found, Idle, TheProject
      <3> QED
        BY <2>1, <2>2, <1>3, <3>1, <3>2
    <2>6. CASE MetadataFails(k)
      <3>1. ProjectTypes'
        BY <1>3, <2>6 DEF MetadataFails, ProjectTypes, Idle
      <3>2. Settled => Agreed'
        BY <1>3, <2>1, <2>2, <2>6 DEF MetadataFails, ProjectTypes, Agreed, Idle
      <3> QED
        BY <2>1, <2>2, <1>3, <3>1, <3>2
    <2>7. CASE SendRequest(k)
      <3>1. ProjectTypes'
        BY <1>3, <2>7 DEF SendRequest, ProjectTypes, Idle
      <3>2. Settled => Agreed'
        BY <1>3, <2>1, <2>2, <2>7 DEF SendRequest, ProjectTypes, Agreed, Idle
      <3> QED
        BY <2>1, <2>2, <1>3, <3>1, <3>2
    <2> QED
      BY <1>3, <2>1, <2>2, <2>4, <2>5, <2>6, <2>7
  <1>4. CASE UNCHANGED <<env, changes, app, machine, known, cached, call, used>>
    BY <1>4 DEF ProjectTypes, Untouched, Agreed, Settled, AppOK, CredentialOK, Fixed,
                Explicit, TheProject
  <1> QED
    BY <1>1, <1>2, <1>3, <1>4 DEF Next, vars, projectVars, ApplicationDefault

(* The services of an app agree on its project, however many calls of them  *)
(* look for it at once, in every environment.                               *)
THEOREM ProjectsAgreeCorrect == Spec => []ProjectsAgree
  <1>1. Init => DefaultOK /\ ProjectInv
    <2> SUFFICES ASSUME Init PROVE DefaultOK /\ ProjectInv
      OBVIOUS
    <2>1. /\ default = None /\ app = None
          /\ env \in [file : Contents \cup {None}, project : Projects \cup {None},
                     gcloud : {"missing", "other", "authorized_user"}]
          /\ machine \in Projects \cup {""} /\ changes = 0 /\ known = None
      BY DEF Init
    <2>2. /\ cached = [s \in Services |-> None] /\ used = [s \in Services |-> {}]
          /\ call = [k \in Calls |-> Idle]
      BY DEF Init
    <2> QED
      BY <2>1, <2>2 DEF DefaultOK, ProjectInv, ProjectTypes, Untouched, Idle
  <1>2. DefaultOK /\ ProjectInv /\ [Next]_vars => (DefaultOK /\ ProjectInv)'
    BY NextDefaultOK, NextProjectInv
  <1>3. ProjectInv => ProjectsAgree
    <2> DEFINE all == UNION {used[s] : s \in Services}
               firestore == FirestoreProject(app.projectId, app.credential, env)
    <2> SUFFICES ASSUME ProjectInv, app # None
                 PROVE  /\ Fixed # None => all \subseteq {Fixed}
                        /\ changes = 0 => Cardinality(all) <= 1
                        /\ changes = 0 /\ firestore \in Projects => all \subseteq {firestore}
                        /\ Fixed # None => firestore \in {Fixed, "invalid-credential"}
      BY DEF ProjectsAgree, Fixed
    <2>1. Settled => all \subseteq {TheProject}
      BY DEF ProjectInv, Agreed
    <2>2. Fixed # None => TheProject = Fixed /\ Explicit = Fixed
      BY FixedIsExplicit DEF ProjectInv, TheProject
    <2>3. firestore \in {Explicit, "invalid-credential"}
      BY DEF FirestoreProject, Explicit
    <2>4. changes = 0 => Cardinality(all) <= 1
      <3> SUFFICES ASSUME changes = 0 PROVE Cardinality(all) <= 1
        OBVIOUS
      <3>1. all = {} \/ all = {TheProject}
        BY <2>1 DEF Settled
      <3>2. Cardinality({}) = 0 /\ Cardinality({TheProject}) = 1
        BY FS_EmptySet, FS_Singleton
      <3> HIDE DEF all
      <3> QED
        BY <3>1, <3>2
    <2>5. firestore \in Projects => firestore = Explicit /\ Explicit # None
      BY <2>3, NamesAssumption
    <2> HIDE DEF all, firestore
    <2> QED
      BY <2>1, <2>2, <2>3, <2>4, <2>5 DEF Settled, TheProject
  <1> QED
    BY <1>1, <1>2, <1>3, PTL DEF Spec
=============================================================================
