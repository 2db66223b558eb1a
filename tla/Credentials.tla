------------------------------ MODULE Credentials -----------------------------
(***************************************************************************)
(* The credentials of src/credential, as far as they say who an app is: of *)
(* what kind a credential is, whether it was found rather than given, and  *)
(* the project it names.                                                   *)
(***************************************************************************)
CONSTANTS None, Projects

Credential(kind, implicit, project) == [kind |-> kind, implicit |-> implicit, project |-> project]

ServiceAccountCredential(project, implicit) == Credential("cert", implicit, project)
RefreshTokenCredential(implicit) == Credential("refreshToken", implicit, None)
ComputeEngineCredential == Credential("computeEngine", FALSE, None)

\* What a file may hold, a service account being named by its project; a file may be
\* missing, or hold something that no constructor accepts.
Contents == Projects \cup {"authorized_user", "other", "missing"}

\* credentialFromFile(): None when it throws.
CredentialFromFile(content) ==
    CASE content \in Projects -> ServiceAccountCredential(content, TRUE)
      [] content = "authorized_user" -> RefreshTokenCredential(TRUE)
      [] OTHER -> None

\* getApplicationDefault(): the file that the environment names, if it names one; the
\* file of gcloud, whatever its type says, if there is one; the machine.
GetApplicationDefault(env) ==
    IF env.file # None THEN CredentialFromFile(env.file)
    ELSE IF env.gcloud = "missing" THEN ComputeEngineCredential
    ELSE IF env.gcloud = "authorized_user" THEN RefreshTokenCredential(TRUE)
    ELSE None

\* isApplicationDefault().
IsApplicationDefault(c) == c.kind = "computeEngine" \/ c.implicit

-----------------------------------------------------------------------------
\* Mutant: the environment is asked before the credential.
GetExplicitProjectId_EnvFirst(option, c, env) ==
    IF option # None THEN option ELSE IF env.project # None THEN env.project ELSE c.project

\* getExplicitProjectId(): the option, the service account, the environment.
GetExplicitProjectId(option, c, env) ==
    IF option # None THEN option ELSE IF c.kind = "cert" THEN c.project ELSE env.project

\* The clients of the external packages: what project they are given, or that they
\* cannot be had with the credential.  Storage with default credentials is given none.
FirestoreProject(option, c, env) ==
    IF c.kind = "cert" \/ IsApplicationDefault(c) THEN GetExplicitProjectId(option, c, env)
    ELSE "invalid-credential"

StorageProject(option, c, env) ==
    IF c.kind = "cert" THEN GetExplicitProjectId(option, c, env)
    ELSE IF IsApplicationDefault(c) THEN None ELSE "invalid-credential"
=============================================================================
