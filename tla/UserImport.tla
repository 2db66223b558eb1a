------------------------------ MODULE UserImport ------------------------------
(***************************************************************************)
(* UserImportBuilder of src/auth/user-import-builder.ts: which users of an *)
(* import are uploaded, with which hash options, and how the answer's      *)
(* errors are brought back to the positions of the caller's list.          *)
(***************************************************************************)
EXTENDS Integers, Sequences, FiniteSets

CONSTANT NaN  \* a number field that is missing or not a number

\* populateUploadAccountUser() throws for a user that is not valid: its hashes and
\* second factors first, then everything that validateCreateEditRequest() refuses.
PopulateUploadAccountUser(user) == user.status # "bad"

\* The elements of a set of positions, in order: what a loop over a list pushes.
InOrder(S) ==
    CHOOSE s \in [1..Cardinality(S) -> S] : \A m, n \in DOMAIN s : m < n => s[m] < s[n]

\* populateUsers(): indexMap[n] is where the n-th user that is uploaded was.
IndexMap(users) == InOrder({i \in DOMAIN users : PopulateUploadAccountUser(users[i])})

ValidatedUsers(users) == [n \in DOMAIN IndexMap(users) |-> users[IndexMap(users)[n]]]

\* The positions of the users that are not uploaded, each with an error.
UserImportResultErrors(users) ==
    {i \in DOMAIN users : ~PopulateUploadAccountUser(users[i])}

RequiresHashOptions(users) ==
    \E n \in 1..Len(ValidatedUsers(users)) : ValidatedUsers(users)[n].hash

-----------------------------------------------------------------------------
\* getNumberField(): NaN when missing; a comparison with NaN is false, so it is
\* asked for first.
InRange(n, low, high) == n # NaN /\ low <= n /\ n <= high

\* The rounds an algorithm may have.
MinRounds(algorithm) == IF algorithm \in {"SHA1", "SHA256", "SHA512"} THEN 1 ELSE 0

\* populateOptions(): are the options good for the import?
PopulateOptions(options, requiresHashOptions) ==
    \/ ~requiresHashOptions
    \/ /\ options.algorithm \in {"HMAC_SHA512", "HMAC_SHA256", "HMAC_SHA1", "HMAC_MD5"}
       /\ options.key
    \/ /\ options.algorithm \in {"MD5", "SHA1", "SHA256", "SHA512"}
       /\ InRange(options.rounds, MinRounds(options.algorithm), 8192)
    \/ /\ options.algorithm \in {"PBKDF_SHA1", "PBKDF2_SHA256"}
       /\ InRange(options.rounds, 0, 120000)
    \/ /\ options.algorithm = "SCRYPT"
       /\ options.key
       /\ InRange(options.rounds, 1, 8)
       /\ InRange(options.memoryCost, 1, 14)
    \/ options.algorithm = "BCRYPT"
    \/ /\ options.algorithm = "STANDARD_SCRYPT"
       /\ NaN \notin {options.memoryCost, options.parallelization, options.blockSize,
                      options.derivedKeyLength}

\* The constructor and buildRequest(): what is uploaded, unless the options are
\* missing or not valid, when it throws.
Buildable(users, options) == PopulateOptions(options, RequiresHashOptions(users))

-----------------------------------------------------------------------------
\* The result, when the users at these positions of the list were refused by the SDK
\* and by the server: the errors are sorted by position.
ImportResult(users, refused, failed) ==
    LET at == InOrder(refused \cup failed)
    IN  [successCount |-> Len(ValidatedUsers(users)) - Cardinality(failed),
         failureCount |-> Cardinality(refused) + Cardinality(failed),
         errors |-> [n \in DOMAIN at |->
                        [index |-> at[n],
                         error |-> IF at[n] \in failed THEN "INVALID_USER_IMPORT" ELSE "REFUSED"]]]

\* Mutant: the position in the request is taken for the position in the list.
BuildResponse_NoIndexMap(users, failedUploads) ==
    ImportResult(users, UserImportResultErrors(users), failedUploads)

\* buildResponse(failedUploads): the failures are positions of the request.
BuildResponse(users, failedUploads) ==
    ImportResult(users, UserImportResultErrors(users),
                 {IndexMap(users)[n] : n \in failedUploads})
=============================================================================
