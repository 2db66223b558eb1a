----------------------------- MODULE UserRequests -----------------------------
(***************************************************************************)
(* The requests that createUser(), updateUser() and setCustomUserClaims()  *)
(* of src/auth are turned into, what their validators refuse, and the      *)
(* UserRecord that an account is read as.                                  *)
(*                                                                         *)
(* The properties of a user are a function from the caller's field names   *)
(* to values; what matters of a value is who wrote it, or that it is       *)
(* missing, undefined, null, empty or not valid.  A request names the fields of the *)
(* REST API: those it sets, and those it clears.                           *)
(***************************************************************************)
CONSTANTS
    Undefined,  \* a property that is missing
    Void,       \* a property that is undefined; a multiFactor without a list of factors
    Null,       \* a property that is null; a factor list that is null
    Empty,      \* an empty list of factors
    Invalid     \* a value of the wrong type or form

UserFields == {"displayName", "photoURL", "phoneNumber", "disabled",
               "multiFactor", "customClaims"}

\* The fields of an account in the REST API.
UserPaths == {"displayName", "photoUrl", "phoneNumber", "disabled", "mfaInfo",
              "customAttributes"}

Refused == [set |-> [p \in {} |-> Undefined], clear |-> {}, valid |-> FALSE]

-----------------------------------------------------------------------------
\* photoURL becomes photoUrl, in both requests.
RenamePhoto(f) == IF f = "photoURL" THEN "photoUrl" ELSE f

\* validateCreateEditRequest(): every field that is set has a value of the right
\* type; null is of no right type.
ValidateCreateEditRequest(set) ==
    \A p \in DOMAIN set : set[p] \notin {Null, Invalid}

\* The validator of createUser(): claims belong to setCustomUserClaims().
ValidateSignUp(set) ==
    /\ "customAttributes" \notin DOMAIN set
    /\ ValidateCreateEditRequest(set)

\* The part of multiFactor in createNewAccount(): what is not an object with a list
\* of factors is left out, and so is a list without factors.
NewFactors(o) ==
    IF o.multiFactor \in {Undefined, Void, Null, Empty} THEN {} ELSE {"mfaInfo"}

\* createNewAccount(properties): no null is turned into anything.
CreateNewAccount(o) ==
    LET plain == {f \in {"displayName", "photoURL", "phoneNumber", "disabled"} :
                      o[f] # Undefined}
        set == [p \in {RenamePhoto(f) : f \in plain} \cup NewFactors(o) |->
                   IF p = "mfaInfo" THEN o.multiFactor
                   ELSE o[CHOOSE f \in plain : RenamePhoto(f) = p]]
    IN  IF ValidateSignUp(set)
        THEN [set |-> set, clear |-> {}, valid |-> TRUE]
        ELSE Refused

\* deleteAttribute: a name or a photo that is null is deleted.
DeletableParams == {"displayName", "photoURL"}

DeleteAttribute(o) == {f \in DeletableParams : o[f] = Null}

\* deleteProvider: a phone number that is null is unlinked.
DeleteProvider(o) == {f \in {"phoneNumber"} : o[f] = Null}

\* mfa: no factors, as null or as an empty list, is an empty object, which
\* deletes all of them.
DeleteFactors(o) == {f \in {"multiFactor"} : o[f] \in {Null, Empty}}

\* updateExistingAccount(uid, properties).  An account's mfa is read as mfaInfo,
\* its disableUser as disabled.  A multiFactor that is not an object, or whose
\* enrolledFactors are neither null nor a list, is dropped and nothing is said.
UserPathOf(f) ==
    CASE f = "photoURL" -> "photoUrl"
      [] f = "multiFactor" -> "mfaInfo"
      [] f = "customClaims" -> "customAttributes"
      [] OTHER -> f

UpdateExistingAccount(o) ==
    LET cleared == DeleteAttribute(o) \cup DeleteProvider(o) \cup DeleteFactors(o)
        named == {f \in UserFields \ {"customClaims"} :
                    o[f] \notin {Undefined, Void}} \ cleared
        set == [p \in {UserPathOf(f) : f \in named} |->
                   o[CHOOSE f \in named : UserPathOf(f) = p]]
    IN  IF ValidateCreateEditRequest(set)
        THEN [set |-> set, clear |-> {UserPathOf(f) : f \in cleared}, valid |-> TRUE]
        ELSE Refused

\* setCustomUserClaims(uid, claims): null is the empty object; claims that are
\* reserved or too long are refused.
SetCustomUserClaims(o) ==
    IF o.customClaims \in {Undefined, Invalid} THEN Refused
    ELSE IF o.customClaims = Null
         THEN [set |-> [p \in {} |-> Undefined], clear |-> {"customAttributes"},
               valid |-> TRUE]
         ELSE [set |-> [p \in {"customAttributes"} |-> o.customClaims],
               clear |-> {}, valid |-> TRUE]

-----------------------------------------------------------------------------
\* new UserRecord(response), with the constructors it calls.
UserRecord(account) == [f \in UserFields |-> account[UserPathOf(f)]]
=============================================================================
