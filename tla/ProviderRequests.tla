--------------------------- MODULE ProviderRequests ---------------------------
(***************************************************************************)
(* The requests that provider configurations, tenants and app metadata are *)
(* created and updated with: SAMLConfig, OIDCConfig and Tenant of src/auth *)
(* build a body from the caller's options, and an update sends, beside the *)
(* body, the mask of the paths it is about.  The server writes the paths   *)
(* of the mask and no other.                                               *)
(***************************************************************************)
CONSTANTS
    Undefined,  \* a property that is missing
    Void,       \* a property that is there, and undefined
    Null, Empty, Invalid

SamlFields == {"enabled", "displayName", "idpEntityId", "ssoURL", "x509Certificates",
               "enableRequestSigning", "rpEntityId", "callbackURL"}
OidcFields == {"enabled", "displayName", "clientId", "issuer"}
TenantFields == {"displayName", "enabled", "passwordRequired", "state",
                 "factorIds", "testPhoneNumbers"}
AppFields == {"displayName"}

-----------------------------------------------------------------------------
\* A body that could not be built: validate() has thrown.
NoBody == [p \in {} |-> Undefined]
Body(b, isValid) == [body |-> IF isValid THEN b ELSE NoBody, valid |-> isValid]

\* Values that make a condition of JavaScript true: an empty array is one.
Truthy(v) == v \notin {Undefined, Null}

\* Mutant: what is undefined is in the mask too.
GenerateUpdateMask_All(body) == DOMAIN body

\* generateUpdateMask(): the paths of what is defined; null, arrays and objects
\* without fields are paths of their own, and so are terminal paths.
GenerateUpdateMask(body) == {p \in DOMAIN body : body[p] # Undefined}

\* What the server clears when the mask names an object that has no fields.
PathsUnder(p) ==
    IF p = "mfaConfig" THEN {"mfaConfig.state", "mfaConfig.enabledProviders"} ELSE {}

-----------------------------------------------------------------------------
(* SAML. *)

\* SAMLConfig.validate(): an update may leave out what a creation must have.
SamlValidate(o, ignoreMissingFields) ==
    /\ \A f \in {"idpEntityId", "ssoURL", "rpEntityId", "callbackURL",
                 "x509Certificates"} :
           \/ ignoreMissingFields /\ o[f] = Undefined
           \/ o[f] \notin {Undefined, Null, Invalid}
    /\ \A f \in {"enabled", "displayName", "enableRequestSigning"} :
           o[f] \notin {Null, Invalid}

\* idpConfig is sent when one of three fields is given; enableRequestSigning is
\* part of it, and not one of the three.
IdpConfig(o) ==
    IF \E f \in {"idpEntityId", "ssoURL", "x509Certificates"} : Truthy(o[f])
    THEN {"idpConfig.idpEntityId", "idpConfig.ssoUrl", "idpConfig.signRequest",
          "idpConfig.idpCertificates"}
    ELSE {}

SpConfig(o) ==
    IF Truthy(o.callbackURL) \/ Truthy(o.rpEntityId)
    THEN {"spConfig.spEntityId", "spConfig.callbackUri"}
    ELSE {}

SamlPath(f) ==
    CASE f = "idpEntityId" -> "idpConfig.idpEntityId"
      [] f = "ssoURL" -> "idpConfig.ssoUrl"
      [] f = "x509Certificates" -> "idpConfig.idpCertificates"
      [] f = "enableRequestSigning" -> "idpConfig.signRequest"
      [] f = "rpEntityId" -> "spConfig.spEntityId"
      [] f = "callbackURL" -> "spConfig.callbackUri"
      [] OTHER -> f

\* SAMLConfig.buildServerRequest().
SamlBuildServerRequest(o, ignoreMissingFields) ==
    Body([p \in {"enabled", "displayName"} \cup IdpConfig(o) \cup SpConfig(o) |->
             o[CHOOSE f \in SamlFields : SamlPath(f) = p]],
         SamlValidate(o, ignoreMissingFields))

\* new SAMLConfig(response), unless the answer lacks a required part.
SamlConfig(r) == [f \in SamlFields |-> r[SamlPath(f)]]

-----------------------------------------------------------------------------
(* OIDC. *)

\* Mutant: an update skips the fields that are falsy.
OidcValidate_Falsy(o, ignoreMissingFields) ==
    \A f \in OidcFields : o[f] # Invalid

\* OIDCConfig.validate().
OidcValidate(o, ignoreMissingFields) ==
    /\ \A f \in {"clientId", "issuer"} :
           \/ ignoreMissingFields /\ o[f] = Undefined
           \/ o[f] \notin {Undefined, Null, Invalid}
    /\ \A f \in {"enabled", "displayName"} : o[f] \notin {Null, Invalid}

\* OIDCConfig.buildServerRequest(): fields keep their names.
OidcBuildServerRequest(o, ignoreMissingFields) ==
    Body([p \in OidcFields |-> o[p]], OidcValidate(o, ignoreMissingFields))

\* new OIDCConfig(response).
OidcConfig(r) == [f \in OidcFields |-> r[f]]

-----------------------------------------------------------------------------
(* Tenants. *)

\* EmailSignInConfig.validate(), MultiFactorAuthConfig.validate().
EmailSignInValidate(o) ==
    \A f \in {"enabled", "passwordRequired"} : o[f] \notin {Null, Invalid}

MultiFactorAuthValidate(o) ==
    \A f \in {"state", "factorIds"} : o[f] \notin {Null, Invalid}

\* validateTestPhoneNumbers(); null is for updates, where it clears the map.
ValidateTestPhoneNumbers(o, createRequest) ==
    /\ o.testPhoneNumbers # Invalid
    /\ o.testPhoneNumbers = Null => ~createRequest

\* Tenant.validate().
TenantValidate(o, createRequest) ==
    /\ o.displayName \notin {Null, Invalid, Empty}
    /\ EmailSignInValidate(o)
    /\ ValidateTestPhoneNumbers(o, createRequest)
    /\ MultiFactorAuthValidate(o)

\* EmailSignInConfig.buildServerRequest(), MultiFactorAuthConfig.
\* buildServerRequest(): a field is sent when the options have it.
EmailSignInPath(f) ==
    IF f = "enabled" THEN "allowPasswordSignup" ELSE "enableEmailLinkSignin"

MultiFactorPath(f) ==
    IF f = "state" THEN "mfaConfig.state" ELSE "mfaConfig.enabledProviders"

TenantPath(f) ==
    CASE f \in {"enabled", "passwordRequired"} -> EmailSignInPath(f)
      [] f \in {"state", "factorIds"} -> MultiFactorPath(f)
      [] OTHER -> f

\* The fields that a body has a value for.  enableEmailLinkSignin is the negation of
\* passwordRequired, of an undefined one too: Void, of this field, stands for true.
Given(o) ==
    {f \in TenantFields : \/ o[f] \notin {Undefined, Void}
                          \/ f = "passwordRequired" /\ o[f] = Void}

MultiFactorFields == {"state", "factorIds"}

\* A multiFactorConfig that gives neither of its fields: the body has a mfaConfig
\* without fields, which the mask names as a whole.
WithoutFactors(o) ==
    /\ \E f \in MultiFactorFields : o[f] = Void
    /\ \A f \in MultiFactorFields : o[f] \in {Undefined, Void}

\* Tenant.buildServerRequest(): null test phone numbers become an empty map.
TenantBuildServerRequest(o, createRequest) ==
    LET valueOf(f) == IF o[f] = Null THEN Empty ELSE o[f]
        mfaConfig == IF WithoutFactors(o) THEN {"mfaConfig"} ELSE {}
    IN  Body([p \in {TenantPath(f) : f \in Given(o)} \cup mfaConfig |->
                 IF p = "mfaConfig" THEN Empty
                 ELSE valueOf(CHOOSE f \in Given(o) : TenantPath(f) = p)],
             TenantValidate(o, createRequest))

\* new Tenant(response), with EmailSignInConfig and MultiFactorAuthConfig.
TenantOf(r) == [f \in TenantFields |-> r[TenantPath(f)]]

-----------------------------------------------------------------------------
(* Apps of project management. *)

\* setDisplayName(): the mask is written out; nothing is validated.
SetDisplayName(o) == Body([p \in AppFields |-> o[p]], TRUE)

\* getMetadata() of AndroidApp and IosApp.
AppMetadata(r) == [f \in AppFields |-> r[f]]
=============================================================================
