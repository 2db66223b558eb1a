----------------------------- MODULE ServerErrors -----------------------------
(***************************************************************************)
(* How src/utils/error.ts turns the error codes of servers into those of   *)
(* the SDK.  A table gives the name of the client's code; what it does not *)
(* list is the service's default.  Codes are named as in the source, apart *)
(* from those that no table translates to.                                 *)
(***************************************************************************)

\* The name of no error: looking it up gives undefined, and the constructor throws
\* a TypeError.
TypeError == "TypeError"

\* The client codes of auth that a server code is translated to.
AuthClientErrorCode ==
    {"BILLING_NOT_ENABLED", "CLAIMS_TOO_LARGE", "CONFIGURATION_EXISTS",
     "CONFIGURATION_NOT_FOUND", "EMAIL_ALREADY_EXISTS", "FORBIDDEN_CLAIM",
     "ID_TOKEN_EXPIRED", "INSUFFICIENT_PERMISSION", "INTERNAL_ERROR",
     "INVALID_CLAIMS", "INVALID_CONFIG", "INVALID_CONTINUE_URI",
     "INVALID_DISPLAY_NAME", "INVALID_DYNAMIC_LINK_DOMAIN", "INVALID_EMAIL",
     "INVALID_ID_TOKEN", "INVALID_NAME", "INVALID_OAUTH_CLIENT_ID",
     "INVALID_PAGE_TOKEN", "INVALID_PASSWORD", "INVALID_PHONE_NUMBER",
     "INVALID_PROJECT_ID", "INVALID_PROVIDER_ID", "INVALID_SESSION_COOKIE_DURATION",
     "INVALID_TENANT_TYPE", "INVALID_TESTING_PHONE_NUMBER", "MISMATCHING_TENANT_ID",
     "MISSING_ANDROID_PACKAGE_NAME", "MISSING_CONFIG", "MISSING_DISPLAY_NAME",
     "MISSING_EMAIL", "MISSING_IOS_BUNDLE_ID", "MISSING_ISSUER",
     "MISSING_OAUTH_CLIENT_ID", "MISSING_PROVIDER_ID",
     "MISSING_SAML_RELYING_PARTY_CONFIG", "MISSING_UID", "OPERATION_NOT_ALLOWED",
     "PHONE_NUMBER_ALREADY_EXISTS", "PROJECT_NOT_FOUND", "QUOTA_EXCEEDED",
     "SECOND_FACTOR_LIMIT_EXCEEDED", "SECOND_FACTOR_UID_ALREADY_EXISTS",
     "TENANT_NOT_FOUND", "UID_ALREADY_EXISTS", "UNAUTHORIZED_DOMAIN",
     "UNSUPPORTED_FIRST_FACTOR", "UNSUPPORTED_SECOND_FACTOR",
     "UNSUPPORTED_TENANT_OPERATION", "UNVERIFIED_EMAIL", "USER_NOT_FOUND"}

\* Those of messaging.
MessagingClientErrorCode ==
    {"INVALID_ARGUMENT", "INVALID_PAYLOAD", "INVALID_DATA_PAYLOAD_KEY",
     "PAYLOAD_SIZE_LIMIT_EXCEEDED", "INVALID_OPTIONS", "INVALID_RECIPIENT",
     "INVALID_REGISTRATION_TOKEN", "REGISTRATION_TOKEN_NOT_REGISTERED",
     "MISMATCHED_CREDENTIAL", "INVALID_PACKAGE_NAME", "DEVICE_MESSAGE_RATE_EXCEEDED",
     "TOPICS_MESSAGE_RATE_EXCEEDED", "MESSAGE_RATE_EXCEEDED", "THIRD_PARTY_AUTH_ERROR",
     "TOO_MANY_TOPICS", "AUTHENTICATION_ERROR", "SERVER_UNAVAILABLE",
     "INTERNAL_ERROR", "UNKNOWN_ERROR"}

-----------------------------------------------------------------------------
\* AUTH_SERVER_TO_CLIENT_CODE: these codes are translated, ...
AuthTranslated ==
    [INVALID_CONFIG_ID |-> "INVALID_PROVIDER_ID",
     DUPLICATE_EMAIL |-> "EMAIL_ALREADY_EXISTS",
     EMAIL_EXISTS |-> "EMAIL_ALREADY_EXISTS",
     DUPLICATE_LOCAL_ID |-> "UID_ALREADY_EXISTS",
     DUPLICATE_MFA_ENROLLMENT_ID |-> "SECOND_FACTOR_UID_ALREADY_EXISTS",
     INVALID_DURATION |-> "INVALID_SESSION_COOKIE_DURATION",
     INVALID_PAGE_SELECTION |-> "INVALID_PAGE_TOKEN",
     MISSING_CONFIG_ID |-> "MISSING_PROVIDER_ID",
     MISSING_LOCAL_ID |-> "MISSING_UID",
     MISSING_USER_ACCOUNT |-> "MISSING_UID",
     PERMISSION_DENIED |-> "INSUFFICIENT_PERMISSION",
     PHONE_NUMBER_EXISTS |-> "PHONE_NUMBER_ALREADY_EXISTS",
     TENANT_ID_MISMATCH |-> "MISMATCHING_TENANT_ID",
     TOKEN_EXPIRED |-> "ID_TOKEN_EXPIRED",
     WEAK_PASSWORD |-> "INVALID_PASSWORD"]

\* ... and these keep their names; INVALID_SERVICE_ACCOUNT is the name of no client
\* code.
AuthKept ==
    (AuthClientErrorCode \ ({AuthTranslated[c] : c \in DOMAIN AuthTranslated}
                              \cup {"INTERNAL_ERROR"}))
      \cup {"INVALID_PROVIDER_ID", "MISSING_PROVIDER_ID", "INSUFFICIENT_PERMISSION",
            "INVALID_SERVICE_ACCOUNT"}

AuthServerToClientCode ==
    [c \in DOMAIN AuthTranslated \cup AuthKept |->
        IF c \in DOMAIN AuthTranslated THEN AuthTranslated[c] ELSE c]

\* MESSAGING_SERVER_TO_CLIENT_CODE.
MessagingServerToClientCode ==
    [InvalidParameters |-> "INVALID_ARGUMENT",
     MismatchSenderId |-> "MISMATCHED_CREDENTIAL",
     Unavailable |-> "SERVER_UNAVAILABLE",
     InternalServerError |-> "INTERNAL_ERROR",
     InvalidRegistration |-> "INVALID_REGISTRATION_TOKEN",
     NotRegistered |-> "REGISTRATION_TOKEN_NOT_REGISTERED",
     InvalidPackageName |-> "INVALID_PACKAGE_NAME",
     MessageTooBig |-> "PAYLOAD_SIZE_LIMIT_EXCEEDED",
     InvalidDataKey |-> "INVALID_DATA_PAYLOAD_KEY",
     InvalidTtl |-> "INVALID_OPTIONS",
     DeviceMessageRateExceeded |-> "DEVICE_MESSAGE_RATE_EXCEEDED",
     TopicsMessageRateExceeded |-> "TOPICS_MESSAGE_RATE_EXCEEDED",
     InvalidApnsCredential |-> "THIRD_PARTY_AUTH_ERROR",
     NOT_FOUND |-> "REGISTRATION_TOKEN_NOT_REGISTERED",
     PERMISSION_DENIED |-> "MISMATCHED_CREDENTIAL",
     RESOURCE_EXHAUSTED |-> "MESSAGE_RATE_EXCEEDED",
     UNAUTHENTICATED |-> "THIRD_PARTY_AUTH_ERROR",
     APNS_AUTH_ERROR |-> "THIRD_PARTY_AUTH_ERROR",
     INTERNAL |-> "INTERNAL_ERROR",
     INVALID_ARGUMENT |-> "INVALID_ARGUMENT",
     QUOTA_EXCEEDED |-> "MESSAGE_RATE_EXCEEDED",
     SENDER_ID_MISMATCH |-> "MISMATCHED_CREDENTIAL",
     THIRD_PARTY_AUTH_ERROR |-> "THIRD_PARTY_AUTH_ERROR",
     UNAVAILABLE |-> "SERVER_UNAVAILABLE",
     UNREGISTERED |-> "REGISTRATION_TOKEN_NOT_REGISTERED",
     UNSPECIFIED_ERROR |-> "UNKNOWN_ERROR"]

\* TOPIC_MGT_SERVER_TO_CLIENT_CODE.
TopicMgtServerToClientCode ==
    [NOT_FOUND |-> "REGISTRATION_TOKEN_NOT_REGISTERED",
     INVALID_ARGUMENT |-> "INVALID_REGISTRATION_TOKEN",
     TOO_MANY_TOPICS |-> "TOO_MANY_TOPICS",
     RESOURCE_EXHAUSTED |-> "TOO_MANY_TOPICS",
     PERMISSION_DENIED |-> "AUTHENTICATION_ERROR",
     DEADLINE_EXCEEDED |-> "SERVER_UNAVAILABLE",
     INTERNAL |-> "INTERNAL_ERROR",
     UNKNOWN |-> "UNKNOWN_ERROR"]

-----------------------------------------------------------------------------
Lookup(table, code, default, clientCodes) ==
    LET key == IF code \in DOMAIN table THEN table[code] ELSE default
    IN  IF key \in clientCodes THEN key ELSE TypeError

\* FirebaseAuthError.fromServerError(); details after a colon are cut off before.
AuthError(code) ==
    Lookup(AuthServerToClientCode, code, "INTERNAL_ERROR", AuthClientErrorCode)

\* FirebaseMessagingError.fromServerError().
MessagingError(code) ==
    Lookup(MessagingServerToClientCode, code, "UNKNOWN_ERROR", MessagingClientErrorCode)

\* Mutant: the default is the name of a server code.
TopicManagementError_Unknown(code) ==
    Lookup(TopicMgtServerToClientCode, code, "UNKNOWN", MessagingClientErrorCode)

\* FirebaseMessagingError.fromTopicManagementServerError().
TopicManagementError(code) ==
    Lookup(TopicMgtServerToClientCode, code, "UNKNOWN_ERROR", MessagingClientErrorCode)
=============================================================================
