------------------------------ MODULE RestCalls -------------------------------
(***************************************************************************)
(* What the calls of remote config and of security rules have in common: a *)
(* client makes one call at a time, a call makes one request at a time, a  *)
(* request is sent up to MaxAttempts times, and an error of the server is  *)
(* named by a table.                                                       *)
(***************************************************************************)
EXTENDS Integers

CONSTANTS
    Clients,
    Thorough,     \* the clients that try every operation; the others only publish
    None,
    MaxCalls,     \* bound: calls that a thorough client makes
    OthersCalls,  \* bound: calls that another client makes
    MaxAttempts   \* bound: how often the HTTP client sends a request

ASSUME ThoroughAssumption == Thorough \subseteq Clients
ASSUME AttemptsAssumption == MaxAttempts \in Nat \ {0}

\* A call has the method, the request under way with its attempts, the answer and the
\* result, the number of calls that its client has made, and whether the client has
\* found the id of its project, which it then keeps.
Idle(call) == call.phase \in {"idle", "settled"}
Ready(c, call) == Idle(call) /\ call.calls < IF c \in Thorough THEN MaxCalls ELSE OthersCalls

Failure(code, by) == [error |-> code, by |-> by]
Failed(r) == r # None /\ "error" \in DOMAIN r
Settle(call, r) ==
    [call EXCEPT !.phase = "settled", !.request = "none", !.attempts = 0,
                 !.answer = None, !.result = r]
Refuse(call) == Settle(call, Failure("invalid-argument", "arguments"))

Ask(call, request) == [call EXCEPT !.phase = "called", !.request = request, !.answer = None]
Answered(call, a) == [call EXCEPT !.phase = "answered", !.answer = a]

-----------------------------------------------------------------------------
\* What becomes of a request apart from an answer.  The id of the project may not be
\* found, which each service calls by another code; the credential may refuse to give
\* it, or the token.  A request or its answer may be lost, which the HTTP client
\* answers by sending it again, until the attempts are used up.
Sent(call) == [call EXCEPT !.phase = "sent", !.attempts = 1, !.project = TRUE]
NoProject(call, code) == Settle(call, Failure(code, "project"))
NoCredential(call) == Settle(call, Failure("app/invalid-credential", "credential"))

CanResend(call) == call.phase \in {"sent", "answered"} /\ call.attempts < MaxAttempts
Resent(call) == [call EXCEPT !.phase = "sent", !.answer = None, !.attempts = @ + 1]

CanFail(call) == call.phase \in {"sent", "answered"}
Lost(call, code) == Settle(call, Failure(code, "network"))

\* Deliveries(call, noProject): the calls that it may be next, for these reasons.
Deliveries(call, noProject) ==
    {k \in {Sent(call), NoCredential(call), NoCredential([call EXCEPT !.project = TRUE])} :
        call.phase = "called"}
      \cup {k \in {NoProject(call, noProject)} : call.phase = "called" /\ ~call.project}
      \cup {k \in {Resent(call)} : CanResend(call)}
      \cup {k \in {Lost(call, "app/network-error"), Lost(call, "app/network-timeout")} : CanFail(call)}

\* An answer is whole; or it misses something that the constructors of the results
\* look for, and is refused like an argument; or it is no JSON.
Forms == {"whole", "malformed", "unparsable"}
RefuseAnswer(call) == Settle(call, Failure("invalid-argument", "answer"))
Unparsable(call) == Settle(call, Failure("app/unable-to-parse-response", "answer"))

-----------------------------------------------------------------------------
\* toFirebaseError(): the code for the status of an error; what the table does not
\* know is unknown.
RemoteConfigCodes ==
    {"aborted", "already-exists", "invalid-argument", "internal-error",
     "failed-precondition", "not-found", "out-of-range", "permission-denied",
     "resource-exhausted", "unauthenticated", "unknown-error"}

RemoteConfigCode(status) ==
    CASE status = "FAILED_PRECONDITION" -> "failed-precondition"
      [] status = "NOT_FOUND" -> "not-found"
      [] status = "INVALID_ARGUMENT" -> "invalid-argument"
      [] status = "UNAUTHENTICATED" -> "unauthenticated"
      [] OTHER -> "unknown-error"

SecurityRulesCodes ==
    {"invalid-argument", "not-found", "resource-exhausted", "authentication-error",
     "unknown-error"}

SecurityRulesCode(status) ==
    CASE status = "NOT_FOUND" -> "not-found"
      [] status = "INVALID_ARGUMENT" -> "invalid-argument"
      [] status = "UNAUTHENTICATED" -> "authentication-error"
      [] OTHER -> "unknown-error"

\* What the servers refuse a request with; UNHEARD_OF is a status without a code.
Statuses == {"NOT_FOUND", "INVALID_ARGUMENT", "FAILED_PRECONDITION", "UNAUTHENTICATED",
             "UNHEARD_OF"}

\* The errors that are passed through as they are, and who refuses or fails.
AppErrors == {"app/invalid-credential", "app/network-error", "app/network-timeout",
              "app/unable-to-parse-response"}
Sides == {"arguments", "project", "credential", "network", "answer", "server"}

\* None is no error, of a server or of the SDK.
ASSUME NoneAssumption ==
    /\ None \notin [error : Statuses]
    /\ None \notin [error : RemoteConfigCodes \cup SecurityRulesCodes \cup AppErrors, by : Sides]
=============================================================================
