-------------------------- MODULE TokenVerification --------------------------
(***************************************************************************)
(* verifyIdToken() and verifySessionCookie() of src/auth/auth.ts over the  *)
(* FirebaseTokenVerifier of src/auth/token-verifier.ts: concurrent calls   *)
(* that share the cache of public keys, while the endpoint rotates its     *)
(* keys, sessions are revoked and answers arrive late and out of order.    *)
(*                                                                         *)
(* The endpoint serves version v of its key set, which holds the keys v    *)
(* and v + 1; with version v + 1 the key v is withdrawn.                   *)
(***************************************************************************)
EXTENDS Integers

CONSTANTS
    Calls,       \* concurrent calls of verifyIdToken / verifySessionCookie
    Revokers,    \* concurrent calls of revokeRefreshTokens
    Tokens,      \* the tokens that are presented
    MaxAges,     \* values of max-age in the answers, NoMaxAge if it is missing
    LongestAge,  \* bound: the longest max-age
    MaxLatency,  \* bound: the longest way of an answer, once it is written
    Second,      \* a second, in ticks
    Emulator,    \* is FIREBASE_AUTH_EMULATOR_HOST set?
    NoToken,     \* marker
    MaxVersion, MaxTime  \* bounds: key sets and ticks explored

NoMaxAge == -1
NoKid == 0
TokenRecord == [kid : Nat, alg : {"RS256", "none"}, claimsOK : BOOLEAN,
                signed : BOOLEAN, authTime : Nat, iat : Nat, exp : Nat]

ASSUME VerificationAssumption ==
    /\ Tokens \subseteq TokenRecord /\ NoToken \notin TokenRecord
    /\ LongestAge \in Nat
    /\ MaxAges \subseteq 0 .. LongestAge \cup {NoMaxAge}
    /\ MaxLatency \in Nat
    /\ Second \in Nat \ {0}
    /\ Emulator \in BOOLEAN
    /\ MaxVersion \in Nat \ {0}
    /\ MaxTime \in Nat

VARIABLES
    now,                 \* Date.now(), in ticks
    publicKeys,          \* publicKeys: the version cached, or NoKeys
    publicKeysExpireAt,  \* publicKeysExpireAt, or NoExpiry
    algorithm,           \* algorithm
    call,                \* the calls of verifyIdToken
    served,              \* the endpoint: version of the key set
    servedUntil,         \* when each version was replaced
    validSince,          \* the account: validSince in seconds, 0 if never set
    revocation           \* the calls of revokeRefreshTokens

cacheVars  == <<publicKeys, publicKeysExpireAt>>
serverVars == <<served, servedUntil, validSince, revocation>>
vars == <<now, cacheVars, algorithm, call, serverVars>>

-----------------------------------------------------------------------------
NoKeys == 0
NoExpiry == -1
NotYet == -1
Versions == 1 .. MaxVersion
KeysOf(version) == {version, version + 1}

\* The stage of a call.  "fetching": a request for the keys is on its way;
\* "keys": the endpoint has answered with version `answer` at time `at`.
\* "looking": the signature is verified and getUser() is on its way; "user": it
\* is answered, validSince being `answer`.
Signed  == {"looking", "user", "accepted"}
Settled == {"accepted", "rejected", "failed"}
Stages  == {"idle", "fetching", "keys"} \cup Signed \cup Settled

\* floor: the least validSince the account has had since the call began.
Call == [st : Stages, token : Tokens \cup {NoToken}, checkRevoked : BOOLEAN,
         floor : Nat, answer : Nat, at : Nat]
Idle == [st |-> "idle", token |-> NoToken, checkRevoked |-> FALSE,
         floor |-> 0, answer |-> 0, at |-> 0]
Begun(t, checkRevoked) ==
    [Idle EXCEPT !.token = t, !.checkRevoked = checkRevoked,
                 !.floor = IF checkRevoked THEN validSince ELSE 0]
Accepted(c) == [c EXCEPT !.st = "accepted", !.floor = 0, !.answer = 0, !.at = 0]
Rejected == [Idle EXCEPT !.st = "rejected"]
Failed   == [Idle EXCEPT !.st = "failed"]

\* A call of revokeRefreshTokens() and the second it was made in.
Revocation == [st : {"none", "sent", "applied"}, stamp : Nat]

TypeOK ==
    /\ now \in Nat
    /\ publicKeys \in Versions \cup {NoKeys}
    /\ publicKeysExpireAt \in Nat \cup {NoExpiry}
    /\ algorithm \in {"RS256", "none"}
    /\ call \in [Calls -> Call]
    /\ \A c \in Calls : call[c].st = "keys" => call[c].answer \in Versions
    /\ served \in Versions
    /\ servedUntil \in [Versions -> Nat \cup {NotYet}]
    /\ validSince \in Nat
    /\ revocation \in [Revokers -> Revocation]

Init ==
    /\ now = 0
    /\ publicKeys = NoKeys
    /\ publicKeysExpireAt = NoExpiry
    /\ algorithm = "RS256"
    /\ call = [c \in Calls |-> Idle]
    /\ served = 1
    /\ servedUntil = [v \in Versions |-> NotYet]
    /\ validSince = 0
    /\ revocation = [r \in Revokers |-> [st |-> "none", stamp |-> 0]]

-----------------------------------------------------------------------------
(* Verifying. *)

\* The checks of the header and of the payload, before any key is looked at.
ClaimsOK(t) ==
    /\ t.kid = NoKid => algorithm = "none"
    /\ t.alg = algorithm
    /\ t.claimsOK

\* jwt.verify(token, key, {algorithms: [algorithm]}).
JwtVerify(t, withKey) ==
    /\ t.alg = algorithm
    /\ IF withKey THEN t.alg = "RS256" /\ t.signed ELSE t.alg = "none"
    /\ now \div Second < t.exp

\* What becomes of call record c when its token has been verified, or not.
AfterSignature(c, ok) ==
    IF ~ok THEN Rejected
    ELSE IF c.checkRevoked THEN [c EXCEPT !.st = "looking", !.answer = 0, !.at = 0]
    ELSE Accepted(c)

\* What becomes of it when fetchPublicKeys() yields a version of the keys.
WithKeys(c, version) ==
    AfterSignature(c, c.token.kid \in KeysOf(version) /\ JwtVerify(c.token, TRUE))

\* Mutant: keys without an expiry are taken to be valid.
PublicKeysStillValid_NoExpiry ==
    publicKeysExpireAt = NoExpiry \/ now < publicKeysExpireAt

PublicKeysStillValid ==
    publicKeysExpireAt # NoExpiry /\ now < publicKeysExpireAt

VerifyIdToken(c) ==
    /\ call[c].st = "idle"
    /\ \E t \in Tokens, checkRevoked \in BOOLEAN :
         /\ t.iat * Second <= now
         /\ call' = [call EXCEPT ![c] =
              IF ~ClaimsOK(t) THEN Rejected
              ELSE IF algorithm = "none"
              THEN AfterSignature(Begun(t, checkRevoked), JwtVerify(t, FALSE))
              ELSE IF publicKeys # NoKeys /\ PublicKeysStillValid
              THEN WithKeys(Begun(t, checkRevoked), publicKeys)
              ELSE [Begun(t, checkRevoked) EXCEPT !.st = "fetching"]]
    /\ UNCHANGED <<now, cacheVars, algorithm, serverVars>>

\* The endpoint answers a request for its keys.
EndpointAnswers(c) ==
    /\ call[c].st = "fetching"
    /\ call' = [call EXCEPT ![c].st = "keys", ![c].answer = served, ![c].at = now]
    /\ UNCHANGED <<now, cacheVars, algorithm, serverVars>>

\* The answer arrives: it is cached, whatever arrived before it.
KeysArrive(c) ==
    /\ call[c].st = "keys"
    /\ publicKeys' = call[c].answer
    /\ \E maxAge \in MaxAges :
         publicKeysExpireAt' = IF maxAge = NoMaxAge THEN publicKeysExpireAt
                               ELSE now + maxAge
    /\ call' = [call EXCEPT ![c] = WithKeys(call[c], call[c].answer)]
    /\ UNCHANGED <<now, algorithm, serverVars>>

\* A request fails: the keys cannot be fetched, or the user not be found.
RequestFails(c) ==
    /\ call[c].st \in {"fetching", "keys", "looking", "user"}
    /\ call' = [call EXCEPT ![c] = Failed]
    /\ UNCHANGED <<now, cacheVars, algorithm, serverVars>>

\* The server answers getUser() of verifyDecodedJWTNotRevoked().
UserAnswered(c) ==
    /\ call[c].st = "looking"
    /\ call' = [call EXCEPT ![c].st = "user", ![c].answer = validSince]
    /\ UNCHANGED <<now, cacheVars, algorithm, serverVars>>

\* Mutant: the time of issue is compared, which a refreshed token has renewed.
UserArrives_IssuedAt(c) ==
    /\ call[c].st = "user"
    /\ call' = [call EXCEPT ![c] =
           IF @.token.iat < @.answer THEN Rejected ELSE Accepted(@)]
    /\ UNCHANGED <<now, cacheVars, algorithm, serverVars>>

UserArrives(c) ==
    /\ call[c].st = "user"
    /\ call' = [call EXCEPT ![c] =
           IF @.token.authTime < @.answer THEN Rejected ELSE Accepted(@)]
    /\ UNCHANGED <<now, cacheVars, algorithm, serverVars>>

\* The caller takes the result, and may call again.
ResultTaken(c) ==
    /\ call[c].st \in Settled
    /\ call' = [call EXCEPT ![c] = Idle]
    /\ UNCHANGED <<now, cacheVars, algorithm, serverVars>>

\* setJwtVerificationEnabled(), which sets the algorithm of the verifiers.
SetAlgorithm(alg) ==
    /\ alg = "none" => Emulator
    /\ algorithm' = alg
    /\ UNCHANGED <<now, cacheVars, call, serverVars>>

-----------------------------------------------------------------------------
(* Revoking, rotating and time. *)

\* Mutant: the time is rounded down to a second that is over.
RevokeRefreshTokens_Early(r) ==
    /\ revocation[r].st = "none"
    /\ revocation' = [revocation EXCEPT ![r] =
                          [st |-> "sent", stamp |-> now \div Second - 1]]
    /\ UNCHANGED <<now, cacheVars, algorithm, call, served, servedUntil, validSince>>

RevokeRefreshTokens(r) ==
    /\ revocation[r].st = "none"
    /\ revocation' = [revocation EXCEPT ![r] =
                          [st |-> "sent", stamp |-> now \div Second]]
    /\ UNCHANGED <<now, cacheVars, algorithm, call, served, servedUntil, validSince>>

\* The server sets validSince; it may do so again, when the answer was lost and
\* the HTTP client has sent the request anew.
ServerRevokes(r) ==
    /\ revocation[r].st \in {"sent", "applied"}
    /\ validSince' = revocation[r].stamp
    /\ revocation' = [revocation EXCEPT ![r].st = "applied"]
    /\ call' = [c \in Calls |->
           IF revocation[r].stamp < call[c].floor
           THEN [call[c] EXCEPT !.floor = revocation[r].stamp] ELSE call[c]]
    /\ UNCHANGED <<now, cacheVars, algorithm, served, servedUntil>>

RevokeSettles(r) ==
    /\ revocation[r].st \in {"sent", "applied"}
    /\ revocation' = [revocation EXCEPT ![r] = [st |-> "none", stamp |-> 0]]
    /\ UNCHANGED <<now, cacheVars, algorithm, call, served, servedUntil, validSince>>

RotateKeys ==
    /\ served < MaxVersion
    /\ served' = served + 1
    /\ servedUntil' = [servedUntil EXCEPT ![served] = now]
    /\ UNCHANGED <<now, cacheVars, algorithm, call, validSince, revocation>>

\* An answer with keys is on its way for MaxLatency at most.
Tick ==
    /\ now < MaxTime
    /\ \A c \in Calls : call[c].st = "keys" => now < call[c].at + MaxLatency
    /\ now' = now + 1
    /\ UNCHANGED <<cacheVars, algorithm, call, serverVars>>

-----------------------------------------------------------------------------
Verify(c) ==
    \/ VerifyIdToken(c)
    \/ EndpointAnswers(c) \/ KeysArrive(c)
    \/ UserAnswered(c) \/ UserArrives(c)
    \/ RequestFails(c)
    \/ ResultTaken(c)

Revoke(r) == RevokeRefreshTokens(r) \/ ServerRevokes(r) \/ RevokeSettles(r)

Next ==
    \/ \E c \in Calls : Verify(c)
    \/ \E r \in Revokers : Revoke(r)
    \/ \E alg \in {"RS256", "none"} : SetAlgorithm(alg)
    \/ RotateKeys
    \/ Tick

Spec == Init /\ [][Next]_vars

-----------------------------------------------------------------------------
(* Properties. *)

\* The step verifies the signature of the token of call c.
Verifies(c) == call[c].st \in {"idle", "keys"} /\ call'[c].st \in Signed

\* A key that the endpoint has withdrawn verifies no signature once the longest
\* max-age and the way of an answer have passed, although answers overlap, an
\* older one may overwrite a newer one, and an answer without max-age is kept
\* under the expiry of another (fetchPublicKeys).
WithdrawnKeysRefused ==
    [][\A c \in Calls : LET t == call'[c].token IN
         Verifies(c) /\ t.alg = "RS256" /\ t.kid < served
             => now <= servedUntil[t.kid] + LongestAge + MaxLatency
      ]_vars

\* A call that checks for revocation accepts a session only if, at some moment
\* of the call, the account did not count it as revoked: the check is never
\* made on something older than the call (verifyDecodedJWTNotRevoked).
RevokedRefused ==
    [][\A c \in Calls :
         call[c].st # "accepted" /\ call'[c].st = "accepted" /\ call'[c].checkRevoked
             => call[c].st = "user" /\ call[c].token.authTime >= call[c].floor
      ]_vars

\* A token passes only by the algorithm in force when its signature is looked
\* at, though the algorithm may have been switched since the claims were
\* checked: with verification disabled production tokens do not pass, with
\* verification enabled unsigned ones do not (setJwtVerificationEnabled).
OnlyCurrentAlgorithm ==
    [][\A c \in Calls : Verifies(c) => call'[c].token.alg = algorithm]_vars
=============================================================================
