---------------------- MODULE TokenVerification_proofs ----------------------
(* Proofs about TokenVerification, for any number of calls, revocations and *)
(* key sets, and for every latency and max-age.                             *)
EXTENDS TokenVerification, TLAPS

(* Calls under way have a token, and the answer they hold is one the server *)
(* gave.                                                                    *)
HasToken == \A c \in Calls :
    call[c].st \in {"fetching", "keys"} \cup Signed => call[c].token \in Tokens

(* The times at which key sets were replaced are in order.                  *)
RotationsOrdered ==
    /\ \A v \in Versions : v < served =>
           servedUntil[v] \in Nat /\ servedUntil[v] <= now
    /\ \A v, w \in Versions : v <= w /\ w < served => servedUntil[v] <= servedUntil[w]

(* An answer with keys that is under way was true when it was written.      *)
AnswersRecent == \A c \in Calls : call[c].st = "keys" =>
    /\ call[c].answer <= served
    /\ call[c].at <= now
    /\ now <= call[c].at + MaxLatency
    /\ call[c].answer < served => call[c].at <= servedUntil[call[c].answer]

(* The cached keys do not outlive their withdrawal by more than an answer   *)
(* takes and the longest max-age.                                           *)
CacheRecent ==
    /\ publicKeys <= served
    /\ publicKeysExpireAt <= now + LongestAge
    /\ publicKeys # NoKeys /\ publicKeys < served =>
           publicKeysExpireAt <= servedUntil[publicKeys] + LongestAge + MaxLatency

(* The account was never less strict during a call than its floor says.     *)
FloorsHold == \A c \in Calls :
    /\ call[c].st \in {"fetching", "keys", "looking"} => call[c].floor <= validSince
    /\ call[c].st = "user" => call[c].floor <= call[c].answer

KeysInv == HasToken /\ RotationsOrdered /\ AnswersRecent /\ CacheRecent

-----------------------------------------------------------------------------
(* The records that calls are made of.                                      *)
LEMMA RecordTypes ==
    /\ Idle \in Call /\ Rejected \in Call /\ Failed \in Call
    /\ \A c \in Call : Accepted(c) \in Call
    /\ \A c \in Call, ok \in BOOLEAN : AfterSignature(c, ok) \in Call
    /\ \A c \in Call, v \in Versions : WithKeys(c, v) \in Call
  <1>1. Idle \in Call /\ Rejected \in Call /\ Failed \in Call
    BY DEF Idle, Rejected, Failed, Call, Stages, Settled
  <1>2. \A c \in Call : Accepted(c) \in Call
    BY DEF Accepted, Call, Stages, Settled
  <1>3. \A ok : \A c \in Call : AfterSignature(c, ok) \in Call
    BY <1>1, <1>2 DEF AfterSignature, Call, Stages, Signed
  <1>4. \A c \in Call, v \in Versions : WithKeys(c, v) \in Call
    BY <1>3 DEF WithKeys
  <1> QED
    BY <1>1, <1>2, <1>3, <1>4

(* Their stages.                                                            *)
LEMMA RecordStages ==
    /\ Idle.st = "idle" /\ Rejected.st = "rejected" /\ Failed.st = "failed"
    /\ \A c \in Call : Accepted(c).st = "accepted"
    /\ \A t, checkRevoked :
           [Begun(t, checkRevoked) EXCEPT !.st = "fetching"].st = "fetching"
  BY DEF Idle, Rejected, Failed, Accepted, Begun, Call

(* A call that begins, typed.                                               *)
LEMMA BegunType ==
    ASSUME TypeOK, NEW t \in Tokens, NEW checkRevoked \in BOOLEAN
    PROVE  /\ Begun(t, checkRevoked) \in Call
           /\ [Begun(t, checkRevoked) EXCEPT !.st = "fetching"] \in Call
  BY DEF TypeOK, Begun, Idle, Call, Stages

(* What the verification of a signature makes of a call.                    *)
LEMMA AfterSignatureFacts ==
    ASSUME NEW c \in Call, NEW ok
    PROVE  LET d == AfterSignature(c, ok) IN
           /\ d.st \in {"rejected", "looking", "accepted"}
           /\ d.st \in Signed => ok /\ d.token = c.token
           /\ d.st = "looking" => d.floor = c.floor
           /\ d.st = "accepted" => ~c.checkRevoked /\ d.checkRevoked = c.checkRevoked
  BY DEF AfterSignature, Rejected, Accepted, Idle, Call, Signed

(* The same when the keys are at hand.                                      *)
LEMMA WithKeysFacts ==
    ASSUME NEW c \in Call, NEW v
    PROVE  LET d == WithKeys(c, v) IN
           /\ d.st \in {"rejected", "looking", "accepted"}
           /\ d.st \in Signed =>
                /\ d.token = c.token
                /\ c.token.alg = algorithm
                /\ c.token.kid \in KeysOf(v)
           /\ d.st = "looking" => d.floor = c.floor
           /\ d.st = "accepted" => ~c.checkRevoked /\ d.checkRevoked = c.checkRevoked
  BY AfterSignatureFacts DEF WithKeys, JwtVerify

(* The four outcomes of a call of verifyIdToken at its first step.          *)
LEMMA VerifyIdTokenFacts ==
    ASSUME TypeOK, NEW c \in Calls, VerifyIdToken(c)
    PROVE  /\ call[c].st = "idle"
           /\ UNCHANGED <<now, cacheVars, algorithm, serverVars>>
           /\ \E t \in Tokens, checkRevoked \in BOOLEAN : \E d \in Call :
                /\ call' = [call EXCEPT ![c] = d]
                /\ \/ d = Rejected
                   \/ d = [Begun(t, checkRevoked) EXCEPT !.st = "fetching"]
                   \/ /\ algorithm = "none"
                      /\ d = AfterSignature(Begun(t, checkRevoked), JwtVerify(t, FALSE))
                   \/ /\ publicKeys # NoKeys
                      /\ PublicKeysStillValid
                      /\ d = WithKeys(Begun(t, checkRevoked), publicKeys)
  <1>1. PICK t \in Tokens, checkRevoked \in BOOLEAN :
           call' = [call EXCEPT ![c] =
              IF ~ClaimsOK(t) THEN Rejected
              ELSE IF algorithm = "none"
              THEN AfterSignature(Begun(t, checkRevoked), JwtVerify(t, FALSE))
              ELSE IF publicKeys # NoKeys /\ PublicKeysStillValid
              THEN WithKeys(Begun(t, checkRevoked), publicKeys)
              ELSE [Begun(t, checkRevoked) EXCEPT !.st = "fetching"]]
    BY DEF VerifyIdToken
  <1>2. AfterSignature(Begun(t, checkRevoked), JwtVerify(t, FALSE)) \in Call
    BY RecordTypes, BegunType DEF JwtVerify
  <1>3. publicKeys # NoKeys => WithKeys(Begun(t, checkRevoked), publicKeys) \in Call
    BY RecordTypes, BegunType DEF TypeOK
  <1> QED
    BY <1>1, <1>2, <1>3, RecordTypes, BegunType DEF VerifyIdToken

-----------------------------------------------------------------------------
(* Type correctness.                                                        *)
LEMMA InitType == Init => TypeOK
  <1> SUFFICES ASSUME Init PROVE TypeOK
    OBVIOUS
  <1> USE VerificationAssumption DEF Init, Versions, NoKeys, NoExpiry, NotYet
  <1>1. call \in [Calls -> Call] /\ \A c \in Calls : call[c].st # "keys"
    BY RecordTypes DEF Idle
  <1>2. revocation \in [Revokers -> Revocation]
    BY DEF Revocation
  <1> QED
    BY <1>1, <1>2 DEF TypeOK

LEMMA NextType == TypeOK /\ [Next]_vars => TypeOK'
  <1> SUFFICES ASSUME TypeOK, [Next]_vars PROVE TypeOK'
    OBVIOUS
  <1> USE VerificationAssumption DEF vars, cacheVars, serverVars
  <1>1. CASE UNCHANGED vars
    BY <1>1 DEF TypeOK
  <1>2. ASSUME NEW c \in Calls, Verify(c) PROVE TypeOK'
    <2>1. CASE VerifyIdToken(c)
      <3>1. PICK d \in Call : call' = [call EXCEPT ![c] = d] /\ d.st # "keys"
        <4>1. \A t \in Tokens, b \in BOOLEAN :
                /\ AfterSignature(Begun(t, b), JwtVerify(t, FALSE)).st # "keys"
                /\ WithKeys(Begun(t, b), publicKeys).st # "keys"
          BY BegunType, AfterSignatureFacts, WithKeysFacts
        <4>2. PICK t \in Tokens, b \in BOOLEAN : \E d \in Call :
                /\ call' = [call EXCEPT ![c] = d]
                /\ \/ d \in {Rejected, [Begun(t, b) EXCEPT !.st = "fetching"]}
                   \/ d = AfterSignature(Begun(t, b), JwtVerify(t, FALSE))
                   \/ d = WithKeys(Begun(t, b), publicKeys)
          BY <2>1, VerifyIdTokenFacts
        <4> QED
          BY <4>1, <4>2, RecordStages
      <3> QED
        BY <2>1, <3>1 DEF VerifyIdToken, TypeOK
    <2>2. CASE EndpointAnswers(c)
      <3>1. [call[c] EXCEPT !.st = "keys", !.answer = served, !.at = now] \in Call
        <4>1. call[c] \in Call /\ served \in Nat /\ now \in Nat
          BY DEF TypeOK, Versions
        <4> QED
          BY <4>1 DEF Call, Stages
      <3> QED
        BY <2>2, <3>1 DEF EndpointAnswers, TypeOK
    <2>3. CASE KeysArrive(c)
      <3>1. call[c] \in Call /\ call[c].answer \in Versions
        BY <2>3 DEF KeysArrive, TypeOK
      <3>2. WithKeys(call[c], call[c].answer) \in Call
        BY <3>1, RecordTypes
      <3>3. WithKeys(call[c], call[c].answer).st # "keys"
        BY <3>1, WithKeysFacts
      <3>4. \A maxAge \in MaxAges \ {NoMaxAge} : now + maxAge \in Nat
        BY DEF TypeOK, NoMaxAge
      <3> QED
        BY <2>3, <3>1, <3>2, <3>3, <3>4 DEF KeysArrive, TypeOK
    <2>4. CASE UserAnswered(c)
      <3>1. [call[c] EXCEPT !.st = "user", !.answer = validSince] \in Call
        BY DEF TypeOK, Call, Stages, Signed
      <3> QED
        BY <2>4, <3>1 DEF UserAnswered, TypeOK
    <2>5. CASE UserArrives(c)
      BY <2>5, RecordTypes, RecordStages DEF UserArrives, TypeOK
    <2>6. CASE RequestFails(c)
      BY <2>6, RecordTypes, RecordStages DEF RequestFails, TypeOK
    <2>7. CASE ResultTaken(c)
      BY <2>7, RecordTypes, RecordStages DEF ResultTaken, TypeOK
    <2> QED
      BY <1>2, <2>1, <2>2, <2>3, <2>4, <2>5, <2>6, <2>7 DEF Verify
  <1>3. ASSUME NEW r \in Revokers, Revoke(r) PROVE TypeOK'
    <2>1. now \div Second \in Nat
      BY DEF TypeOK
    <2>2. CASE RevokeRefreshTokens(r)
      BY <2>1, <2>2 DEF RevokeRefreshTokens, TypeOK, Revocation
    <2>3. CASE ServerRevokes(r)
      <3>1. [revocation[r] EXCEPT !.st = "applied"] \in Revocation
        BY DEF TypeOK, Revocation
      <3>2. revocation[r].stamp \in Nat
        BY DEF TypeOK, Revocation
      <3>3. \A c \in Calls : [call[c] EXCEPT !.floor = revocation[r].stamp] \in Call
        BY <3>2 DEF TypeOK, Call
      <3> QED
        BY <2>3, <3>1, <3>2, <3>3 DEF ServerRevokes, TypeOK
    <2>4. CASE RevokeSettles(r)
      BY <2>4 DEF RevokeSettles, TypeOK, Revocation
    <2> QED
      BY <1>3, <2>2, <2>3, <2>4 DEF Revoke
  <1>4. ASSUME NEW alg \in {"RS256", "none"}, SetAlgorithm(alg) PROVE TypeOK'
    BY <1>4 DEF SetAlgorithm, TypeOK
  <1>5. CASE RotateKeys
    BY <1>5 DEF RotateKeys, TypeOK, Versions
  <1>6. CASE Tick
    BY <1>6 DEF Tick, TypeOK
  <1> QED
    BY <1>1, <1>2, <1>3, <1>4, <1>5, <1>6 DEF Next

(* Every variable of the verifier and of the server keeps its type.         *)
THEOREM TypeCorrect == Spec => []TypeOK
  BY InitType, NextType, PTL DEF Spec

-----------------------------------------------------------------------------
(* The cached keys.                                                         *)

(* What a step of a call leaves of it.                                      *)
LEMMA VerifyStep ==
    ASSUME TypeOK, HasToken, NEW c \in Calls, Verify(c)
    PROVE  /\ UNCHANGED <<now, algorithm, serverVars>>
           /\ \E d \in Call :
                /\ call' = [call EXCEPT ![c] = d]
                /\ d.st \in {"fetching", "keys"} \cup Signed => d.token \in Tokens
                /\ d.st = "keys" => d.answer = served /\ d.at = now
  <1>1. call[c] \in Call /\ served \in Nat /\ now \in Nat /\ validSince \in Nat
    BY DEF TypeOK, Versions
  <1>2. CASE VerifyIdToken(c)
    <2>1. \A t \in Tokens, b \in BOOLEAN : Begun(t, b).token = t
      BY DEF Begun, Idle
    <2>2. \A t \in Tokens, b \in BOOLEAN, ok \in BOOLEAN :
            /\ AfterSignature(Begun(t, b), ok).st # "keys"
            /\ AfterSignature(Begun(t, b), ok).st # "fetching"
            /\ AfterSignature(Begun(t, b), ok).st \in Signed
                 => AfterSignature(Begun(t, b), ok).token = t
      <3> TAKE t \in Tokens, b \in BOOLEAN, ok \in BOOLEAN
      <3> DEFINE c0 == Begun(t, b)
      <3>1. c0 \in Call /\ c0.token = t
        BY <2>1, BegunType
      <3> HIDE DEF c0
      <3>2. /\ AfterSignature(c0, ok).st \in {"rejected", "looking", "accepted"}
            /\ AfterSignature(c0, ok).st \in Signed
                 => AfterSignature(c0, ok).token = c0.token
        BY <3>1, AfterSignatureFacts
      <3> QED
        BY <3>1, <3>2 DEF c0
    <2>3. \A t \in Tokens, b \in BOOLEAN :
            /\ WithKeys(Begun(t, b), publicKeys).st # "keys"
            /\ WithKeys(Begun(t, b), publicKeys).st # "fetching"
            /\ WithKeys(Begun(t, b), publicKeys).st \in Signed
                 => WithKeys(Begun(t, b), publicKeys).token = t
      <3> TAKE t \in Tokens, b \in BOOLEAN
      <3> DEFINE c0 == Begun(t, b)
      <3>1. c0 \in Call /\ c0.token = t
        BY <2>1, BegunType
      <3> HIDE DEF c0
      <3>2. /\ WithKeys(c0, publicKeys).st \in {"rejected", "looking", "accepted"}
            /\ WithKeys(c0, publicKeys).st \in Signed
                 => WithKeys(c0, publicKeys).token = c0.token
        BY <3>1, WithKeysFacts
      <3> QED
        BY <3>1, <3>2 DEF c0
    <2>4. \A t \in Tokens, b \in BOOLEAN :
            [Begun(t, b) EXCEPT !.st = "fetching"].token = t
      BY DEF Begun, Idle
    <2>5. PICK t \in Tokens, b \in BOOLEAN : \E d \in Call :
            /\ call' = [call EXCEPT ![c] = d]
            /\ \/ d = Rejected
               \/ d = [Begun(t, b) EXCEPT !.st = "fetching"]
               \/ d = AfterSignature(Begun(t, b), JwtVerify(t, FALSE))
               \/ d = WithKeys(Begun(t, b), publicKeys)
      BY <1>2, VerifyIdTokenFacts
    <2>6. JwtVerify(t, FALSE) \in BOOLEAN
      BY DEF JwtVerify
    <2>7. UNCHANGED <<now, algorithm, serverVars>>
      BY <1>2 DEF VerifyIdToken
    <2>8. PICK d \in Call :
            /\ call' = [call EXCEPT ![c] = d]
            /\ \/ d = Rejected
               \/ d = [Begun(t, b) EXCEPT !.st = "fetching"]
               \/ d = AfterSignature(Begun(t, b), JwtVerify(t, FALSE))
               \/ d = WithKeys(Begun(t, b), publicKeys)
      BY <2>5
    <2>9. d.st # "keys" /\ (d.st \in {"fetching"} \cup Signed => d.token = t)
      <3>1. CASE d = Rejected
        BY <3>1, RecordStages DEF Signed
      <3>2. CASE d = [Begun(t, b) EXCEPT !.st = "fetching"]
        BY <3>2, <2>4, RecordStages
      <3>3. CASE d = AfterSignature(Begun(t, b), JwtVerify(t, FALSE))
        BY <3>3, <2>2, <2>6
      <3>4. CASE d = WithKeys(Begun(t, b), publicKeys)
        BY <3>4, <2>3
      <3> QED
        BY <2>8, <3>1, <3>2, <3>3, <3>4
    <2> QED
      BY <2>7, <2>8, <2>9
  <1>3. CASE EndpointAnswers(c)
    <2>1. [call[c] EXCEPT !.st = "keys", !.answer = served, !.at = now] \in Call
      BY <1>1 DEF Call, Stages
    <2>2. call[c].token \in Tokens
      BY <1>3 DEF EndpointAnswers, HasToken
    <2> DEFINE d == [call[c] EXCEPT !.st = "keys", !.answer = served, !.at = now]
    <2>3. /\ d.token = call[c].token
          /\ d.answer = served /\ d.at = now
      BY <1>1 DEF Call
    <2>4. call' = [call EXCEPT ![c] = d] /\ UNCHANGED <<now, algorithm, serverVars>>
      BY <1>3 DEF EndpointAnswers
    <2>5. d \in Call
      BY <2>1
    <2> HIDE DEF d
    <2> QED
      BY <2>2, <2>3, <2>4, <2>5
  <1>4. CASE KeysArrive(c)
    <2> DEFINE d == WithKeys(call[c], call[c].answer)
    <2>1. d \in Call
      BY <1>1, <1>4, RecordTypes DEF KeysArrive, TypeOK
    <2>2. d.st \notin {"keys", "fetching"} /\ (d.st \in Signed => d.token = call[c].token)
      BY <1>1, WithKeysFacts
    <2>3. call[c].token \in Tokens
      BY <1>4 DEF KeysArrive, HasToken
    <2> QED
      BY <1>4, <2>1, <2>2, <2>3 DEF KeysArrive
  <1>5. CASE UserAnswered(c)
    <2>1. [call[c] EXCEPT !.st = "user", !.answer = validSince] \in Call
      BY <1>1 DEF Call, Stages, Signed
    <2>2. call[c].token \in Tokens
      BY <1>5 DEF UserAnswered, HasToken, Signed
    <2> DEFINE d == [call[c] EXCEPT !.st = "user", !.answer = validSince]
    <2>3. d.st = "user" /\ d.token = call[c].token
      BY <1>1 DEF Call
    <2>4. call' = [call EXCEPT ![c] = d] /\ UNCHANGED <<now, algorithm, serverVars>>
      BY <1>5 DEF UserAnswered
    <2>5. d \in Call
      BY <2>1
    <2> HIDE DEF d
    <2> QED
      BY <2>2, <2>3, <2>4, <2>5
  <1>6. CASE UserArrives(c)
    <2>1. Accepted(call[c]) \in Call /\ Rejected \in Call
      BY <1>1, RecordTypes
    <2>2. Accepted(call[c]).token = call[c].token
      BY <1>1 DEF Accepted, Call
    <2>3. call[c].token \in Tokens
      BY <1>6 DEF UserArrives, HasToken, Signed
    <2> QED
      BY <1>1, <1>6, <2>1, <2>2, <2>3, RecordStages DEF UserArrives, Signed
  <1>7. CASE RequestFails(c)
    BY <1>7, RecordTypes, RecordStages DEF RequestFails, Signed
  <1>8. CASE ResultTaken(c)
    BY <1>8, RecordTypes, RecordStages DEF ResultTaken, Signed
  <1> QED
    BY <1>2, <1>3, <1>4, <1>5, <1>6, <1>7, <1>8 DEF Verify

(* Only a call whose keys arrive changes the cache.                         *)
LEMMA CacheStep ==
    ASSUME NEW c \in Calls, Verify(c)
    PROVE  KeysArrive(c) \/ UNCHANGED cacheVars
  BY DEF Verify, VerifyIdToken, EndpointAnswers, UserAnswered, UserArrives,
         RequestFails, ResultTaken

(* The keys and the answers that bring them stay recent.                    *)
LEMMA InitKeys == Init => KeysInv
  <1> SUFFICES ASSUME Init PROVE KeysInv
    OBVIOUS
  <1> USE VerificationAssumption DEF Init
  <1>1. \A c \in Calls : call[c].st = "idle"
    BY RecordStages
  <1>2. HasToken /\ AnswersRecent
    BY <1>1 DEF HasToken, AnswersRecent, Signed
  <1>3. RotationsOrdered
    BY DEF RotationsOrdered, Versions
  <1>4. CacheRecent
    BY DEF CacheRecent, NoKeys, NoExpiry
  <1> QED
    BY <1>2, <1>3, <1>4 DEF KeysInv

LEMMA NextKeys == TypeOK /\ KeysInv /\ [Next]_vars => KeysInv'
  <1> SUFFICES ASSUME TypeOK, KeysInv, [Next]_vars PROVE KeysInv'
    OBVIOUS
  <1> USE VerificationAssumption DEF vars, cacheVars, serverVars
  <1>0. /\ now \in Nat /\ served \in Versions /\ publicKeys \in Versions \cup {NoKeys}
        /\ publicKeysExpireAt \in Nat \cup {NoExpiry}
        /\ servedUntil \in [Versions -> Nat \cup {NotYet}]
        /\ call \in [Calls -> Call]
        /\ \A c \in Calls : call[c].st = "keys" => call[c].answer \in Versions
        /\ Versions \subseteq Nat \ {0}
    BY DEF TypeOK, Versions
  <1>1. CASE UNCHANGED vars
    BY <1>1 DEF KeysInv, HasToken, RotationsOrdered, AnswersRecent, CacheRecent
  <1>2. ASSUME NEW c \in Calls, Verify(c) PROVE KeysInv'
    <2>1. PICK d \in Call :
            /\ UNCHANGED <<now, algorithm, serverVars>>
            /\ call' = [call EXCEPT ![c] = d]
            /\ d.st \in {"fetching", "keys"} \cup Signed => d.token \in Tokens
            /\ d.st = "keys" => d.answer = served /\ d.at = now
      BY <1>2, VerifyStep DEF KeysInv
    <2>2. HasToken'
      BY <1>0, <2>1 DEF KeysInv, HasToken
    <2>3. RotationsOrdered'
      BY <2>1 DEF KeysInv, RotationsOrdered
    <2>4. AnswersRecent'
      <3> SUFFICES ASSUME NEW b \in Calls, call'[b].st = "keys"
                   PROVE  /\ call'[b].answer <= served
                          /\ call'[b].at <= now
                          /\ now <= call'[b].at + MaxLatency
                          /\ call'[b].answer < served =>
                                call'[b].at <= servedUntil[call'[b].answer]
        BY <2>1 DEF AnswersRecent
      <3>1. CASE b = c
        <4>1. call'[b].answer = served /\ call'[b].at = now
          BY <1>0, <2>1, <3>1
        <4> QED
          BY <1>0, <4>1
      <3>2. CASE b # c
        BY <1>0, <2>1, <3>2 DEF KeysInv, AnswersRecent
      <3> QED
        BY <3>1, <3>2
    <2>5. CacheRecent'
      <3>1. CASE UNCHANGED cacheVars
        BY <2>1, <3>1 DEF KeysInv, CacheRecent
      <3>2. CASE KeysArrive(c)
        <4> DEFINE v == call[c].answer
        <4>1. publicKeys' = v /\ v \in Versions /\ v <= served /\ call[c] \in Call
          BY <1>0, <3>2 DEF KeysArrive, KeysInv, AnswersRecent
        <4>2. now <= call[c].at + MaxLatency
              /\ (v < served => call[c].at <= servedUntil[v])
          BY <3>2 DEF KeysArrive, KeysInv, AnswersRecent
        <4>3. publicKeysExpireAt' <= now + LongestAge
          <5>1. publicKeysExpireAt <= now + LongestAge
            BY DEF KeysInv, CacheRecent
          <5> QED
            BY <1>0, <3>2, <5>1 DEF KeysArrive, NoMaxAge
        <4>4. publicKeysExpireAt' \in Int
          BY <1>0, <3>2 DEF KeysArrive, NoExpiry, NoMaxAge
        <4>5. v < served => publicKeysExpireAt' <= servedUntil[v] + LongestAge + MaxLatency
          <5> SUFFICES ASSUME v < served
                       PROVE publicKeysExpireAt' <= servedUntil[v] + LongestAge + MaxLatency
            OBVIOUS
          <5>1. servedUntil[v] \in Nat /\ call[c].at \in Nat
            BY <4>1 DEF KeysInv, RotationsOrdered, Call
          <5> HIDE DEF v
          <5> QED
            BY <1>0, <4>2, <4>3, <4>4, <5>1
        <4> QED
          BY <2>1, <4>1, <4>3, <4>5 DEF CacheRecent
      <3> QED
        BY <1>2, <3>1, <3>2, CacheStep
    <2> QED
      BY <2>2, <2>3, <2>4, <2>5 DEF KeysInv
  <1>3. ASSUME NEW r \in Revokers, Revoke(r) PROVE KeysInv'
    <2>1. UNCHANGED <<now, cacheVars, served, servedUntil>>
      BY <1>3 DEF Revoke, RevokeRefreshTokens, ServerRevokes, RevokeSettles
    <2>2. \A c \in Calls : /\ call'[c].st = call[c].st
                           /\ call'[c].token = call[c].token
                           /\ call'[c].answer = call[c].answer
                           /\ call'[c].at = call[c].at
      BY <1>0, <1>3 DEF Revoke, RevokeRefreshTokens, ServerRevokes, RevokeSettles, Call
    <2> QED
      BY <2>1, <2>2 DEF KeysInv, HasToken, RotationsOrdered, AnswersRecent, CacheRecent
  <1>4. ASSUME NEW alg \in {"RS256", "none"}, SetAlgorithm(alg) PROVE KeysInv'
    BY <1>4 DEF SetAlgorithm, KeysInv, HasToken, RotationsOrdered, AnswersRecent, CacheRecent
  <1>5. CASE RotateKeys
    <2>1. /\ served' = served + 1 /\ UNCHANGED <<now, cacheVars, call>>
          /\ servedUntil' = [servedUntil EXCEPT ![served] = now]
      BY <1>5 DEF RotateKeys
    <2>2. servedUntil'[served] = now
          /\ \A v \in Versions : v # served => servedUntil'[v] = servedUntil[v]
      BY <1>0, <2>1
    <2>3. HasToken'
      BY <2>1 DEF KeysInv, HasToken
    <2>4. RotationsOrdered'
      BY <1>0, <2>1, <2>2 DEF KeysInv, RotationsOrdered
    <2>5. AnswersRecent'
      <3> SUFFICES ASSUME NEW c \in Calls, call[c].st = "keys"
                   PROVE  /\ call[c].answer <= served + 1
                          /\ call[c].at <= now
                          /\ now <= call[c].at + MaxLatency
                          /\ call[c].answer < served + 1 =>
                                call[c].at <= servedUntil'[call[c].answer]
        BY <2>1 DEF AnswersRecent
      <3>1. /\ call[c].answer <= served /\ call[c].at <= now
            /\ now <= call[c].at + MaxLatency
            /\ call[c].answer < served => call[c].at <= servedUntil[call[c].answer]
        BY DEF KeysInv, AnswersRecent
      <3> DEFINE v == call[c].answer
                 a == call[c].at
      <3>2. v \in Versions /\ v \in Nat /\ a \in Nat /\ served \in Nat
        BY <1>0 DEF Call
      <3> HIDE DEF v, a
      <3>3. v <= served /\ a <= now /\ now <= a + MaxLatency
            /\ (v < served => a <= servedUntil[v])
        BY <3>1 DEF v, a
      <3>4. v < served + 1 => a <= servedUntil'[v]
        BY <1>0, <2>2, <3>2, <3>3
      <3>5. v <= served + 1
        BY <3>2, <3>3
      <3> QED
        BY <3>3, <3>4, <3>5 DEF v, a
    <2>6. CacheRecent'
      <3>1. /\ publicKeys <= served /\ publicKeysExpireAt <= now + LongestAge
            /\ publicKeys # NoKeys /\ publicKeys < served =>
                 publicKeysExpireAt <= servedUntil[publicKeys] + LongestAge + MaxLatency
        BY DEF KeysInv, CacheRecent
      <3>2. publicKeysExpireAt \in Int /\ publicKeys \in Nat
        BY <1>0 DEF NoExpiry, NoKeys
      <3>3. publicKeys <= served + 1
        BY <1>0, <3>1, <3>2
      <3>4. ASSUME publicKeys # NoKeys
            PROVE  publicKeysExpireAt <= servedUntil'[publicKeys] + LongestAge + MaxLatency
        <4>1. CASE publicKeys = served
          BY <1>0, <2>2, <3>1, <3>2, <4>1
        <4>2. CASE publicKeys < served
          BY <1>0, <2>2, <3>1, <3>2, <3>4, <4>2
        <4> QED
          BY <1>0, <3>1, <3>2, <4>1, <4>2
      <3> QED
        BY <2>1, <3>1, <3>3, <3>4 DEF CacheRecent
    <2> QED
      BY <2>3, <2>4, <2>5, <2>6 DEF KeysInv
  <1>6. CASE Tick
    <2>1. /\ now' = now + 1 /\ UNCHANGED <<cacheVars, algorithm, call, serverVars>>
          /\ \A c \in Calls : call[c].st = "keys" => now < call[c].at + MaxLatency
      BY <1>6 DEF Tick
    <2>2. HasToken'
      BY <2>1 DEF KeysInv, HasToken
    <2>3. RotationsOrdered'
      BY <1>0, <2>1 DEF KeysInv, RotationsOrdered
    <2>4. AnswersRecent'
      <3>1. \A c \in Calls : call[c].at \in Nat
        BY <1>0 DEF Call
      <3> QED
        BY <1>0, <2>1, <3>1 DEF KeysInv, AnswersRecent
    <2>5. CacheRecent'
      BY <1>0, <2>1 DEF KeysInv, CacheRecent, NoExpiry
    <2> QED
      BY <2>2, <2>3, <2>4, <2>5 DEF KeysInv
  <1> QED
    BY <1>1, <1>2, <1>3, <1>4, <1>5, <1>6 DEF Next

(* A withdrawn key verifies nothing once the longest max-age and the way of *)
(* an answer have passed, whatever overlaps.                                *)
THEOREM WithdrawnKeysRefusedCorrect == Spec => WithdrawnKeysRefused
  <1> DEFINE Refused == \A c \in Calls : LET t == call'[c].token IN
         Verifies(c) /\ t.alg = "RS256" /\ t.kid < served
             => now <= servedUntil[t.kid] + LongestAge + MaxLatency
  <1>1. TypeOK /\ KeysInv /\ [Next]_vars => [Refused]_vars
    <2> SUFFICES ASSUME TypeOK, KeysInv, Next, NEW c \in Calls, Verifies(c),
                        call'[c].token.alg = "RS256", call'[c].token.kid < served
                 PROVE  now <= servedUntil[call'[c].token.kid] + LongestAge + MaxLatency
      OBVIOUS
    <2> USE VerificationAssumption
    <2>0. /\ now \in Nat /\ served \in Versions /\ publicKeys \in Versions \cup {NoKeys}
          /\ publicKeysExpireAt \in Nat \cup {NoExpiry}
          /\ call \in [Calls -> Call]
          /\ Versions = 1 .. MaxVersion /\ Versions \subseteq Nat \ {0}
      BY DEF TypeOK, Versions
    (* It is enough to know the version that held the key. *)
    <2>1. ASSUME NEW v \in Versions, call'[c].token.kid \in KeysOf(v),
                 v < served => now <= servedUntil[v] + LongestAge + MaxLatency
          PROVE  now <= servedUntil[call'[c].token.kid] + LongestAge + MaxLatency
      <3> DEFINE k == call'[c].token.kid
      <3>1. v \in Nat /\ k \in {v, v + 1} /\ k < served
        BY <2>0, <2>1 DEF KeysOf
      <3> HIDE DEF k
      <3>2. k \in Versions /\ v <= k /\ v < served
        BY <2>0, <3>1
      <3>3. servedUntil[v] <= servedUntil[k] /\ servedUntil[v] \in Nat
            /\ servedUntil[k] \in Nat
        BY <3>1, <3>2 DEF KeysInv, RotationsOrdered
      <3>4. now <= servedUntil[k] + LongestAge + MaxLatency
        BY <2>0, <2>1, <3>2, <3>3
      <3> QED
        BY <3>4 DEF k
    <2>2. CASE VerifyIdToken(c)
      <3>1. PICK t \in Tokens, b \in BOOLEAN : \E d \in Call :
              /\ call' = [call EXCEPT ![c] = d]
              /\ \/ d = Rejected
                 \/ d = [Begun(t, b) EXCEPT !.st = "fetching"]
                 \/ /\ algorithm = "none"
                    /\ d = AfterSignature(Begun(t, b), JwtVerify(t, FALSE))
                 \/ /\ publicKeys # NoKeys
                    /\ PublicKeysStillValid
                    /\ d = WithKeys(Begun(t, b), publicKeys)
        BY <2>2, VerifyIdTokenFacts
      <3>2. Begun(t, b) \in Call /\ Begun(t, b).token = t
        BY BegunType DEF Begun, Idle
      <3>3. call'[c] # Rejected /\ call'[c].st # "fetching"
        BY RecordStages DEF Verifies, Signed
      <3>4. ~(/\ algorithm = "none"
              /\ call'[c] = AfterSignature(Begun(t, b), JwtVerify(t, FALSE)))
        BY <3>2, AfterSignatureFacts DEF Verifies, JwtVerify
      <3>5. /\ publicKeys # NoKeys /\ PublicKeysStillValid
            /\ call'[c] = WithKeys(Begun(t, b), publicKeys)
        BY <2>0, <3>1, <3>3, <3>4, RecordStages
      <3>6. call'[c].token.kid \in KeysOf(publicKeys)
        BY <3>2, <3>5, WithKeysFacts DEF Verifies
      <3>7. publicKeys < served => now <= servedUntil[publicKeys] + LongestAge + MaxLatency
        <4>1. now < publicKeysExpireAt
          BY <3>5 DEF PublicKeysStillValid
        <4>2. publicKeys < served =>
                /\ publicKeysExpireAt <= servedUntil[publicKeys] + LongestAge + MaxLatency
                /\ servedUntil[publicKeys] \in Nat
          BY <2>0, <3>5 DEF KeysInv, CacheRecent, RotationsOrdered
        <4> QED
          BY <2>0, <4>1, <4>2 DEF NoExpiry
      <3> QED
        BY <2>0, <2>1, <3>5, <3>6, <3>7
    <2>3. CASE KeysArrive(c)
      <3> DEFINE v == call[c].answer
      <3>1. call'[c] = WithKeys(call[c], v) /\ call[c] \in Call /\ v \in Versions
        BY <2>0, <2>3 DEF KeysArrive, TypeOK
      <3>2. call'[c].token.kid \in KeysOf(v)
        BY <3>1, WithKeysFacts DEF Verifies
      <3>3. /\ now <= call[c].at + MaxLatency
            /\ v < served => call[c].at <= servedUntil[v] /\ servedUntil[v] \in Nat
        BY <2>3, <3>1 DEF KeysArrive, KeysInv, AnswersRecent, RotationsOrdered
      <3>4. call[c].at \in Nat
        BY <3>1 DEF Call
      <3> HIDE DEF v
      <3>5. v < served => now <= servedUntil[v] + LongestAge + MaxLatency
        BY <2>0, <3>3, <3>4
      <3> QED
        BY <2>1, <3>1, <3>2, <3>5
    (* Every other step leaves c where it is, or takes it elsewhere. *)
    <2>4. CASE ~VerifyIdToken(c) /\ ~KeysArrive(c)
      <3>1. ASSUME NEW b \in Calls, Verify(b) PROVE FALSE
        <4>1. CASE b = c
          BY <2>0, <2>4, <3>1, <4>1, RecordStages DEF Verify, Verifies, Signed,
             EndpointAnswers, UserAnswered, UserArrives, RequestFails, ResultTaken, Settled, Call
        <4>2. CASE b # c
          <5>1. PICK d \in Call : call' = [call EXCEPT ![b] = d]
            BY <3>1, VerifyStep DEF KeysInv
          <5> QED
            BY <2>0, <4>2, <5>1 DEF Verifies, Signed
        <4> QED
          BY <4>1, <4>2
      <3>2. ASSUME NEW r \in Revokers, Revoke(r) PROVE FALSE
        <4>1. call'[c].st = call[c].st
          <5>1. CASE ServerRevokes(r)
            <6>1. call[c] \in Call
              BY <2>0
            <6>2. call'[c] \in {call[c], [call[c] EXCEPT !.floor = revocation[r].stamp]}
              BY <5>1 DEF ServerRevokes
            <6> QED
              BY <6>1, <6>2 DEF Call
          <5>2. CASE RevokeRefreshTokens(r) \/ RevokeSettles(r)
            BY <5>2 DEF RevokeRefreshTokens, RevokeSettles
          <5> QED
            BY <3>2, <5>1, <5>2 DEF Revoke
        <4> QED
          BY <4>1 DEF Verifies, Signed
      <3>3. ASSUME NEW alg \in {"RS256", "none"}, SetAlgorithm(alg) PROVE FALSE
        BY <3>3 DEF SetAlgorithm, Verifies, Signed
      <3>4. ~RotateKeys /\ ~Tick
        BY DEF RotateKeys, Tick, Verifies, Signed, serverVars
      <3> QED
        BY <3>1, <3>2, <3>3, <3>4 DEF Next
    <2> QED
      BY <2>2, <2>3, <2>4
  <1> QED
    BY <1>1, InitType, NextType, InitKeys, NextKeys, PTL DEF Spec, WithdrawnKeysRefused

-----------------------------------------------------------------------------
(* Revocation and the algorithm.                                            *)

(* What the first step of a call, and the arrival of its keys, can make of  *)
(* it.                                                                      *)
LEMMA SignatureStep ==
    ASSUME TypeOK, NEW c \in Calls, VerifyIdToken(c) \/ KeysArrive(c)
    PROVE  /\ \/ call[c].st = "idle" /\ call'[c].floor <= validSince
              \/ call[c].st = "keys" /\ call'[c].st # "fetching"
                 /\ (call'[c].st = "looking" => call'[c].floor = call[c].floor)
           /\ call'[c].st \in {"rejected", "fetching", "looking", "accepted"}
           /\ call'[c].st = "accepted" => ~call'[c].checkRevoked
           /\ call'[c].st \in Signed => call'[c].token.alg = algorithm
           /\ \A b \in Calls \ {c} : call'[b] = call[b]
           /\ UNCHANGED validSince
  <1>1. validSince \in Nat /\ call \in [Calls -> Call]
    BY DEF TypeOK
  <1>2. CASE VerifyIdToken(c)
    <2>1. PICK t \in Tokens, b \in BOOLEAN : \E d \in Call :
            /\ call' = [call EXCEPT ![c] = d]
            /\ \/ d = Rejected
               \/ d = [Begun(t, b) EXCEPT !.st = "fetching"]
               \/ d = AfterSignature(Begun(t, b), JwtVerify(t, FALSE))
               \/ d = WithKeys(Begun(t, b), publicKeys)
      BY <1>2, VerifyIdTokenFacts
    <2> DEFINE c0 == Begun(t, b)
    <2>2. c0 \in Call /\ c0.token = t /\ c0.floor \in Nat /\ c0.floor <= validSince
      <3>1. c0.token = t /\ c0.floor = IF b THEN validSince ELSE 0
        BY DEF Begun, Idle
      <3>2. c0 \in Call
        BY BegunType
      <3> HIDE DEF c0
      <3> QED
        BY <1>1, <3>1, <3>2
    <2>3. [c0 EXCEPT !.st = "fetching"].floor = c0.floor
          /\ [c0 EXCEPT !.st = "fetching"].st = "fetching"
      BY <2>2 DEF Call
    <2> HIDE DEF c0
    <2> DEFINE d1 == AfterSignature(c0, JwtVerify(t, FALSE))
               d2 == WithKeys(c0, publicKeys)
    <2>4. Rejected.floor = 0 /\ Rejected.st = "rejected"
      BY DEF Rejected, Idle
    <2>5. /\ d1.floor \in {0, c0.floor} /\ d1.st \in {"rejected", "looking", "accepted"}
          /\ d1.st = "accepted" => ~d1.checkRevoked
          /\ d1.st \in Signed => d1.token.alg = algorithm
      <3>1. d1.floor \in {0, c0.floor}
        BY <2>2 DEF AfterSignature, Rejected, Idle, Accepted, Call
      <3> QED
        BY <2>2, <3>1, AfterSignatureFacts DEF JwtVerify
    <2>6. /\ d2.floor \in {0, c0.floor} /\ d2.st \in {"rejected", "looking", "accepted"}
          /\ d2.st = "accepted" => ~d2.checkRevoked
          /\ d2.st \in Signed => d2.token.alg = algorithm
      <3>1. d2.floor \in {0, c0.floor}
        BY <2>2 DEF WithKeys, AfterSignature, Rejected, Idle, Accepted, Call
      <3> QED
        BY <2>2, <3>1, WithKeysFacts
    <2>7. PICK d \in Call :
            /\ call' = [call EXCEPT ![c] = d]
            /\ d \in {Rejected, [c0 EXCEPT !.st = "fetching"], d1, d2}
      BY <2>1 DEF c0
    <2> HIDE DEF d1, d2
    <2>8. call'[c] = d /\ \A j \in Calls \ {c} : call'[j] = call[j]
      BY <1>1, <2>7
    <2>9. /\ d.floor <= validSince
          /\ d.st \in {"rejected", "fetching", "looking", "accepted"}
          /\ d.st = "accepted" => ~d.checkRevoked
          /\ d.st \in Signed => d.token.alg = algorithm
      <3>1. CASE d = Rejected
        BY <1>1, <2>4, <3>1 DEF Signed
      <3>2. CASE d = [c0 EXCEPT !.st = "fetching"]
        BY <2>2, <2>3, <3>2 DEF Signed
      <3>3. CASE d = d1
        BY <1>1, <2>2, <2>5, <3>3
      <3>4. CASE d = d2
        BY <1>1, <2>2, <2>6, <3>4
      <3> QED
        BY <2>7, <3>1, <3>2, <3>3, <3>4
    <2> QED
      BY <1>2, <2>8, <2>9 DEF VerifyIdToken, serverVars
  <1>3. CASE KeysArrive(c)
    <2>1. call'[c] = WithKeys(call[c], call[c].answer) /\ call[c] \in Call
      BY <1>1, <1>3 DEF KeysArrive
    <2>2. \A b \in Calls \ {c} : call'[b] = call[b]
      BY <1>1, <1>3 DEF KeysArrive
    <2>3. call[c].st = "keys" /\ UNCHANGED validSince
      BY <1>3 DEF KeysArrive, serverVars
    <2> QED
      BY <2>1, <2>2, <2>3, WithKeysFacts
  <1> QED
    BY <1>2, <1>3

(* The floors are right at every step.                                      *)
LEMMA NextFloors == TypeOK /\ FloorsHold /\ [Next]_vars => FloorsHold'
  <1> SUFFICES ASSUME TypeOK, FloorsHold, [Next]_vars PROVE FloorsHold'
    OBVIOUS
  <1>0. validSince \in Nat /\ call \in [Calls -> Call]
    BY DEF TypeOK
  <1>1. CASE UNCHANGED vars
    BY <1>1 DEF vars, serverVars, FloorsHold
  <1>2. ASSUME NEW c \in Calls, Verify(c) PROVE FloorsHold'
    <2>1. CASE VerifyIdToken(c) \/ KeysArrive(c)
      BY <2>1, SignatureStep DEF FloorsHold
    <2>2. CASE EndpointAnswers(c)
      BY <1>0, <2>2 DEF EndpointAnswers, FloorsHold, Call, serverVars
    <2>3. CASE UserAnswered(c)
      BY <1>0, <2>3 DEF UserAnswered, FloorsHold, Call, serverVars
    <2>4. CASE UserArrives(c)
      BY <1>0, <2>4, RecordStages DEF UserArrives, FloorsHold, serverVars
    <2>5. CASE RequestFails(c) \/ ResultTaken(c)
      BY <1>0, <2>5, RecordStages DEF RequestFails, ResultTaken, FloorsHold, serverVars
    <2> QED
      BY <1>2, <2>1, <2>2, <2>3, <2>4, <2>5 DEF Verify
  <1>3. ASSUME NEW r \in Revokers, Revoke(r) PROVE FloorsHold'
    <2>1. CASE ServerRevokes(r)
      <3> DEFINE stamp == revocation[r].stamp
      <3>1. stamp \in Nat /\ validSince' = stamp
        BY <2>1 DEF ServerRevokes, TypeOK, Revocation
      <3>2. ASSUME NEW c \in Calls
            PROVE  /\ call'[c].st = call[c].st /\ call'[c].answer = call[c].answer
                   /\ call'[c].floor = IF stamp < call[c].floor THEN stamp
                                       ELSE call[c].floor
                   /\ call[c].floor \in Nat /\ call[c].answer \in Nat
        BY <1>0, <2>1, <3>2 DEF ServerRevokes, Call
      <3> HIDE DEF stamp
      <3> QED
        BY <1>0, <3>1, <3>2 DEF FloorsHold
    <2>2. CASE RevokeRefreshTokens(r) \/ RevokeSettles(r)
      BY <2>2 DEF RevokeRefreshTokens, RevokeSettles, FloorsHold
    <2> QED
      BY <1>3, <2>1, <2>2 DEF Revoke
  <1>4. ASSUME NEW alg \in {"RS256", "none"}, SetAlgorithm(alg) PROVE FloorsHold'
    BY <1>4 DEF SetAlgorithm, FloorsHold, serverVars
  <1>5. CASE RotateKeys \/ Tick
    BY <1>5 DEF RotateKeys, Tick, FloorsHold, serverVars
  <1> QED
    BY <1>1, <1>2, <1>3, <1>4, <1>5 DEF Next

(* A call that checks for revocation never accepts a session that was       *)
(* revoked during the whole of the call.                                    *)
THEOREM RevokedRefusedCorrect == Spec => RevokedRefused
  <1> DEFINE Refused == \A c \in Calls :
         call[c].st # "accepted" /\ call'[c].st = "accepted" /\ call'[c].checkRevoked
             => call[c].st = "user" /\ call[c].token.authTime >= call[c].floor
  <1>1. TypeOK /\ HasToken /\ FloorsHold /\ [Next]_vars => [Refused]_vars
    <2> SUFFICES ASSUME TypeOK, HasToken, FloorsHold, Next, NEW c \in Calls,
                        call[c].st # "accepted", call'[c].st = "accepted",
                        call'[c].checkRevoked
                 PROVE  call[c].st = "user" /\ call[c].token.authTime >= call[c].floor
      OBVIOUS
    <2>0. call \in [Calls -> Call]
      BY DEF TypeOK
    <2>1. ASSUME NEW b \in Calls, Verify(b) PROVE b = c /\ UserArrives(c)
      <3>1. b = c
        <4>1. PICK d \in Call : call' = [call EXCEPT ![b] = d]
          BY <2>1, VerifyStep
        <4> QED
          BY <2>0, <4>1
      <3>2. ~VerifyIdToken(c) /\ ~KeysArrive(c)
        BY SignatureStep
      <3>3. ~EndpointAnswers(c) /\ ~UserAnswered(c)
        BY <2>0 DEF EndpointAnswers, UserAnswered, Call
      <3>4. ~RequestFails(c) /\ ~ResultTaken(c)
        BY <2>0, RecordStages DEF RequestFails, ResultTaken
      <3> QED
        BY <2>1, <3>1, <3>2, <3>3, <3>4 DEF Verify
    <2>2. ASSUME UserArrives(c)
          PROVE  call[c].st = "user" /\ call[c].token.authTime >= call[c].floor
      <3>1. call[c].st = "user" /\ call[c] \in Call /\ call[c].token \in Tokens
        BY <2>0, <2>2 DEF UserArrives, HasToken, Signed
      <3>2. call[c].token.authTime \in Nat
        BY <3>1, VerificationAssumption DEF TokenRecord
      <3>3. ~(call[c].token.authTime < call[c].answer)
        BY <2>0, <2>2, RecordStages DEF UserArrives
      <3>4. call[c].floor <= call[c].answer /\ call[c].floor \in Nat /\ call[c].answer \in Nat
        BY <3>1 DEF FloorsHold, Call
      <3> QED
        BY <3>1, <3>2, <3>3, <3>4
    <2>3. ASSUME NEW r \in Revokers, Revoke(r) PROVE FALSE
      <3>1. CASE ServerRevokes(r)
        <4>1. call'[c] \in {call[c], [call[c] EXCEPT !.floor = revocation[r].stamp]}
          BY <3>1 DEF ServerRevokes
        <4> QED
          BY <2>0, <4>1 DEF Call
      <3>2. CASE RevokeRefreshTokens(r) \/ RevokeSettles(r)
        BY <3>2 DEF RevokeRefreshTokens, RevokeSettles
      <3> QED
        BY <2>3, <3>1, <3>2 DEF Revoke
    <2>4. ASSUME NEW alg \in {"RS256", "none"}, SetAlgorithm(alg) PROVE FALSE
      BY <2>4 DEF SetAlgorithm
    <2>5. ~RotateKeys /\ ~Tick
      BY DEF RotateKeys, Tick
    <2> QED
      BY <2>1, <2>2, <2>3, <2>4, <2>5 DEF Next
  <1>2. Init => HasToken /\ FloorsHold
    BY RecordStages DEF Init, HasToken, FloorsHold, Signed
  <1>3. KeysInv => HasToken
    BY DEF KeysInv
  <1> QED
    BY <1>1, <1>2, <1>3, InitType, NextType, InitKeys, NextKeys, NextFloors, PTL
       DEF Spec, RevokedRefused

(* A token passes only by the algorithm in force.                           *)
THEOREM OnlyCurrentAlgorithmCorrect == Spec => OnlyCurrentAlgorithm
  <1> DEFINE Current == \A c \in Calls : Verifies(c) => call'[c].token.alg = algorithm
  <1>1. TypeOK /\ HasToken /\ [Next]_vars => [Current]_vars
    <2> SUFFICES ASSUME TypeOK, HasToken, Next, NEW c \in Calls, Verifies(c)
                 PROVE  call'[c].token.alg = algorithm
      OBVIOUS
    <2>0. call \in [Calls -> Call]
      BY DEF TypeOK
    <2>1. ASSUME NEW b \in Calls, Verify(b) PROVE VerifyIdToken(c) \/ KeysArrive(c)
      <3>1. b = c
        <4>1. PICK d \in Call : call' = [call EXCEPT ![b] = d]
          BY <2>1, VerifyStep
        <4> QED
          BY <2>0, <4>1 DEF Verifies, Signed
      <3>2. ~EndpointAnswers(c)
        BY <2>0 DEF EndpointAnswers, Verifies, Signed, Call
      <3>3. ~UserAnswered(c) /\ ~UserArrives(c)
        BY DEF UserAnswered, UserArrives, Verifies
      <3>4. ~RequestFails(c) /\ ~ResultTaken(c)
        BY <2>0, RecordStages DEF RequestFails, ResultTaken, Verifies, Signed
      <3> QED
        BY <2>1, <3>1, <3>2, <3>3, <3>4 DEF Verify
    <2>2. ASSUME NEW r \in Revokers, Revoke(r) PROVE FALSE
      <3>1. CASE ServerRevokes(r)
        <4>1. call'[c] \in {call[c], [call[c] EXCEPT !.floor = revocation[r].stamp]}
          BY <3>1 DEF ServerRevokes
        <4> QED
          BY <2>0, <4>1 DEF Call, Verifies, Signed
      <3>2. CASE RevokeRefreshTokens(r) \/ RevokeSettles(r)
        BY <3>2 DEF RevokeRefreshTokens, RevokeSettles, Verifies, Signed
      <3> QED
        BY <2>2, <3>1, <3>2 DEF Revoke
    <2>3. ASSUME NEW alg \in {"RS256", "none"}, SetAlgorithm(alg) PROVE FALSE
      BY <2>3 DEF SetAlgorithm, Verifies, Signed
    <2>4. ~RotateKeys /\ ~Tick
      BY DEF RotateKeys, Tick, Verifies, Signed
    <2> QED
      BY <2>1, <2>2, <2>3, <2>4, SignatureStep DEF Next, Verifies
  <1>2. KeysInv => HasToken
    BY DEF KeysInv
  <1> QED
    BY <1>1, <1>2, InitType, NextType, InitKeys, NextKeys, PTL
       DEF Spec, OnlyCurrentAlgorithm
=============================================================================
