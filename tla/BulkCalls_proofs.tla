---------------------------- MODULE BulkCalls_proofs ----------------------------
(* Proofs about BulkCalls, for lists, batches and payloads of any size and  *)
(* number: a result tells, by position, what became of the list that was    *)
(* given, and messages that are copied are sent as they were given.         *)
EXTENDS BulkCalls, FiniteSetTheorems, WellFoundedInduction, TLAPS

(* A set that holds 0, and with a number its successor, holds every number. *)
LEMMA SetInduction ==
    ASSUME NEW S, 0 \in S, \A n \in S : n \in Nat => n + 1 \in S
    PROVE  Nat \subseteq S
  <1> DEFINE R == OpToRel(<, Nat)
             T == Nat \ S
  <1>1. \A x, y \in Nat : <<x, y>> \in R <=> x < y
    BY DEF OpToRel
  <1>2. IsWellFoundedOn(R, Nat)
    BY NatLessThanWellFounded
  <1>3. SUFFICES ASSUME T # {} PROVE FALSE
    OBVIOUS
  <1>4. PICK x \in T : \A y \in T : ~(<<y, x>> \in R)
    <2> HIDE DEF R
    <2> QED
      BY <1>2, <1>3, WFMin
  <1> HIDE DEF R
  <1>5. x \in Nat /\ x \notin S /\ x # 0
    OBVIOUS
  <1>6. x - 1 \in Nat
    BY <1>5
  <1>7. <<x - 1, x>> \in R
    BY <1>1, <1>5, <1>6
  <1>8. x - 1 \in S
    BY <1>4, <1>6, <1>7
  <1>9. (x - 1) + 1 \in S
    BY <1>6, <1>8
  <1>10. (x - 1) + 1 = x
    BY <1>5
  <1> QED
    BY <1>5, <1>9, <1>10

-----------------------------------------------------------------------------
(* Positions in order.                                                      *)
Increasing(s) == \A m, n \in DOMAIN s : m < n => s[m] < s[n]

Enumerates(s, S) == s \in [1..Cardinality(S) -> S] /\ Increasing(s)

LEMMA PositionsFinite ==
    ASSUME NEW n \in Nat, NEW S \in SUBSET (1..n)
    PROVE  IsFiniteSet(S) /\ Cardinality(S) \in 0..n
  <1>1. IsFiniteSet(1..n) /\ Cardinality(1..n) = n
    BY FS_Interval
  <1>2. IsFiniteSet(S) /\ Cardinality(S) <= n
    BY <1>1, FS_Subset
  <1>3. Cardinality(S) \in Nat
    BY <1>2, FS_CardinalityType
  <1> QED
    BY <1>2, <1>3

(* The positions of any part of a list can be put in order ...              *)
LEMMA OrderExists == \A n \in Nat : \A S \in SUBSET (1..n) : \E s : Enumerates(s, S)
  <1> DEFINE N == {n \in Nat : \A S \in SUBSET (1..n) : \E s : Enumerates(s, S)}
  <1>1. 0 \in N
    <2> SUFFICES ASSUME NEW S \in SUBSET (1..0) PROVE \E s : Enumerates(s, S)
      OBVIOUS
    <2>1. S = {} /\ Cardinality(S) = 0
      <3>1. S = {}
        OBVIOUS
      <3> QED
        BY <3>1, FS_EmptySet
    <2> DEFINE s == [i \in 1..0 |-> 0]
    <2>2. s \in [1..0 -> S] /\ DOMAIN s = {}
      OBVIOUS
    <2>3. Enumerates(s, S)
      BY <2>1, <2>2 DEF Enumerates, Increasing
    <2> QED
      BY <2>3
  <1>2. ASSUME NEW n \in N PROVE n + 1 \in N
    <2>1. n \in Nat /\ \A S \in SUBSET (1..n) : \E s : Enumerates(s, S)
      BY <1>2
    <2> SUFFICES ASSUME NEW S \in SUBSET (1..n + 1) PROVE \E s : Enumerates(s, S)
      BY <2>1
    <2>2. CASE n + 1 \notin S
      <3>1. S \in SUBSET (1..n)
        BY <2>1, <2>2
      <3> QED
        BY <2>1, <3>1
    <2>3. CASE n + 1 \in S
      <3> DEFINE T == S \ {n + 1}
                 k == Cardinality(T)
      <3>1. T \in SUBSET (1..n)
        BY <2>1
      <3>2. IsFiniteSet(T) /\ k \in 0..n
        BY <2>1, <3>1, PositionsFinite
      <3>3. S = T \cup {n + 1} /\ n + 1 \notin T
        BY <2>3
      <3>4. Cardinality(S) = k + 1
        BY <3>2, <3>3, FS_AddElement
      <3>5. PICK t : Enumerates(t, T)
        BY <2>1, <3>1
      <3>6. t \in [1..k -> T] /\ \A i, j \in 1..k : i < j => t[i] < t[j]
        BY <3>5 DEF Enumerates, Increasing
      <3> DEFINE s == [i \in 1..k + 1 |-> IF i = k + 1 THEN n + 1 ELSE t[i]]
      <3> HIDE DEF k, T
      <3>7. \A i \in 1..k + 1 : i = k + 1 \/ i \in 1..k
        BY <2>1, <3>2
      <3>8. \A i \in 1..k : t[i] \in 1..n
        BY <3>1, <3>6
      <3>9. s \in [1..k + 1 -> S]
        BY <3>3, <3>6, <3>7
      <3>10. ASSUME NEW i \in 1..k + 1, NEW j \in 1..k + 1, i < j PROVE s[i] < s[j]
        <4>1. i \in 1..k /\ i # k + 1 /\ s[i] = t[i]
          BY <2>1, <3>2, <3>10
        <4>2. CASE j = k + 1
          BY <2>1, <3>8, <4>1, <4>2
        <4>3. CASE j \in 1..k /\ j # k + 1
          BY <3>6, <3>10, <4>1, <4>3
        <4> QED
          BY <3>2, <3>7, <4>2, <4>3
      <3> HIDE DEF s
      <3>11. Enumerates(s, S)
        BY <3>4, <3>9, <3>10 DEF Enumerates, Increasing
      <3> QED
        BY <3>11
    <2> QED
      BY <2>2, <2>3
  <1> HIDE DEF N
  <1>3. Nat \subseteq N
    BY <1>1, <1>2, SetInduction
  <1> QED
    BY <1>3 DEF N

(* ... and InOrder does: every one of them is there once.                   *)
LEMMA InOrderFacts ==
    ASSUME NEW n \in Nat, NEW S \in SUBSET (1..n)
    PROVE  LET s == InOrder(S)
               k == Cardinality(S)
           IN  /\ k \in 0..n /\ IsFiniteSet(S)
               /\ s \in [1..k -> S] /\ DOMAIN s = 1..k
               /\ \A i, j \in 1..k : i < j => s[i] < s[j]
               /\ \A i, j \in 1..k : s[i] = s[j] => i = j
               /\ \A x \in S : \E i \in 1..k : s[i] = x
  <1> DEFINE s == InOrder(S)
             k == Cardinality(S)
  <1>1. k \in 0..n /\ IsFiniteSet(S)
    BY PositionsFinite
  <1>2. Enumerates(s, S)
    <2>1. \E t \in [1..k -> S] : \A i, j \in DOMAIN t : i < j => t[i] < t[j]
      BY OrderExists DEF Enumerates, Increasing
    <2>2. s = CHOOSE t \in [1..k -> S] : \A i, j \in DOMAIN t : i < j => t[i] < t[j]
      BY Zenon DEF InOrder
    <2> HIDE DEF s, k
    <2>3. s \in [1..k -> S] /\ \A i, j \in DOMAIN s : i < j => s[i] < s[j]
      BY <2>1, <2>2, Zenon
    <2> USE DEF s, k
    <2> QED
      BY <2>3 DEF Enumerates, Increasing
  <1>3. s \in [1..k -> S] /\ DOMAIN s = 1..k /\ \A i, j \in 1..k : i < j => s[i] < s[j]
    BY <1>2 DEF Enumerates, Increasing
  <1> HIDE DEF s, k
  <1>4. ASSUME NEW i \in 1..k, NEW j \in 1..k, s[i] = s[j] PROVE i = j
    <2>1. i \in Int /\ j \in Int
      BY <1>1
    <2>2. s[i] \in Int
      <3>1. s[i] \in S
        BY <1>3
      <3>2. s[i] \in 1..n
        BY <3>1
      <3> QED
        BY <3>2
    <2>3. ~(i < j) /\ ~(j < i)
      BY <1>3, <1>4, <2>1, <2>2
    <2> QED
      BY <2>1, <2>3
  <1>5. s \in Injection(1..k, S)
    BY <1>3, <1>4 DEF Injection, IsInjective
  <1>6. Cardinality(1..k) = k /\ Cardinality(S) = k
    <2>1. k \in Int /\ k >= 0
      BY <1>1
    <2> QED
      BY <2>1, FS_Interval DEF k
  <1>7. s \in Surjection(1..k, S)
    BY <1>1, <1>5, <1>6, FS_Injection
  <1>8. \A x \in S : \E i \in 1..k : s[i] = x
    BY <1>7 DEF Surjection
  <1> QED
    BY <1>1, <1>3, <1>4, <1>8 DEF s, k
-----------------------------------------------------------------------------
(* The errors of a result: at the positions of S, in order.                 *)
At(errors, S) ==
    /\ {errors[m].index : m \in DOMAIN errors} = S
    /\ Len(errors) = Cardinality(S)
    /\ \A m \in 1..Len(errors) - 1 : errors[m].index < errors[m + 1].index

(* A function on the numbers up to k is a sequence of length k.             *)
LEMMA FunctionLen ==
    ASSUME NEW k \in Nat, NEW s, s = [i \in 1..k |-> s[i]]
    PROVE  s \in Seq({s[i] : i \in 1..k}) /\ Len(s) = k /\ DOMAIN s = 1..k
  <1>1. s \in [1..k -> {s[i] : i \in 1..k}]
    OBVIOUS
  <1> QED
    BY <1>1

LEMMA ErrorsAt ==
    ASSUME NEW n \in Nat, NEW S \in SUBSET (1..n), NEW errors,
           errors = [m \in DOMAIN InOrder(S) |-> errors[m]],
           \A m \in DOMAIN InOrder(S) : errors[m].index = InOrder(S)[m]
    PROVE  At(errors, S)
  <1> DEFINE s == InOrder(S)
             k == Cardinality(S)
  <1>1. /\ k \in Nat /\ s \in [1..k -> S] /\ DOMAIN s = 1..k
        /\ \A i, j \in 1..k : i < j => s[i] < s[j]
        /\ \A x \in S : \E i \in 1..k : s[i] = x
    <2>1. /\ k \in 0..n
          /\ s \in [1..k -> S] /\ DOMAIN s = 1..k
          /\ \A i, j \in 1..k : i < j => s[i] < s[j]
          /\ \A x \in S : \E i \in 1..k : s[i] = x
      BY InOrderFacts, Zenon
    <2>2. k \in Nat
      BY <2>1
    <2> QED
      BY <2>1, <2>2, Zenon
  <1>2. errors = [m \in 1..k |-> errors[m]] /\ \A m \in 1..k : errors[m].index = s[m]
    BY <1>1
  <1> HIDE DEF s, k
  <1>3. Len(errors) = k /\ DOMAIN errors = 1..k
    BY <1>1, <1>2, FunctionLen
  <1>4. {errors[m].index : m \in DOMAIN errors} = S
    BY <1>1, <1>2, <1>3
  <1>5. ASSUME NEW m \in 1..Len(errors) - 1
        PROVE  errors[m].index < errors[m + 1].index
    <2>1. m \in 1..k /\ m + 1 \in 1..k /\ m < m + 1
      BY <1>1, <1>3
    <2> QED
      BY <1>1, <1>2, <2>1
  <1> QED
    BY <1>3, <1>4, <1>5 DEF At, k

(* The positions of a list that are in S and those that are not.            *)
LEMMA Counts ==
    ASSUME NEW n \in Nat, NEW S \in SUBSET (1..n)
    PROVE  /\ Cardinality(S) \in Nat /\ Cardinality((1..n) \ S) \in Nat
           /\ Cardinality((1..n) \ S) + Cardinality(S) = n
  <1>1. IsFiniteSet(S) /\ Cardinality(S) \in Nat
    BY PositionsFinite
  <1>2. IsFiniteSet((1..n) \ S) /\ Cardinality((1..n) \ S) \in Nat
    <2>1. (1..n) \ S \in SUBSET (1..n)
      OBVIOUS
    <2> QED
      BY <2>1, PositionsFinite
  <1>3. ((1..n) \ S) \cup S = 1..n /\ ((1..n) \ S) \cap S = {}
    OBVIOUS
  <1>4. Cardinality(1..n) = n
    BY FS_Interval
  <1>5. Cardinality(1..n) = Cardinality((1..n) \ S) + Cardinality(S) - Cardinality({})
    BY <1>1, <1>2, <1>3, FS_Union
  <1>6. Cardinality({}) = 0
    BY FS_EmptySet
  <1> QED
    BY <1>1, <1>2, <1>4, <1>5, <1>6

(* The result of a list that was sent as it is.                             *)
LEMMA FailuresAt ==
    ASSUME NEW n \in Nat, DOMAIN answer = 1..n, Len(answer) = n
    PROVE  /\ At(Failures, FailedItems)
           /\ Cardinality(FailedItems) \in Nat
           /\ Cardinality(DOMAIN answer \ FailedItems) + Cardinality(FailedItems) = n
           /\ Cardinality(DOMAIN answer \ FailedItems) \in Nat
  <1>1. FailedItems \in SUBSET (1..n)
    BY DEF FailedItems
  <1>2. /\ Failures = [m \in DOMAIN InOrder(FailedItems) |-> Failures[m]]
        /\ \A m \in DOMAIN InOrder(FailedItems) :
              Failures[m].index = InOrder(FailedItems)[m]
    BY DEF Failures
  <1>3. At(Failures, FailedItems)
    BY <1>1, <1>2, ErrorsAt
  <1> QED
    BY <1>1, <1>3, Counts
(* An import: an error for every user that is not uploaded and for every    *)
(* user that is and fails, each where the user was.                         *)
Uploaded(users) == {i \in DOMAIN users : PopulateUploadAccountUser(users[i])}

LEMMA IndexMapFacts ==
    ASSUME NEW n \in Nat, NEW users, DOMAIN users = 1..n
    PROVE  LET map == IndexMap(users)
               k == Cardinality(Uploaded(users))
           IN  /\ Uploaded(users) \in SUBSET (1..n) /\ k \in 0..n
               /\ map \in [1..k -> Uploaded(users)] /\ DOMAIN map = 1..k
               /\ \A i, j \in 1..k : map[i] = map[j] => i = j
               /\ \A x \in Uploaded(users) : \E i \in 1..k : map[i] = x
               /\ DOMAIN ValidatedUsers(users) = 1..k /\ Len(ValidatedUsers(users)) = k
               /\ \A i \in 1..k : ValidatedUsers(users)[i] = users[map[i]]
  <1> DEFINE map == IndexMap(users)
             S == Uploaded(users)
             k == Cardinality(S)
             v == ValidatedUsers(users)
  <1>1. S \in SUBSET (1..n)
    BY DEF Uploaded
  <1>2. map = InOrder(S)
    BY DEF IndexMap, Uploaded
  <1>3. /\ k \in 0..n
        /\ InOrder(S) \in [1..k -> S] /\ DOMAIN InOrder(S) = 1..k
        /\ \A i, j \in 1..k : InOrder(S)[i] = InOrder(S)[j] => i = j
        /\ \A x \in S : \E i \in 1..k : InOrder(S)[i] = x
    <2> HIDE DEF S
    <2> QED
      BY <1>1, InOrderFacts, Zenon
  <1>4. v = [i \in DOMAIN map |-> users[map[i]]]
    BY DEF ValidatedUsers
  <1> HIDE DEF map, S, k, v
  <1>5. k \in Nat /\ v = [i \in 1..k |-> users[map[i]]]
    BY <1>2, <1>3, <1>4
  <1>6. DOMAIN v = 1..k /\ \A i \in 1..k : v[i] = users[map[i]]
    BY <1>5
  <1>7. v = [i \in 1..k |-> v[i]]
    BY <1>5, <1>6
  <1>8. Len(v) = k
    BY <1>5, <1>7, FunctionLen
  <1> QED
    BY <1>1, <1>2, <1>3, <1>6, <1>8 DEF map, S, k, v

LEMMA ImportFacts ==
    ASSUME NEW n \in Nat, NEW users, DOMAIN users = 1..n,
           NEW F \in SUBSET (DOMAIN IndexMap(users))
    PROVE  LET r == BuildResponse(users, F)
               S == ((1..n) \ Uploaded(users)) \cup {IndexMap(users)[m] : m \in F}
           IN  /\ At(r.errors, S)
               /\ Len(r.errors) = r.failureCount
               /\ r.successCount + r.failureCount = n
  <1> DEFINE map == IndexMap(users)
             U == Uploaded(users)
             k == Cardinality(U)
             refused == (1..n) \ U
             failed == {map[m] : m \in F}
             at == InOrder(refused \cup failed)
             r == BuildResponse(users, F)
  <1>1. /\ U \in SUBSET (1..n) /\ k \in 0..n
        /\ map \in [1..k -> U] /\ DOMAIN map = 1..k
        /\ Len(ValidatedUsers(users)) = k
    BY IndexMapFacts, Zenon
  <1>2. UserImportResultErrors(users) = refused
    BY DEF UserImportResultErrors, Uploaded
  <1>3. r = [successCount |-> k - Cardinality(failed),
             failureCount |-> Cardinality(refused) + Cardinality(failed),
             errors |-> [m \in DOMAIN at |->
                           [index |-> at[m],
                            error |-> IF at[m] \in failed THEN "INVALID_USER_IMPORT"
                                      ELSE "REFUSED"]]]
    BY <1>1, <1>2 DEF BuildResponse, ImportResult
  <1>4. failed \in SUBSET U /\ refused \in SUBSET (1..n) /\ refused \cap U = {}
        /\ failed \in SUBSET (1..n) /\ refused \cup failed \in SUBSET (1..n)
    BY <1>1
  <1>5. Cardinality(refused) + k = n /\ Cardinality(refused) \in Nat
    BY <1>1, Counts
  <1> HIDE DEF map, U, r, refused, failed, at, k
  <1>6. IsFiniteSet(failed) /\ Cardinality(failed) \in Nat
    BY <1>4, PositionsFinite
  <1>7. Cardinality(refused \cup failed) = Cardinality(refused) + Cardinality(failed)
    <2>1. IsFiniteSet(refused)
      BY <1>4, PositionsFinite
    <2>2. refused \cap failed = {}
      BY <1>4
    <2>3. Cardinality(refused \cup failed)
            = Cardinality(refused) + Cardinality(failed) - Cardinality({})
      BY <1>6, <2>1, <2>2, FS_Union
    <2>4. Cardinality({}) = 0
      BY FS_EmptySet
    <2> QED
      BY <1>5, <1>6, <2>3, <2>4
  <1>8. At(r.errors, refused \cup failed)
    <2>1. /\ r.errors = [m \in DOMAIN at |-> r.errors[m]]
          /\ \A m \in DOMAIN at : r.errors[m].index = at[m]
      BY <1>3
    <2> QED
      BY <1>4, <2>1, ErrorsAt DEF at
  <1>9. Len(r.errors) = Cardinality(refused) + Cardinality(failed)
    BY <1>7, <1>8 DEF At
  <1>10. r.failureCount = Cardinality(refused) + Cardinality(failed)
         /\ r.successCount = k - Cardinality(failed)
    BY <1>3
  <1>11. r.successCount + r.failureCount = n
    <2>1. k \in Int
      BY <1>1
    <2> QED
      BY <1>5, <1>6, <1>10, <2>1
  <1>12. Len(r.errors) = r.failureCount
    BY <1>9, <1>10
  <1> QED
    BY <1>8, <1>11, <1>12 DEF r, refused, failed, U, map

(* What has failed, of a list of n of which the k items that m tells were   *)
(* sent.                                                                    *)
Sent(n, k, m) ==
    /\ n \in Nat /\ k \in Nat /\ m \in [1..k -> 1..n]
    /\ \A i, j \in 1..k : m[i] = m[j] => i = j
    /\ DOMAIN given = 1..n /\ \A i \in 1..n : given[i].id = i
    /\ Len(executed) = k
    /\ \A e \in 1..k : executed[e].id = m[e] /\ executed[e].outcome = answer[e]

LEMMA Fates ==
    ASSUME NEW n, NEW k, NEW m, Sent(n, k, m)
    PROVE  FailedPositions = {i \in 1..n : \A e \in 1..k : m[e] = i => answer[e] # "ok"}
  <1> SUFFICES ASSUME NEW i \in 1..n
               PROVE  FateOf(i) # "ok" <=> \A e \in 1..k : m[e] = i => answer[e] # "ok"
    BY DEF FailedPositions, Sent
  <1> DEFINE seen == {e \in 1..Len(executed) : executed[e].id = given[i].id}
  <1>1. seen = {e \in 1..k : m[e] = i}
    BY DEF Sent
  <1>2. FateOf(i) = IF seen = {} THEN "refused" ELSE executed[CHOOSE e \in seen : TRUE].outcome
    BY DEF FateOf
  <1> HIDE DEF seen
  <1>3. CASE seen = {}
    BY <1>1, <1>2, <1>3
  <1>4. CASE seen # {}
    <2>1. PICK c : c = CHOOSE e \in seen : TRUE
      OBVIOUS
    <2>2. c \in seen
      <3>1. \E e \in seen : TRUE
        BY <1>4
      <3> QED
        BY <2>1, <3>1, Zenon
    <2>3. c \in 1..k /\ m[c] = i /\ \A e \in 1..k : m[e] = i => e = c
      BY <1>1, <2>2 DEF Sent
    <2>4. FateOf(i) = answer[c]
      <3>1. FateOf(i) = executed[c].outcome
        BY <1>2, <1>4, <2>1
      <3> QED
        BY <2>3, <3>1 DEF Sent
    <2> QED
      BY <2>3, <2>4
  <1> QED
    BY <1>3, <1>4

(* When nothing has reached the server, all of it has.                      *)
LEMMA NothingSent ==
    ASSUME executed' = <<>> PROVE FailedPositions' = DOMAIN given'
  <1>1. ASSUME NEW i \in DOMAIN given' PROVE FateOf(i)' = "refused"
    <2>1. {e \in 1..Len(executed') : executed'[e].id = given'[i].id} = {}
      OBVIOUS
    <2> QED
      BY <2>1 DEF FateOf
  <1> QED
    BY <1>1 DEF FailedPositions

LEMMA FatesKept ==
    ASSUME given' = given, executed' = executed PROVE FailedPositions' = FailedPositions
  BY DEF FailedPositions, FateOf

-----------------------------------------------------------------------------
(* A batch whose messages have payloads of their own, all like p: all are   *)
(* valid when each is, and each is converted as long as all before it are.  *)
LEMMA ValidatedFacts ==
    ASSUME NEW n \in Nat, NEW p, heap = [r \in Refs |-> heap[r]],
           \A i \in 1..n : /\ copy[i].ref \in Refs
                           /\ heap[copy[i].ref] = [version |-> 1, parts |-> p],
           \A i, j \in 1..n : copy[i].ref = copy[j].ref => i = j
    PROVE  LET v == ValidatedMessages(n)
           IN  /\ v.ok <=> \A i \in 1..n : Messages!ValidateMessage(copy[i].status = "ok", p)
               /\ v.heap = [r \in Refs |->
                              IF \E j \in 1..n :
                                    /\ copy[j].ref = r
                                    /\ \A i \in 1..j :
                                          Messages!ValidateMessage(copy[i].status = "ok", p)
                              THEN [version |-> 1, parts |-> Messages!ConvertMessage(p)]
                              ELSE heap[r]]
  <1> DEFINE C == Messages!ConvertMessage(p)
             V(i) == Messages!ValidateMessage(copy[i].status = "ok", p)
             Valid(i) == \A j \in 1..i : V(j)
             Heap(i) == [r \in Refs |-> IF \E j \in 1..i : copy[j].ref = r /\ Valid(j)
                                        THEN [version |-> 1, parts |-> C] ELSE heap[r]]
             g == [i \in 0..n |-> [ok |-> Valid(i), heap |-> Heap(i)]]
             Next1(x, i) == LET r == copy[i].ref
                                q == x.heap[r].parts
                                valid == /\ x.ok
                                         /\ Messages!ValidateMessage(copy[i].status = "ok", q)
                            IN  [ok |-> valid,
                                 heap |-> IF valid
                                          THEN [x.heap EXCEPT ![r].parts =
                                                  Messages!ConvertMessage(q)]
                                          ELSE x.heap]
             Recursive(f) == f = [i \in 0..n |-> IF i = 0 THEN [ok |-> TRUE, heap |-> heap]
                                                 ELSE Next1(f[i - 1], i)]
             f == CHOOSE f : Recursive(f)
  <1>1. Valid(0) = TRUE /\ Heap(0) = heap
    <2>1. Valid(0)
      OBVIOUS
    <2>2. Heap(0) = [r \in Refs |-> heap[r]]
      OBVIOUS
    <2> QED
      BY <2>1, <2>2
  <1>2. ASSUME NEW i \in 1..n
        PROVE  /\ Valid(i) = (Valid(i - 1) /\ V(i))
               /\ Heap(i) = IF Valid(i) THEN [Heap(i - 1) EXCEPT ![copy[i].ref].parts = C]
                            ELSE Heap(i - 1)
               /\ Heap(i - 1)[copy[i].ref].parts = p
    <2>1. 1..i = (1..i - 1) \cup {i} /\ i - 1 \in 0..n /\ i \notin 1..i - 1
      OBVIOUS
    <2>2. Valid(i) = (Valid(i - 1) /\ V(i))
      <3> HIDE DEF V
      <3> QED
        BY <2>1
    <2> DEFINE r == copy[i].ref
               G == Heap(i - 1)
    <2> HIDE DEF C, Valid
    <2>3. r \in Refs /\ G[r] = [version |-> 1, parts |-> p]
      <3>1. ~ \E j \in 1..i - 1 : copy[j].ref = r
        OBVIOUS
      <3> QED
        BY <3>1
    <2>4. G = [x \in Refs |-> G[x]]
      OBVIOUS
    <2>5. ASSUME NEW x \in Refs, x # r \/ ~Valid(i) PROVE Heap(i)[x] = G[x]
      <3>1. (\E j \in 1..i : copy[j].ref = x /\ Valid(j))
              <=> (\E j \in 1..i - 1 : copy[j].ref = x /\ Valid(j))
        BY <2>1, <2>5
      <3> QED
        BY <3>1
    <2>6. Valid(i) => Heap(i)[r] = [version |-> 1, parts |-> C]
      BY <2>3
    <2>7. DOMAIN Heap(i) = Refs /\ Heap(i) = [x \in Refs |-> Heap(i)[x]]
      OBVIOUS
    <2> DEFINE H == Heap(i)
    <2> HIDE DEF G, r, H
    <2>8. [G EXCEPT ![r].parts = C] = [x \in Refs |-> IF x = r THEN [version |-> 1, parts |-> C]
                                                      ELSE G[x]]
      BY <2>3, <2>4
    <2>9. CASE Valid(i)
      <3>1. H = [x \in Refs |-> IF x = r THEN [version |-> 1, parts |-> C] ELSE G[x]]
        BY <2>5, <2>6, <2>7, <2>9 DEF H
      <3> QED
        BY <2>2, <2>3, <2>8, <2>9, <3>1 DEF H, G, r
    <2>10. CASE ~Valid(i)
      <3>1. H = [x \in Refs |-> G[x]]
        BY <2>5, <2>7, <2>10 DEF H
      <3> QED
        BY <2>2, <2>3, <2>4, <2>10, <3>1 DEF H, G, r
    <2> QED
      BY <2>9, <2>10
  <1>3. ASSUME NEW i \in 1..n PROVE g[i] = Next1(g[i - 1], i)
    <2>1. i \in 0..n /\ i - 1 \in 0..n
      OBVIOUS
    <2> HIDE DEF Valid, Heap, V, C
    <2>2. g[i] = [ok |-> Valid(i), heap |-> Heap(i)]
          /\ g[i - 1] = [ok |-> Valid(i - 1), heap |-> Heap(i - 1)]
      BY <2>1
    <2> HIDE DEF g
    <2>3. g[i - 1].ok = Valid(i - 1) /\ g[i - 1].heap = Heap(i - 1)
      BY <2>2
    <2>4. g[i - 1].heap[copy[i].ref].parts = p
      BY <1>2, <2>3
    <2>5. Next1(g[i - 1], i) = [ok |-> Valid(i - 1) /\ V(i),
                                heap |-> IF Valid(i - 1) /\ V(i)
                                         THEN [Heap(i - 1) EXCEPT ![copy[i].ref].parts = C]
                                         ELSE Heap(i - 1)]
      BY <2>3, <2>4 DEF V, C
    <2>6. Valid(i) = (Valid(i - 1) /\ V(i))
          /\ Heap(i) = IF Valid(i) THEN [Heap(i - 1) EXCEPT ![copy[i].ref].parts = C]
                       ELSE Heap(i - 1)
      BY <1>2
    <2> QED
      BY <2>2, <2>5, <2>6
  <1> HIDE DEF Next1
  <1>4. g[0] = [ok |-> TRUE, heap |-> heap]
    <2> HIDE DEF Valid, Heap
    <2>1. g[0] = [ok |-> Valid(0), heap |-> Heap(0)]
      OBVIOUS
    <2> HIDE DEF g
    <2> QED
      BY <1>1, <2>1
  <1>5. g = [i \in 0..n |-> g[i]]
    <2> HIDE DEF Valid, Heap
    <2> QED
      OBVIOUS
  <1> HIDE DEF g, Valid, Heap
  <1>6. Recursive(g)
    <2>1. ASSUME NEW i \in 0..n
          PROVE  g[i] = IF i = 0 THEN [ok |-> TRUE, heap |-> heap] ELSE Next1(g[i - 1], i)
      <3>1. i = 0 \/ (i \in 1..n /\ i # 0)
        OBVIOUS
      <3> QED
        BY <1>3, <1>4, <3>1
    <2> QED
      BY <1>5, <2>1
  <1>7. Recursive(f)
    <2> HIDE DEF Recursive
    <2> QED
      BY <1>6
  <1> HIDE DEF f
  <1>8. f[0] = g[0] /\ \A i \in 1..n : f[i] = Next1(f[i - 1], i)
    <2>1. \A i \in 0..n : f[i] = IF i = 0 THEN [ok |-> TRUE, heap |-> heap]
                                ELSE Next1(f[i - 1], i)
      BY <1>7
    <2>2. 0 \in 0..n /\ \A i \in 1..n : i \in 0..n /\ i # 0
      OBVIOUS
    <2> QED
      BY <1>4, <2>1, <2>2
  <1> DEFINE S == {i \in Nat : i <= n => f[i] = g[i]}
  <1>9. 0 \in S
    BY <1>8
  <1>10. ASSUME NEW i \in S, i \in Nat PROVE i + 1 \in S
    <2>1. CASE i + 1 \in 1..n
      <3>1. (i + 1) - 1 = i /\ f[i] = g[i]
        BY <1>10, <2>1
      <3>2. f[i + 1] = Next1(f[i], i + 1) /\ g[i + 1] = Next1(g[i], i + 1)
        BY <1>3, <1>8, <2>1, <3>1
      <3> QED
        BY <3>1, <3>2
    <2> QED
      BY <1>10, <2>1
  <1> HIDE DEF S
  <1>11. n \in S
    BY <1>9, <1>10, SetInduction
  <1>12. f[n] = g[n]
    BY <1>11 DEF S
  <1>13. ValidatedMessages(n) = f[n]
    BY DEF ValidatedMessages, f, Recursive, Next1
  <1>14. g[n] = [ok |-> Valid(n), heap |-> Heap(n)]
    BY DEF g
  <1>15. ValidatedMessages(n) = [ok |-> Valid(n), heap |-> Heap(n)]
    BY <1>12, <1>13, <1>14
  <1>16. ValidatedMessages(n).ok = Valid(n) /\ ValidatedMessages(n).heap = Heap(n)
    BY <1>15
  <1> QED
    BY <1>16 DEF Valid, Heap, V, C

(* The errors of messaging are those that the SDK documents.                *)
LEMMA MessagingCodes ==
    ASSUME NEW code
    PROVE  /\ Errors!MessagingError(code) \in Errors!MessagingClientErrorCode
           /\ Errors!TopicManagementError(code) \in Errors!MessagingClientErrorCode
  <1>1. Errors!MessagingError(code) \in Errors!MessagingClientErrorCode
    BY DEF Errors!MessagingError, Errors!Lookup, Errors!MessagingServerToClientCode,
           Errors!MessagingClientErrorCode
  <1>2. Errors!TopicManagementError(code) \in Errors!MessagingClientErrorCode
    BY DEF Errors!TopicManagementError, Errors!Lookup, Errors!TopicMgtServerToClientCode,
           Errors!MessagingClientErrorCode
  <1> QED
    BY <1>1, <1>2
-----------------------------------------------------------------------------
(* The invariant, part by part.                                             *)
Underway == {"called", "prepared", "sent", "answered"}

Items == [id : Nat, status : {"ok", "bad", "foreign"}, hash : BOOLEAN, ref : Nat]

(* A list that is given to a call: an item's identity is its position.      *)
Numbered(l) ==
    /\ l \in Seq(Items) /\ Len(l) <= MaxItems
    /\ \A i \in 1..Len(l) :
          /\ l[i].id = i
          /\ op.name \in Sends => l[i].status \in {"ok", "bad"} /\ l[i].ref \in 1..MaxItems

ShapeInv ==
    /\ op.name \in Ops /\ phase \in {"idle", "resolved", "rejected"} \cup Underway
    /\ attempts \in 0..MaxAttempts /\ edits \in 0..MaxEdits
    /\ list \in Seq(Items)
    /\ phase = "idle" => Numbered(list) /\ edits = 0 /\ executed = <<>>
    /\ phase # "idle" => Numbered(given) /\ (edits = 0 => list = given)
    /\ phase = "called" => op.name \in Sends \cup Legacy

(* What a request is made of: the items that were given, but for those that *)
(* an import leaves out and those that the caller may still change.         *)
Requested(c) ==
    /\ c \in Seq(Items) /\ Len(c) <= MaxBatch + edits
    /\ op.name = "importUsers" => c = ValidatedUsers(given)
    /\ op.name # "importUsers" /\ (op.name \in Legacy => edits = 0) =>
          Len(c) = Len(given) /\ \A i \in 1..Len(c) : c[i].id = i

CopyInv ==
    /\ op.name \in Legacy /\ phase = "prepared" => Len(list) <= MaxBatch + edits
    /\ op.name \in Legacy /\ phase \in {"sent", "answered"} => Requested(copy)
    /\ op.name \notin Legacy /\ phase \in Underway => Requested(copy)

AnswerInv ==
    phase = "answered" =>
        /\ answer \in [1..Len(copy) -> Outcomes]
        /\ DOMAIN executed = 1..Len(copy) /\ Len(executed) = Len(copy)
        /\ \A i \in 1..Len(copy) : executed[i].id = copy[i].id /\ executed[i].outcome = answer[i]

(* The payloads of the caller stay alike ...                                *)
Originals ==
    /\ heap = [r \in Refs |-> [version |-> heap[r].version, parts |-> heap[r].parts]]
    /\ \A r, s \in 1..MaxItems : heap[r] = heap[s]
    /\ phase = "idle" => \A r \in 1..MaxItems : heap[r].version = 1

(* ... and the call has one of its own for every message, as it was given,  *)
(* which is converted once.                                                 *)
Copies ==
    phase \in Underway =>
        /\ MaxItems >= 1
        /\ \A i \in 1..Len(copy) :
              /\ copy[i].ref \in Refs /\ copy[i].ref > MaxItems
              /\ heap[copy[i].ref] =
                    [version |-> 1,
                     parts |-> IF phase = "called" THEN heap[1].parts
                               ELSE Messages!ConvertMessage(heap[1].parts)]
        /\ \A i, j \in 1..Len(copy) : copy[i].ref = copy[j].ref => i = j
        /\ phase = "called" => \A i \in 1..Len(copy) : copy[i].status = given[i].status

PayloadInv == Copied => Originals /\ Copies /\ SentAsGiven

ErrorsInv ==
    phase = "resolved" /\ op.name \in Sends \cup Legacy =>
        \A n \in DOMAIN result.errors :
            result.errors[n].error \in Errors!MessagingClientErrorCode

BulkInv == ShapeInv /\ CopyInv /\ AnswerInv /\ PayloadInv /\ ResultsByPosition /\ ErrorsInv

-----------------------------------------------------------------------------
LEMMA InitInv == Init => BulkInv
  <1> SUFFICES ASSUME Init PROVE BulkInv
    OBVIOUS
  <1>1. /\ phase = "idle" /\ attempts = 0 /\ edits = 0 /\ executed = <<>>
        /\ MaxAttempts \in Nat /\ MaxEdits \in Nat /\ MaxItems \in Nat
    BY BoundsAssumption DEF Init
  <1>2. op.name \in Ops
    <2>1. PICK o \in Ops : op \in Options(o)
      BY DEF Init
    <2>2. op.name = o
      BY <2>1 DEF Options
    <2> QED
      BY <2>1, <2>2
  <1>3. PICK n \in 0..MaxItems :
           \E status \in [1..n -> Statuses(op.name)] :
           \E hash \in [1..n -> IF op.name = "importUsers" THEN BOOLEAN ELSE {FALSE}] :
             \E shared \in IF op.name \in Sends THEN {op.name = "sendMulticast", TRUE} ELSE {TRUE} :
               list = [i \in 1..n |-> Item(i, status[i], hash[i], IF shared THEN 1 ELSE i)]
    BY Zenon DEF Init
  <1>4. PICK status \in [1..n -> Statuses(op.name)],
             hash \in [1..n -> IF op.name = "importUsers" THEN BOOLEAN ELSE {FALSE}] :
             \E shared \in IF op.name \in Sends THEN {op.name = "sendMulticast", TRUE} ELSE {TRUE} :
               list = [i \in 1..n |-> Item(i, status[i], hash[i], IF shared THEN 1 ELSE i)]
    BY <1>3
  <1>5. PICK shared \in IF op.name \in Sends THEN {op.name = "sendMulticast", TRUE} ELSE {TRUE} :
               list = [i \in 1..n |-> Item(i, status[i], hash[i], IF shared THEN 1 ELSE i)]
    BY <1>4
  <1>6. n \in Nat /\ n <= MaxItems /\ \A i \in 1..n : i \in Nat /\ i \in 1..MaxItems /\ 1 \in 1..MaxItems
    BY <1>1
  <1>7. ASSUME NEW i \in 1..n
        PROVE  /\ list[i].id = i /\ list[i] \in Items
               /\ op.name \in Sends => list[i].status \in {"ok", "bad"} /\ list[i].ref \in 1..MaxItems
    <2>1. list[i] = Item(i, status[i], hash[i], IF shared THEN 1 ELSE i)
      BY <1>5
    <2>2. status[i] \in {"ok", "bad", "foreign"} /\ (op.name \in Sends => status[i] \in {"ok", "bad"})
      BY <1>2 DEF Statuses, Ops, Sends, Legacy
    <2>3. hash[i] \in BOOLEAN
      OBVIOUS
    <2>4. PICK ref : ref = IF shared THEN 1 ELSE i
      OBVIOUS
    <2>5. ref \in Nat /\ ref \in 1..MaxItems
      BY <1>6, <2>4
    <2>6. list[i] = [id |-> i, status |-> status[i], hash |-> hash[i], ref |-> ref]
      BY <2>1, <2>4 DEF Item
    <2> QED
      BY <1>6, <2>2, <2>3, <2>5, <2>6 DEF Items
  <1>8. list = [i \in 1..n |-> list[i]]
    BY <1>5
  <1>9. list \in Seq(Items) /\ Len(list) = n
    <2>1. list \in [1..n -> Items]
      BY <1>7, <1>8
    <2> QED
      BY <1>6, <2>1
  <1>10. ShapeInv
    BY <1>1, <1>2, <1>6, <1>7, <1>9 DEF ShapeInv, Numbered, Underway
  <1>11. Originals
    <2>1. PICK p : heap = [r \in Refs |-> IF r <= MaxItems
                                          THEN [version |-> 1, parts |-> p]
                                          ELSE [version |-> 0, parts |-> NoPayload]]
      BY DEF Init
    <2>2. \A r \in 1..MaxItems : r \in Refs /\ heap[r] = [version |-> 1, parts |-> p]
      BY <1>1, <2>1 DEF Refs
    <2>3. \A r \in Refs : heap[r] = [version |-> heap[r].version, parts |-> heap[r].parts]
      BY <2>1
    <2>4. heap = [r \in Refs |-> heap[r]]
      BY <2>1
    <2>5. heap = [r \in Refs |-> [version |-> heap[r].version, parts |-> heap[r].parts]]
      BY <2>3, <2>4
    <2>6. \A r, s \in 1..MaxItems : heap[r] = heap[s] /\ heap[r].version = 1
      BY <2>2
    <2> QED
      BY <2>5, <2>6 DEF Originals
  <1>12. Copies /\ CopyInv /\ AnswerInv /\ ResultsByPosition /\ ErrorsInv
    BY <1>1 DEF Copies, CopyInv, AnswerInv, ResultsByPosition, ErrorsInv, Underway
  <1>13. SentAsGiven
    <2>1. DOMAIN executed = {}
      BY <1>1
    <2>2. \A r, s \in 1..MaxItems : heap[r] = heap[s]
      BY <1>11 DEF Originals
    <2> QED
      BY <1>1, <2>1, <2>2 DEF SentAsGiven
  <1> QED
    BY <1>10, <1>11, <1>12, <1>13 DEF BulkInv, PayloadInv

(* The operations of each step.                                             *)
LEMMA Calls ==
    ASSUME BulkInv, Call
    PROVE  /\ phase = "idle" /\ given' = list /\ op' = op /\ list' = list /\ answer' = answer
           /\ attempts' = attempts /\ edits' = edits /\ executed' = executed
           /\ \/ op.name = "importUsers" /\ CallImportUsers
              \/ op.name = "deleteUsers" /\ DeleteAccounts
              \/ op.name = "getUsers" /\ GetAccountInfoByIdentifiers
              \/ op.name \in Sends /\ CallSend
              \/ op.name \in Legacy /\ CallLegacy
  BY DEF BulkInv, ShapeInv, Call, Ops, Sends, Legacy

LEMMA Prepares ==
    ASSUME BulkInv, Prepare
    PROVE  /\ phase = "called" /\ given' = given /\ op' = op /\ list' = list /\ answer' = answer
           /\ attempts' = attempts /\ edits' = edits /\ executed' = executed
           /\ \/ op.name \in Sends /\ PrepareSend
              \/ op.name \in Legacy /\ PrepareDevices
              \/ op.name \in Legacy /\ PrepareTopic
  BY DEF BulkInv, ShapeInv, Prepare, Ops, Sends, Legacy

(* The caller may change its list only while the call runs, by one item.    *)
LEMMA Edits ==
    ASSUME BulkInv, CallerEdits
    PROVE  /\ phase \in Underway /\ phase' = phase /\ edits' = edits + 1
           /\ edits \in Nat /\ edits' \in 0..MaxEdits
           /\ op' = op /\ copy' = copy /\ answer' = answer /\ result' = result
           /\ attempts' = attempts /\ given' = given /\ executed' = executed
           /\ list' \in Seq(Items) /\ Len(list') <= Len(list) + 1
           /\ \/ heap' = heap
              \/ heap' = [r \in Refs |-> IF r <= MaxItems
                                         THEN [heap[r] EXCEPT !.version = 2] ELSE heap[r]]
  <1>1. list \in Seq(Items) /\ edits \in 0..MaxEdits /\ MaxEdits \in Nat /\ MaxItems \in Nat
    BY BoundsAssumption DEF BulkInv, ShapeInv
  <1>2. Len(list) \in Nat
    BY <1>1
  <1>3. list' \in Seq(Items) /\ Len(list') <= Len(list) + 1
    <2> SUFFICES ASSUME list' = list \/ (list # <<>> /\ list' = Tail(list))
                          \/ list' = Append(list, Item(MaxItems + 1, "ok", FALSE, 1))
                 PROVE  list' \in Seq(Items) /\ Len(list') <= Len(list) + 1
      BY DEF CallerEdits
    <2>1. CASE list # <<>> /\ list' = Tail(list)
      BY <1>1, <1>2, <2>1
    <2>2. CASE list' = Append(list, Item(MaxItems + 1, "ok", FALSE, 1))
      <3>1. PICK x : x = Item(MaxItems + 1, "ok", FALSE, 1)
        OBVIOUS
      <3>2. x \in Items /\ list' = Append(list, x)
        BY <1>1, <2>2, <3>1 DEF Item, Items
      <3> QED
        BY <1>1, <1>2, <3>2
    <2>3. CASE list' = list
      BY <1>1, <1>2, <2>3
    <2> QED
      BY <2>1, <2>2, <2>3
  <1>4. edits \in Nat /\ edits' \in 0..MaxEdits
    BY <1>1 DEF CallerEdits
  <1> QED
    BY <1>3, <1>4 DEF CallerEdits, Underway
-----------------------------------------------------------------------------
LEMMA NextShape == BulkInv /\ [Next]_vars => ShapeInv'
  <1> SUFFICES ASSUME BulkInv, [Next]_vars PROVE ShapeInv'
    OBVIOUS
  <1>1. ShapeInv /\ MaxAttempts \in Nat
    BY BoundsAssumption DEF BulkInv
  <1>2. CASE Call
    <2>1. phase' \in {"rejected", "resolved", "prepared", "called"}
          /\ (phase' = "called" => op.name \in Sends \cup Legacy)
      BY <1>2, Calls DEF CallImportUsers, DeleteAccounts, GetAccountInfoByIdentifiers, PushAll,
                         CallSend, CallLegacy, Reject, Resolve
    <2> QED
      BY <1>1, <1>2, <2>1, Calls DEF ShapeInv, Numbered, Underway
  <1>3. CASE Prepare
    <2>1. phase' \in {"rejected", "prepared"}
      BY <1>3, Prepares DEF PrepareSend, PrepareDevices, PrepareTopic, Reject
    <2> QED
      BY <1>1, <1>3, <2>1, Prepares DEF ShapeInv, Numbered, Underway
  <1>4. CASE Serialise
    BY <1>1, <1>4, BoundsAssumption DEF Serialise, ShapeInv, Numbered, Underway
  <1>5. CASE Execute
    BY <1>1, <1>5 DEF Execute, ShapeInv, Numbered, Underway
  <1>6. CASE AnswerLost
    BY <1>1, <1>6 DEF AnswerLost, ShapeInv, Numbered, Underway
  <1>7. CASE RequestFails \/ Arrive
    BY <1>1, <1>7 DEF RequestFails, Arrive, Reject, Resolve, ShapeInv, Numbered, Underway
  <1>8. CASE CallerEdits
    <2>1. edits' # 0
      BY <1>8, Edits
    <2> QED
      BY <1>1, <1>8, <2>1, Edits DEF ShapeInv, Numbered, Underway
  <1>9. CASE UNCHANGED vars
    BY <1>1, <1>9 DEF vars, ShapeInv, Numbered
  <1> QED
    BY <1>2, <1>3, <1>4, <1>5, <1>6, <1>7, <1>8, <1>9 DEF Next

(* Payloads for the items of a list, taken from g and numbered by n.        *)
LEMMA TakenFacts ==
    ASSUME NEW g, NEW n \in {1, 2}, NEW l \in Seq(Items), Len(l) <= MaxItems
    PROVE  LET c == Taken(l, g, n)
           IN  /\ c.items \in Seq(Items) /\ Len(c.items) = Len(l)
               /\ \A i \in 1..Len(l) :
                     /\ c.items[i].id = l[i].id /\ c.items[i].status = l[i].status
                     /\ c.items[i].ref = n * MaxItems + i
                     /\ c.items[i].ref \in Refs /\ c.items[i].ref > MaxItems
                     /\ c.heap[c.items[i].ref] = g[l[i].ref]
               /\ \A r \in 1..MaxItems : r \in Refs /\ c.heap[r] = g[r]
               /\ c.heap = [r \in Refs |-> c.heap[r]]
               /\ \A r \in Refs : c.heap[r] = g[r] \/ \E i \in 1..Len(l) : c.heap[r] = g[l[i].ref]
  <1> DEFINE c == Taken(l, g, n)
             h == c.heap
             k == Len(l)
  <1>1. k \in Nat /\ DOMAIN l = 1..k /\ MaxItems \in Nat /\ k <= MaxItems
    BY BoundsAssumption
  <1>2. c.items = [i \in 1..k |-> [l[i] EXCEPT !.ref = n * MaxItems + i]]
    BY <1>1 DEF Taken
  <1>3. h = [r \in Refs |-> IF r - n * MaxItems \in 1..k
                            THEN g[l[r - n * MaxItems].ref] ELSE g[r]]
    BY <1>1 DEF Taken
  <1>4. PICK m : m = n * MaxItems
    OBVIOUS
  <1>5. m \in Nat /\ m >= MaxItems /\ m + MaxItems <= 3 * MaxItems
    BY <1>1, <1>4
  <1> HIDE DEF c, h, k
  <1>6. ASSUME NEW i \in 1..k
        PROVE  /\ c.items[i] \in Items /\ c.items[i].id = l[i].id
               /\ c.items[i].status = l[i].status /\ c.items[i].ref = m + i
    <2>1. c.items[i] = [l[i] EXCEPT !.ref = m + i]
      BY <1>2, <1>4
    <2>2. l[i] \in Items /\ m + i \in Nat
      BY <1>1, <1>5
    <2> QED
      BY <2>1, <2>2 DEF Items
  <1>7. c.items \in Seq(Items) /\ Len(c.items) = k
    <2>1. c.items \in [1..k -> Items]
      BY <1>2, <1>6
    <2> QED
      BY <1>1, <2>1
  <1>8. ASSUME NEW i \in 1..k
        PROVE  m + i \in Refs /\ m + i > MaxItems /\ h[m + i] = g[l[i].ref]
    <2>1. m + i \in Refs /\ m + i > MaxItems /\ (m + i) - m = i
      BY <1>1, <1>5 DEF Refs
    <2> QED
      BY <1>3, <1>4, <2>1
  <1>9. ASSUME NEW r \in 1..MaxItems PROVE r \in Refs /\ h[r] = g[r]
    <2>1. r \in Refs /\ r - m \notin 1..k
      BY <1>1, <1>5 DEF Refs
    <2> QED
      BY <1>3, <1>4, <2>1
  <1>10. h = [r \in Refs |-> h[r]]
    BY <1>3
  <1>11. \A r \in Refs : h[r] = g[r] \/ \E i \in 1..k : h[r] = g[l[i].ref]
    BY <1>3, <1>4
  <1> QED
    BY <1>4, <1>6, <1>7, <1>8, <1>9, <1>10, <1>11 DEF c, h, k

LEMMA TakenIds ==
    ASSUME NEW g, NEW n \in {1, 2}, NEW l \in Seq(Items), Len(l) <= MaxItems
    PROVE  /\ Taken(l, g, n).items \in Seq(Items) /\ Len(Taken(l, g, n).items) = Len(l)
           /\ \A i \in 1..Len(l) : Taken(l, g, n).items[i].id = l[i].id
  <1> DEFINE c == Taken(l, g, n)
  <1>1. /\ c.items \in Seq(Items) /\ Len(c.items) = Len(l)
        /\ \A i \in 1..Len(l) :
              /\ c.items[i].id = l[i].id /\ c.items[i].status = l[i].status
              /\ c.items[i].ref = n * MaxItems + i
              /\ c.items[i].ref \in Refs /\ c.items[i].ref > MaxItems
              /\ c.heap[c.items[i].ref] = g[l[i].ref]
        /\ \A r \in 1..MaxItems : r \in Refs /\ c.heap[r] = g[r]
        /\ c.heap = [r \in Refs |-> c.heap[r]]
        /\ \A r \in Refs : c.heap[r] = g[r] \/ \E i \in 1..Len(l) : c.heap[r] = g[l[i].ref]
    BY TakenFacts, Zenon
  <1> HIDE DEF c
  <1>2. c.items \in Seq(Items) /\ Len(c.items) = Len(l) /\ \A i \in 1..Len(l) : c.items[i].id = l[i].id
    BY <1>1
  <1> QED
    BY <1>2 DEF c

LEMMA SendFacts ==
    ASSUME BulkInv, phase = "idle", op.name \in Sends, CallSend, phase' # "rejected"
    PROVE  /\ phase' = "called" /\ result' = result /\ Len(list) <= MaxBatch
           /\ \/ ~Copied /\ copy' = list /\ heap' = heap
              \/ \E n \in {1, 2} :
                    copy' = Taken(list, heap, n).items /\ heap' = Taken(list, heap, n).heap
           /\ MaxItems >= 1 /\ list # <<>>
  <1>1. list # <<>> /\ Len(list) <= MaxItems /\ MaxItems \in Nat /\ list \in Seq(Items)
    BY BoundsAssumption DEF BulkInv, ShapeInv, Numbered, CallSend, Reject
  <1>2. MaxItems >= 1
    BY <1>1
  <1>3. phase' = "called" /\ result' = result /\ Len(list) <= MaxBatch
    <2>1. Len(list) \in Nat /\ MaxBatch \in Nat
      BY <1>1, BoundsAssumption
    <2> QED
      BY <2>1 DEF CallSend, Reject
  <1>4. \/ ~Copied /\ copy' = list /\ heap' = heap
        \/ copy' = Taken(list, heap, 1).items /\ heap' = Taken(list, heap, 1).heap
        \/ copy' = Taken(list, heap, 2).items /\ heap' = Taken(list, heap, 2).heap
    BY DEF CallSend, CopyMessages, CopyMulticast, DeepCopy, Copied, Sends, Reject
  <1> QED
    BY <1>1, <1>2, <1>3, <1>4
LEMMA NextCopy == BulkInv /\ [Next]_vars => CopyInv'
  <1> SUFFICES ASSUME BulkInv, [Next]_vars PROVE CopyInv'
    OBVIOUS
  <1>1. ShapeInv /\ CopyInv /\ MaxBatch \in Nat /\ edits \in Nat
    BY BoundsAssumption DEF BulkInv, ShapeInv
  <1>2. CASE Call
    <2>1. /\ phase = "idle" /\ given' = list /\ op' = op /\ list' = list /\ edits' = edits
          /\ edits = 0 /\ list \in Seq(Items) /\ Len(list) \in Nat /\ DOMAIN list = 1..Len(list)
          /\ \A i \in 1..Len(list) : list[i].id = i
      BY <1>1, <1>2, Calls DEF ShapeInv, Numbered
    <2>2. CASE op.name = "importUsers" /\ CallImportUsers
      <3>1. phase' \notin Underway \/ (copy' = ValidatedUsers(list) /\ Len(list) <= MaxBatch)
        BY <1>1, <2>1, <2>2 DEF CallImportUsers, Reject, Resolve, Underway
      <3>2. ValidatedUsers(list) \in Seq(Items) /\ Len(ValidatedUsers(list)) <= Len(list)
        <4> DEFINE v == ValidatedUsers(list)
                   k == Cardinality(Uploaded(list))
                   map == IndexMap(list)
        <4>1. /\ Uploaded(list) \in SUBSET (1..Len(list)) /\ k \in 0..Len(list)
              /\ map \in [1..k -> Uploaded(list)] /\ DOMAIN map = 1..k /\ Len(v) = k
          BY <2>1, IndexMapFacts, Zenon
        <4>2. v = [i \in 1..k |-> list[map[i]]]
          BY <4>1 DEF ValidatedUsers
        <4> HIDE DEF v, k, map
        <4>3. v \in [1..k -> Items] /\ k \in Nat
          BY <2>1, <4>1, <4>2
        <4>4. v \in Seq(Items)
          BY <4>3
        <4> QED
          BY <2>1, <4>1, <4>4 DEF v
      <3> QED
        BY <1>1, <2>1, <2>2, <3>1, <3>2 DEF CopyInv, Requested, Legacy
    <2>3. CASE op.name \in {"deleteUsers", "getUsers"} /\ (DeleteAccounts \/ GetAccountInfoByIdentifiers)
      <3>1. phase' \notin Underway \/ (copy' = list /\ Len(list) <= MaxBatch)
        BY <1>1, <2>1, <2>3 DEF DeleteAccounts, GetAccountInfoByIdentifiers, PushAll, Reject,
                                Resolve, Underway
      <3> QED
        BY <1>1, <2>1, <2>3, <3>1 DEF CopyInv, Requested, Legacy
    <2>4. CASE op.name \in Sends /\ CallSend
      <3>1. CASE phase' = "rejected"
        BY <2>1, <2>4, <3>1 DEF CopyInv, Underway, Sends, Legacy
      <3>2. CASE phase' # "rejected"
        <4>1. /\ Len(list) <= MaxBatch
              /\ \/ copy' = list
                 \/ \E n \in {1, 2} : copy' = Taken(list, heap, n).items
          BY <2>1, <2>4, <3>2, SendFacts
        <4>3. Len(list) <= MaxItems
          BY <1>1, <2>1 DEF ShapeInv, Numbered
        <4>4. /\ copy' \in Seq(Items) /\ Len(copy') = Len(list)
              /\ \A i \in 1..Len(list) : copy'[i].id = list[i].id
          <5>1. ASSUME NEW n \in {1, 2}
                PROVE  /\ Taken(list, heap, n).items \in Seq(Items)
                       /\ Len(Taken(list, heap, n).items) = Len(list)
                       /\ \A i \in 1..Len(list) : Taken(list, heap, n).items[i].id = list[i].id
            <6>1. n \in {1, 2} /\ list \in Seq(Items) /\ Len(list) <= MaxItems
              BY <2>1, <4>3
            <6> QED
              BY <6>1, TakenIds
          <5> QED
            BY <2>1, <4>1, <5>1
        <4>5. op.name # "importUsers" /\ op.name \notin Legacy
          BY <2>4 DEF Sends, Legacy
        <4> QED
          BY <1>1, <2>1, <4>1, <4>4, <4>5 DEF CopyInv, Requested
      <3> QED
        BY <3>1, <3>2
    <2>5. CASE op.name \in Legacy /\ CallLegacy
      BY <2>1, <2>5 DEF CopyInv, CallLegacy, Reject
    <2> QED
      BY <1>2, <2>2, <2>3, <2>4, <2>5, Calls
  <1>3. CASE Prepare
    <2>1. phase = "called" /\ given' = given /\ op' = op /\ list' = list /\ edits' = edits
      BY <1>3, Prepares
    <2>2. CASE op.name \in Sends /\ PrepareSend
      <3>1. /\ phase' = "rejected" \/ \E h : copy' = Taken(copy, h, 2).items
            /\ phase' \in {"prepared", "rejected"} /\ op.name \notin Legacy
        BY <2>2 DEF PrepareSend, Reject, Sends, Legacy
      <3>2. CASE phase' = "rejected"
        BY <2>1, <3>1, <3>2 DEF CopyInv, Underway
      <3>3. CASE phase' # "rejected"
        <4>1. PICK h : copy' = Taken(copy, h, 2).items
          BY <3>1, <3>3
        <4>2. Requested(copy) /\ copy \in Seq(Items) /\ Len(copy) <= MaxItems
          BY <1>1, <2>1, <2>2, <3>1 DEF CopyInv, ShapeInv, Numbered, Requested, Underway, Sends
        <4>3. /\ Taken(copy, h, 2).items \in Seq(Items)
              /\ Len(Taken(copy, h, 2).items) = Len(copy)
              /\ \A i \in 1..Len(copy) : Taken(copy, h, 2).items[i].id = copy[i].id
          BY <4>2, TakenIds
        <4>4. op.name # "importUsers"
          BY <2>2 DEF Sends
        <4> QED
          BY <2>1, <2>2, <3>1, <4>1, <4>2, <4>3, <4>4 DEF CopyInv, Requested
      <3> QED
        BY <3>2, <3>3
    <2>3. CASE op.name \in Legacy /\ (PrepareDevices \/ PrepareTopic)
      <3>1. phase' = "rejected" \/ (phase' = "prepared" /\ Len(list) <= MaxBatch)
        BY <2>3 DEF PrepareDevices, PrepareTopic, Reject, ValidateRegistrationTokens
      <3>2. Len(list) \in Nat
        BY <1>1 DEF ShapeInv
      <3> QED
        BY <1>1, <2>1, <2>3, <3>1, <3>2 DEF CopyInv
    <2> QED
      BY <1>3, <2>2, <2>3, Prepares
  <1>4. CASE Serialise
    <2>1. phase = "prepared" /\ phase' = "sent" /\ given' = given /\ op' = op /\ edits' = edits
      BY <1>4 DEF Serialise
    <2>2. CASE op.name \in Legacy
      <3>1. list \in Seq(Items) /\ Len(list) \in Nat /\ DOMAIN list = 1..Len(list)
            /\ Len(list) <= MaxBatch + edits /\ MaxItems \in Nat
            /\ Numbered(given) /\ (edits = 0 => list = given)
        BY <1>1, <2>1, <2>2, BoundsAssumption DEF ShapeInv, CopyInv
      <3>2. PICK m : m = 2 * MaxItems + 1
        OBVIOUS
      <3>3. copy' = [i \in 1..Len(list) |-> [list[i] EXCEPT !.ref = m]] /\ m \in Nat
        BY <1>4, <2>2, <3>1, <3>2 DEF Serialise
      <3>4. ASSUME NEW i \in 1..Len(list) PROVE copy'[i] \in Items /\ copy'[i].id = list[i].id
        <4>1. copy'[i] = [list[i] EXCEPT !.ref = m] /\ list[i] \in Items
          BY <3>1, <3>3
        <4> QED
          BY <3>3, <4>1 DEF Items
      <3>5. copy' \in [1..Len(list) -> Items]
        BY <3>3, <3>4
      <3>6. copy' \in Seq(Items) /\ Len(copy') = Len(list)
        BY <3>1, <3>5
      <3> QED
        BY <1>1, <2>1, <2>2, <3>1, <3>4, <3>6 DEF CopyInv, Requested, Numbered, Legacy
    <2>3. CASE op.name \notin Legacy
      BY <1>1, <1>4, <2>1, <2>3 DEF Serialise, CopyInv, Requested, Underway
    <2> QED
      BY <2>2, <2>3
  <1>5. CASE Execute \/ AnswerLost
    BY <1>1, <1>5 DEF Execute, AnswerLost, CopyInv, Requested, Underway
  <1>6. CASE RequestFails \/ Arrive
    BY <1>6 DEF RequestFails, Arrive, Reject, Resolve, CopyInv, Underway
  <1>7. CASE CallerEdits
    <2>1. /\ phase' = phase /\ edits' = edits + 1 /\ op' = op /\ copy' = copy /\ given' = given
          /\ list' \in Seq(Items) /\ Len(list') <= Len(list) + 1
      BY <1>7, Edits
    <2>2. Len(list') \in Nat /\ Len(list) \in Nat
      BY <1>1, <2>1 DEF ShapeInv
    <2>3. ASSUME Requested(copy) PROVE Requested(copy)'
      <3>1. Len(copy) \in Nat
        BY <2>3 DEF Requested
      <3> QED
        BY <1>1, <2>1, <2>3, <3>1 DEF Requested
    <2>4. op.name \in Legacy /\ phase = "prepared" => Len(list') <= MaxBatch + edits'
      BY <1>1, <2>1, <2>2 DEF CopyInv
    <2> QED
      BY <1>1, <2>1, <2>3, <2>4 DEF CopyInv
  <1>8. CASE UNCHANGED vars
    BY <1>1, <1>8 DEF vars, CopyInv, Requested
  <1> QED
    BY <1>2, <1>3, <1>4, <1>5, <1>6, <1>7, <1>8 DEF Next

(* What has been sent is what was requested.                                *)
LEMMA SentFacts ==
    ASSUME BulkInv, phase \in {"sent", "answered"}
    PROVE  /\ Requested(copy) /\ copy \in Seq(Items) /\ Len(copy) \in Nat
           /\ DOMAIN copy = 1..Len(copy)
  <1>1. Requested(copy)
    BY DEF BulkInv, CopyInv, Underway
  <1> QED
    BY <1>1 DEF Requested

LEMMA NextAnswer == BulkInv /\ [Next]_vars => AnswerInv'
  <1> SUFFICES ASSUME BulkInv, [Next]_vars PROVE AnswerInv'
    OBVIOUS
  <1>1. AnswerInv
    BY DEF BulkInv
  <1>2. CASE Call
    <2>1. phase' # "answered"
      BY <1>2, Calls DEF CallImportUsers, DeleteAccounts, GetAccountInfoByIdentifiers, PushAll,
                         CallSend, CallLegacy, Reject, Resolve
    <2> QED
      BY <2>1 DEF AnswerInv
  <1>3. CASE Prepare
    <2>1. phase' # "answered"
      BY <1>3, Prepares DEF PrepareSend, PrepareDevices, PrepareTopic, Reject
    <2> QED
      BY <2>1 DEF AnswerInv
  <1>4. CASE Serialise \/ AnswerLost \/ RequestFails \/ Arrive
    BY <1>4 DEF Serialise, AnswerLost, RequestFails, Arrive, Reject, Resolve, AnswerInv
  <1>5. CASE Execute
    <2>1. Len(copy) \in Nat /\ DOMAIN copy = 1..Len(copy)
      BY <1>5, SentFacts DEF Execute
    <2>2. copy' = copy /\ phase' = "answered"
      BY <1>5 DEF Execute
    <2>3. PICK outcome \in [1..Len(copy) -> Outcomes] :
            /\ answer' = outcome
            /\ executed' = [i \in 1..Len(copy) |->
                              [id |-> copy[i].id, outcome |-> outcome[i],
                               payload |-> heap[copy[i].ref]]]
      BY <1>5, <2>1 DEF Execute
    <2>4. executed' = [i \in 1..Len(copy) |-> executed'[i]]
      BY <2>3
    <2>5. Len(executed') = Len(copy) /\ DOMAIN executed' = 1..Len(copy)
      BY <2>1, <2>4, FunctionLen
    <2>6. \A i \in 1..Len(copy) : executed'[i].id = copy[i].id /\ executed'[i].outcome = answer'[i]
      BY <2>3
    <2> QED
      BY <2>2, <2>3, <2>5, <2>6 DEF AnswerInv, Outcomes
  <1>6. CASE CallerEdits
    BY <1>1, <1>6, Edits DEF AnswerInv, Outcomes
  <1>7. CASE UNCHANGED vars
    BY <1>1, <1>7 DEF vars, AnswerInv, Outcomes
  <1> QED
    BY <1>2, <1>3, <1>4, <1>5, <1>6, <1>7 DEF Next
-----------------------------------------------------------------------------
(* The payloads.  First what a step leaves alone that touches none of them. *)
LEMMA PayloadKept ==
    ASSUME PayloadInv, op' = op, heap' = heap, executed' = executed, given' = given,
           phase # "idle", phase' \notin Underway \cup {"idle"},
           phase' = "rejected" => result' # "invalid"
    PROVE  PayloadInv'
  <1> SUFFICES ASSUME Copied PROVE Originals' /\ Copies' /\ SentAsGiven'
    BY DEF PayloadInv, Copied
  <1>1. Originals /\ SentAsGiven
    BY DEF PayloadInv
  <1>2. Originals'
    BY <1>1 DEF Originals
  <1>3. Copies'
    BY DEF Copies
  <1>4. SentAsGiven'
    BY <1>1 DEF SentAsGiven, GivenPayload, Copied
  <1> QED
    BY <1>2, <1>3, <1>4

LEMMA CopiedSends == Copied => op.name \in Sends
  BY DEF Copied, Sends

LEMMA CallPayload ==
    ASSUME BulkInv, Call, Copied PROVE PayloadInv'
  <1>1. /\ phase = "idle" /\ given' = list /\ op' = op /\ list' = list /\ executed' = executed
        /\ CallSend
    BY CopiedSends, Calls DEF Sends, Legacy
  <1>2. Originals /\ executed = <<>> /\ Numbered(list) /\ MaxItems \in Nat
    BY <1>1, BoundsAssumption DEF BulkInv, ShapeInv, PayloadInv
  <1>3. CASE phase' = "rejected"
    <2>1. heap' = heap /\ (list = <<>> \/ Len(list) > MaxBatch)
      BY <1>1, <1>3 DEF CallSend
    <2>2. Originals' /\ Copies'
      BY <1>2, <1>3, <2>1 DEF Originals, Copies, Underway
    <2>3. SentAsGiven'
      <3>1. DOMAIN executed' = {} /\ given' = list /\ MaxBatch' = MaxBatch
        BY <1>1, <1>2
      <3>2. \A r, s \in 1..MaxItems : heap'[r] = heap'[s]
        BY <2>2 DEF Originals
      <3> QED
        BY <2>1, <3>1, <3>2 DEF SentAsGiven
    <2> QED
      BY <2>2, <2>3 DEF PayloadInv
  <1>4. CASE phase' # "rejected"
    <2>1. /\ phase' = "called" /\ MaxItems >= 1
          /\ \E n \in {1, 2} :
                copy' = Taken(list, heap, n).items /\ heap' = Taken(list, heap, n).heap
      BY <1>1, <1>4, CopiedSends, SendFacts
    <2>2. PICK n \in {1, 2} :
             copy' = Taken(list, heap, n).items /\ heap' = Taken(list, heap, n).heap
      BY <2>1
    <2>3. list \in Seq(Items) /\ Len(list) <= MaxItems /\ Len(list) \in Nat
          /\ \A i \in 1..Len(list) : list[i].ref \in 1..MaxItems
      BY <1>2, CopiedSends DEF Numbered
    <2> DEFINE k == Len(list)
    <2>4. /\ copy' \in Seq(Items) /\ Len(copy') = k
          /\ \A i \in 1..k :
                /\ copy'[i].id = list[i].id /\ copy'[i].status = list[i].status
                /\ copy'[i].ref = n * MaxItems + i
                /\ copy'[i].ref \in Refs /\ copy'[i].ref > MaxItems
                /\ heap'[copy'[i].ref] = heap[list[i].ref]
          /\ \A r \in 1..MaxItems : r \in Refs /\ heap'[r] = heap[r]
          /\ heap' = [r \in Refs |-> heap'[r]]
          /\ \A r \in Refs : heap'[r] = heap[r] \/ \E i \in 1..k : heap'[r] = heap[list[i].ref]
      <3> DEFINE c == Taken(list, heap, n)
      <3>1. /\ c.items \in Seq(Items) /\ Len(c.items) = Len(list)
            /\ \A i \in 1..Len(list) :
                  /\ c.items[i].id = list[i].id /\ c.items[i].status = list[i].status
                  /\ c.items[i].ref = n * MaxItems + i
                  /\ c.items[i].ref \in Refs /\ c.items[i].ref > MaxItems
                  /\ c.heap[c.items[i].ref] = heap[list[i].ref]
            /\ \A r \in 1..MaxItems : r \in Refs /\ c.heap[r] = heap[r]
            /\ c.heap = [r \in Refs |-> c.heap[r]]
            /\ \A r \in Refs : \/ c.heap[r] = heap[r]
                               \/ \E i \in 1..Len(list) : c.heap[r] = heap[list[i].ref]
        BY <2>3, TakenFacts, Zenon
      <3>2. copy' = c.items /\ heap' = c.heap
        BY <2>2
      <3> HIDE DEF c
      <3> QED
        BY <3>1, <3>2
    <2> HIDE DEF k
    <2>5. \A r \in 1..MaxItems : heap[r] = [version |-> 1, parts |-> heap[1].parts]
      <3>1. 1 \in 1..MaxItems
        BY <1>2, <2>1
      <3>2. \A r \in 1..MaxItems : r \in Refs /\ heap[r] = heap[1] /\ heap[r].version = 1
        BY <1>1, <1>2, <2>4, <3>1 DEF Originals
      <3>3. \A r \in Refs : heap[r] = [version |-> heap[r].version, parts |-> heap[r].parts]
        BY <1>2 DEF Originals
      <3> QED
        BY <3>2, <3>3
    <2>6. Originals'
      <3>1. \A r \in Refs : heap'[r] = [version |-> heap'[r].version, parts |-> heap'[r].parts]
        <4>1. \A r \in Refs : heap[r] = [version |-> heap[r].version, parts |-> heap[r].parts]
          BY <1>2 DEF Originals
        <4>2. \A i \in 1..k : heap[list[i].ref] = [version |-> 1, parts |-> heap[1].parts]
          BY <2>3, <2>5 DEF k
        <4>3. ASSUME NEW r \in Refs
              PROVE  heap'[r] = [version |-> heap'[r].version, parts |-> heap'[r].parts]
          <5>1. CASE heap'[r] = heap[r]
            BY <4>1, <5>1
          <5>2. CASE heap'[r] # heap[r]
            <6>1. heap'[r] = [version |-> 1, parts |-> heap[1].parts]
              BY <2>4, <4>2, <5>2
            <6> QED
              BY <6>1
          <5> QED
            BY <5>1, <5>2
        <4> QED
          BY <4>3
      <3>2. heap' = [r \in Refs |-> [version |-> heap'[r].version, parts |-> heap'[r].parts]]
        BY <2>4, <3>1
      <3>3. \A r, s \in 1..MaxItems : heap'[r] = heap'[s]
        BY <2>4, <2>5
      <3> QED
        BY <2>1, <3>2, <3>3 DEF Originals
    <2>7. Copies'
      <3>1. 1 \in 1..MaxItems /\ heap'[1] = heap[1]
        BY <1>2, <2>1, <2>4
      <3>2. \A i \in 1..k : heap'[copy'[i].ref] = [version |-> 1, parts |-> heap'[1].parts]
        BY <2>3, <2>4, <2>5, <3>1 DEF k
      <3>3. \A i, j \in 1..k : copy'[i].ref = copy'[j].ref => i = j
        <4>1. PICK m : m = n * MaxItems
          OBVIOUS
        <4>2. m \in Nat /\ \A i \in 1..k : copy'[i].ref = m + i
          BY <1>2, <2>4, <4>1
        <4>3. k \in Nat
          BY <2>3 DEF k
        <4> QED
          BY <4>2, <4>3
      <3> QED
        BY <1>1, <2>1, <2>4, <3>2, <3>3 DEF Copies
    <2>8. SentAsGiven'
      <3>1. DOMAIN executed' = {} /\ phase' # "rejected"
        BY <1>1, <1>2, <2>1
      <3>2. \A r, s \in 1..MaxItems : heap'[r] = heap'[s]
        BY <2>6 DEF Originals
      <3> QED
        BY <3>1, <3>2 DEF SentAsGiven
    <2> QED
      BY <2>6, <2>7, <2>8 DEF PayloadInv
  <1> QED
    BY <1>3, <1>4

(* The copies are validated and converted, each once.                       *)
LEMMA PreparePayload ==
    ASSUME BulkInv, Prepare, Copied PROVE PayloadInv'
  <1>1. /\ phase = "called" /\ given' = given /\ op' = op /\ executed' = executed /\ PrepareSend
    BY CopiedSends, Prepares DEF Sends, Legacy
  <1>2. Originals /\ Copies /\ SentAsGiven /\ MaxItems \in Nat
    BY BoundsAssumption DEF BulkInv, PayloadInv
  <1>3. /\ copy \in Seq(Items) /\ Len(copy) = Len(given)
        /\ Numbered(given)
    BY <1>1, CopiedSends DEF BulkInv, CopyInv, ShapeInv, Requested, Underway, Sends, Legacy
  <1> DEFINE n == Len(copy)
             p == heap[1].parts
             C == Messages!ConvertMessage(p)
             v == ValidatedMessages(n)
             Valid(i) == Messages!ValidateMessage(copy[i].status = "ok", p)
  <1>4. /\ n \in Nat /\ MaxItems >= 1
        /\ \A i \in 1..n : /\ copy[i].ref \in Refs /\ copy[i].ref > MaxItems
                           /\ heap[copy[i].ref] = [version |-> 1, parts |-> p]
                           /\ copy[i].status = given[i].status
        /\ \A i, j \in 1..n : copy[i].ref = copy[j].ref => i = j
    BY <1>1, <1>2, <1>3 DEF Copies, Underway
  <1>5. heap = [r \in Refs |-> heap[r]]
    BY <1>2 DEF Originals
  <1>6. /\ v.ok <=> \A i \in 1..n : Valid(i)
        /\ v.heap = [r \in Refs |-> IF \E j \in 1..n : copy[j].ref = r /\ \A i \in 1..j : Valid(i)
                                    THEN [version |-> 1, parts |-> C] ELSE heap[r]]
    <2>1. \A i \in 1..n : /\ copy[i].ref \in Refs
                          /\ heap[copy[i].ref] = [version |-> 1, parts |-> p]
      BY <1>4
    <2>2. \A i, j \in 1..n : copy[i].ref = copy[j].ref => i = j
      BY <1>4
    <2>3. n \in Nat
      BY <1>4
    <2> HIDE DEF p, n
    <2> QED
      BY <1>5, <2>1, <2>2, <2>3, ValidatedFacts
  <1> DEFINE w == v.heap
             c == Taken(copy, w, 2)
  <1>7. \/ v.ok /\ phase' = "prepared" /\ copy' = c.items /\ heap' = c.heap
        \/ ~v.ok /\ phase' = "rejected" /\ heap' = w
    BY <1>1 DEF PrepareSend, Reject
  <1>8. /\ \A r \in 1..MaxItems : r \in Refs /\ w[r] = heap[r]
        /\ w = [r \in Refs |-> w[r]]
        /\ \A r \in Refs : w[r] = [version |-> w[r].version, parts |-> w[r].parts]
        /\ v.ok => \A i \in 1..n : w[copy[i].ref] = [version |-> 1, parts |-> C]
    <2> HIDE DEF n, C, v, Valid, w
    <2>1. w = [r \in Refs |-> IF \E j \in 1..n : copy[j].ref = r /\ \A i \in 1..j : Valid(i)
                              THEN [version |-> 1, parts |-> C] ELSE heap[r]]
      BY <1>6 DEF w
    <2>2. \A r \in 1..MaxItems : r \in Refs /\ ~ \E j \in 1..n : copy[j].ref = r
      <3>1. ASSUME NEW r \in 1..MaxItems, NEW j \in 1..n, copy[j].ref = r PROVE FALSE
        BY <1>2, <1>4, <3>1
      <3> QED
        BY <1>2, <3>1 DEF Refs
    <2>3. \A r \in Refs : w[r] = [version |-> w[r].version, parts |-> w[r].parts]
      <3>1. \A r \in Refs : heap[r] = [version |-> heap[r].version, parts |-> heap[r].parts]
        BY <1>2 DEF Originals
      <3>2. \A r \in Refs : w[r] = heap[r] \/ w[r] = [version |-> 1, parts |-> C]
        BY <2>1
      <3> QED
        BY <3>1, <3>2
    <2>4. ASSUME v.ok, NEW i \in 1..n PROVE w[copy[i].ref] = [version |-> 1, parts |-> C]
      <3>1. \A j \in 1..i : j \in 1..n
        BY <1>4
      <3>2. copy[i].ref \in Refs /\ \A j \in 1..i : Valid(j)
        BY <1>4, <1>6, <2>4, <3>1
      <3> QED
        BY <2>1, <3>2
    <2> QED
      BY <2>1, <2>2, <2>3, <2>4
  <1>9. ASSUME v.ok
        PROVE  /\ copy' \in Seq(Items) /\ Len(copy') = n
               /\ \A i \in 1..n :
                     /\ copy'[i].ref = 2 * MaxItems + i
                     /\ copy'[i].ref \in Refs /\ copy'[i].ref > MaxItems
                     /\ heap'[copy'[i].ref] = w[copy[i].ref]
               /\ \A r \in 1..MaxItems : heap'[r] = w[r]
               /\ heap' = [r \in Refs |-> heap'[r]]
               /\ \A r \in Refs : heap'[r] = w[r] \/ \E i \in 1..n : heap'[r] = w[copy[i].ref]
    <2>1. Len(copy) <= MaxItems
      BY <1>3 DEF Numbered
    <2> HIDE DEF w, v, Valid, C
    <2>2. /\ c.items \in Seq(Items) /\ Len(c.items) = Len(copy)
          /\ \A i \in 1..Len(copy) :
                /\ c.items[i].id = copy[i].id /\ c.items[i].status = copy[i].status
                /\ c.items[i].ref = 2 * MaxItems + i
                /\ c.items[i].ref \in Refs /\ c.items[i].ref > MaxItems
                /\ c.heap[c.items[i].ref] = w[copy[i].ref]
          /\ \A r \in 1..MaxItems : r \in Refs /\ c.heap[r] = w[r]
          /\ c.heap = [r \in Refs |-> c.heap[r]]
          /\ \A r \in Refs : \/ c.heap[r] = w[r]
                             \/ \E i \in 1..Len(copy) : c.heap[r] = w[copy[i].ref]
      BY <1>3, <2>1, TakenFacts, Zenon
    <2>3. copy' = c.items /\ heap' = c.heap
      BY <1>7, <1>9
    <2> HIDE DEF c
    <2> QED
      BY <2>2, <2>3
  <1> HIDE DEF n, C, v, Valid, w, c
  <1>10. heap'[1] = heap[1] /\ \A r \in 1..MaxItems : r \in Refs /\ heap'[r] = heap[r]
    <2>1. 1 \in 1..MaxItems
      BY <1>2, <1>4
    <2>2. \A r \in 1..MaxItems : heap'[r] = w[r]
      <3>1. CASE v.ok
        BY <1>9, <3>1
      <3>2. CASE ~v.ok
        BY <1>7, <3>2
      <3> QED
        BY <3>1, <3>2
    <2> QED
      BY <1>8, <2>1, <2>2
  <1>11. Originals'
    <2>1. \A r \in Refs : heap'[r] = [version |-> heap'[r].version, parts |-> heap'[r].parts]
      <3>1. CASE v.ok
        <4>1. ASSUME NEW r \in Refs
              PROVE  heap'[r] = [version |-> heap'[r].version, parts |-> heap'[r].parts]
          <5>1. PICK x \in Refs : heap'[r] = w[x]
            BY <1>4, <1>9, <3>1
          <5> QED
            BY <1>8, <5>1
        <4> QED
          BY <4>1
      <3>2. CASE ~v.ok
        BY <1>7, <1>8, <3>2
      <3> QED
        BY <3>1, <3>2
    <2>2. heap' = [r \in Refs |-> heap'[r]]
      BY <1>7, <1>8, <1>9
    <2>3. heap' = [r \in Refs |-> [version |-> heap'[r].version, parts |-> heap'[r].parts]]
      BY <2>1, <2>2
    <2>4. \A r, s \in 1..MaxItems : heap'[r] = heap'[s]
      BY <1>2, <1>10 DEF Originals
    <2>5. phase' # "idle"
      BY <1>7
    <2> QED
      BY <2>3, <2>4, <2>5 DEF Originals
  <1>12. Copies'
    <2>1. CASE v.ok
      <3>1. phase' = "prepared" /\ Len(copy') = n /\ MaxItems >= 1
        BY <1>4, <1>7, <1>9, <2>1
      <3>2. \A i \in 1..n : /\ copy'[i].ref \in Refs /\ copy'[i].ref > MaxItems
                            /\ heap'[copy'[i].ref] = [version |-> 1, parts |-> C]
        BY <1>8, <1>9, <2>1
      <3>3. \A i, j \in 1..n : copy'[i].ref = copy'[j].ref => i = j
        <4>1. n \in Nat /\ \A i \in 1..n : copy'[i].ref = 2 * MaxItems + i
          BY <1>4, <1>9, <2>1
        <4> QED
          BY <1>2, <4>1
      <3>4. C = Messages!ConvertMessage(heap'[1].parts)
        BY <1>10 DEF C
      <3> QED
        BY <3>1, <3>2, <3>3, <3>4 DEF Copies
    <2>2. CASE ~v.ok
      BY <1>7, <2>2 DEF Copies, Underway
    <2> QED
      BY <2>1, <2>2
  <1>13. SentAsGiven'
    <2>1. \A e \in DOMAIN executed' :
             /\ executed'[e].payload.version = 1
             /\ executed'[e].payload.parts = Messages!ConvertMessage(heap'[1].parts)
      BY <1>1, <1>2, <1>10 DEF SentAsGiven, GivenPayload
    <2>2. \A r, s \in 1..MaxItems : heap'[r] = heap'[s]
      BY <1>11 DEF Originals
    <2>3. ASSUME phase' = "rejected", \A i \in 1..Len(given) : given[i].status # "bad",
                 Messages!ValidateMessage(TRUE, heap[1].parts)
          PROVE  FALSE
      <3>1. PICK i \in 1..n : ~Valid(i)
        BY <1>6, <1>7, <2>3
      <3>2. copy[i].status = "ok"
        <4>1. given[i].status \in {"ok", "bad"}
          BY <1>1, <1>3, CopiedSends DEF Numbered, n
        <4> QED
          BY <1>3, <1>4, <2>3, <4>1 DEF n
      <3> QED
        BY <2>3, <3>1, <3>2 DEF Valid, Messages!ValidateMessage
    <2>4. DOMAIN given = 1..Len(given)
      BY <1>3 DEF Numbered
    <2> QED
      BY <1>1, <1>10, <2>1, <2>2, <2>3, <2>4 DEF SentAsGiven, GivenPayload, AllOk
  <1> QED
    BY <1>11, <1>12, <1>13 DEF PayloadInv
LEMMA ExecutePayload ==
    ASSUME BulkInv, Execute, Copied PROVE PayloadInv'
  <1>1. /\ phase = "sent" /\ phase' = "answered" /\ op' = op /\ heap' = heap /\ copy' = copy
        /\ given' = given /\ result' = result
    BY DEF Execute
  <1>2. Originals /\ Copies /\ SentAsGiven
    BY DEF BulkInv, PayloadInv
  <1>3. Len(copy) \in Nat /\ DOMAIN copy = 1..Len(copy)
    BY <1>1, SentFacts
  <1>4. Originals' /\ Copies'
    BY <1>1, <1>2 DEF Originals, Copies, Underway
  <1>5. SentAsGiven'
    <2>1. DOMAIN executed' = 1..Len(copy)
          /\ \A e \in 1..Len(copy) : executed'[e].payload = heap[copy[e].ref]
      BY <1>3 DEF Execute
    <2>2. \A e \in 1..Len(copy) :
             heap[copy[e].ref] =
                [version |-> 1, parts |-> Messages!ConvertMessage(heap[1].parts)]
      BY <1>1, <1>2 DEF Copies, Underway
    <2>3. \A r, s \in 1..MaxItems : heap[r] = heap[s]
      BY <1>2 DEF Originals
    <2>4. \A e \in DOMAIN executed' :
             /\ executed'[e].payload.version = 1
             /\ executed'[e].payload.parts = Messages!ConvertMessage(heap'[1].parts)
      BY <1>1, <2>1, <2>2
    <2> QED
      BY <1>1, <2>3, <2>4 DEF SentAsGiven, GivenPayload
  <1> QED
    BY <1>4, <1>5 DEF PayloadInv

LEMMA EditPayload ==
    ASSUME BulkInv, CallerEdits, Copied PROVE PayloadInv'
  <1>1. /\ phase \in Underway /\ phase' = phase /\ op' = op /\ copy' = copy
        /\ given' = given /\ executed' = executed
        /\ \/ heap' = heap
           \/ heap' = [r \in Refs |-> IF r <= MaxItems
                                      THEN [heap[r] EXCEPT !.version = 2] ELSE heap[r]]
    BY Edits
  <1>2. Originals /\ Copies /\ SentAsGiven /\ MaxItems \in Nat
    BY BoundsAssumption DEF BulkInv, PayloadInv
  <1>3. phase # "idle" /\ phase # "rejected"
    BY <1>1 DEF Underway
  <1>4. CASE heap' = heap
    <2>1. Originals' /\ Copies' /\ SentAsGiven'
      BY <1>1, <1>2, <1>3, <1>4 DEF Originals, Copies, SentAsGiven, GivenPayload, Underway
    <2> QED
      BY <2>1 DEF PayloadInv
  <1>5. CASE heap' = [r \in Refs |-> IF r <= MaxItems
                                     THEN [heap[r] EXCEPT !.version = 2] ELSE heap[r]]
    <2>1. \A r \in Refs : heap[r] = [version |-> heap[r].version, parts |-> heap[r].parts]
      BY <1>2 DEF Originals
    <2>2. ASSUME NEW r \in Refs
          PROVE  /\ heap'[r] = [version |-> heap'[r].version, parts |-> heap'[r].parts]
                 /\ r <= MaxItems => heap'[r] = [version |-> 2, parts |-> heap[r].parts]
                 /\ r > MaxItems => heap'[r] = heap[r]
      <3>1. CASE r <= MaxItems
        <4>1. heap'[r] = [heap[r] EXCEPT !.version = 2]
          BY <1>5, <3>1
        <4>2. heap'[r] = [version |-> 2, parts |-> heap[r].parts]
          BY <2>1, <4>1
        <4> QED
          BY <1>2, <3>1, <4>2 DEF Refs
      <3>2. CASE ~(r <= MaxItems)
        BY <1>5, <2>1, <3>2
      <3> QED
        BY <3>1, <3>2
    <2>3. \A r \in 1..MaxItems : r \in Refs /\ r <= MaxItems
      BY <1>2 DEF Refs
    <2>4. 1 \in 1..MaxItems /\ heap'[1].parts = heap[1].parts
      <3>1. 1 \in 1..MaxItems
        BY <1>1, <1>2 DEF Copies
      <3>2. heap'[1] = [version |-> 2, parts |-> heap[1].parts]
        BY <2>2, <2>3, <3>1
      <3> QED
        BY <3>1, <3>2
    <2>5. Originals'
      <3>1. heap' = [r \in Refs |-> heap'[r]]
        BY <1>5
      <3>2. heap' = [r \in Refs |-> [version |-> heap'[r].version, parts |-> heap'[r].parts]]
        BY <2>2, <3>1
      <3>3. \A r, s \in 1..MaxItems : heap'[r] = heap'[s]
        <4>1. \A r, s \in 1..MaxItems : heap[r] = heap[s]
          BY <1>2 DEF Originals
        <4>2. \A r \in 1..MaxItems : heap'[r] = [version |-> 2, parts |-> heap[r].parts]
          BY <2>2, <2>3
        <4> QED
          BY <4>1, <4>2
      <3> QED
        BY <1>1, <1>3, <3>2, <3>3 DEF Originals
    <2>6. Copies'
      <3>1. \A i \in 1..Len(copy) : heap'[copy[i].ref] = heap[copy[i].ref]
        BY <1>1, <1>2, <2>2 DEF Copies
      <3> QED
        BY <1>1, <1>2, <2>4, <3>1 DEF Copies
    <2>7. SentAsGiven'
      BY <1>1, <1>2, <1>3, <2>4, <2>5 DEF SentAsGiven, GivenPayload, Originals
    <2> QED
      BY <2>5, <2>6, <2>7 DEF PayloadInv
  <1> QED
    BY <1>1, <1>4, <1>5

LEMMA NextPayload == BulkInv /\ [Next]_vars => PayloadInv'
  <1> SUFFICES ASSUME BulkInv, [Next]_vars PROVE PayloadInv'
    OBVIOUS
  <1>1. op' = op
    BY DEF Next, vars, Call, Prepare, Serialise, Execute, AnswerLost, RequestFails, Arrive,
           CallerEdits
  <1>2. CASE ~Copied
    BY <1>1, <1>2 DEF PayloadInv, Copied
  <1>3. CASE Copied
    <2>1. Originals /\ Copies /\ SentAsGiven /\ PayloadInv
      BY <1>3 DEF BulkInv, PayloadInv
    <2>2. CASE Serialise \/ AnswerLost
      <3>1. /\ op' = op /\ heap' = heap /\ executed' = executed /\ given' = given /\ copy' = copy
            /\ phase \in {"prepared", "answered"} /\ phase' = "sent"
        BY <1>3, <2>2, CopiedSends DEF Serialise, AnswerLost, Sends, Legacy
      <3>2. Originals' /\ Copies' /\ SentAsGiven'
        BY <2>1, <3>1 DEF Originals, Copies, SentAsGiven, GivenPayload, Underway, Copied
      <3> QED
        BY <3>2 DEF PayloadInv
    <2>3. CASE RequestFails \/ Arrive
      <3>1. /\ op' = op /\ heap' = heap /\ executed' = executed /\ given' = given
            /\ phase # "idle" /\ phase' \notin Underway \cup {"idle"}
            /\ phase' = "rejected" => result' # "invalid"
        BY <2>3 DEF RequestFails, Arrive, Reject, Resolve, Underway
      <3> QED
        BY <2>1, <3>1, PayloadKept
    <2>4. CASE UNCHANGED vars
      <3>1. Originals' /\ Copies' /\ SentAsGiven'
        BY <2>1, <2>4 DEF vars, Originals, Copies, SentAsGiven, GivenPayload, Copied
      <3> QED
        BY <3>1 DEF PayloadInv
    <2> QED
      BY <1>3, <2>2, <2>3, <2>4, CallPayload, PreparePayload, ExecutePayload, EditPayload DEF Next
  <1> QED
    BY <1>2, <1>3
-----------------------------------------------------------------------------
(* The results.  A result that tells of every position what became of it.   *)
TellsAll(r, failed) ==
    /\ At(r.errors, failed)
    /\ Len(r.errors) = r.failureCount
    /\ r.successCount + r.failureCount = Len(given)

(* An import's result, when it has been sent ...                            *)
LEMMA ArriveImport ==
    ASSUME BulkInv, phase = "answered", op.name = "importUsers"
    PROVE  TellsAll(BuildResponse(given, FailedItems), FailedPositions)
  <1> DEFINE n == Len(given)
             U == Uploaded(given)
             k == Cardinality(U)
             map == IndexMap(given)
             v == ValidatedUsers(given)
  <1>1. n \in Nat /\ DOMAIN given = 1..n /\ \A i \in 1..n : given[i].id = i
    BY DEF BulkInv, ShapeInv, Numbered
  <1>2. copy = v /\ Len(copy) \in Nat
    BY SentFacts DEF Requested
  <1>3. /\ U \in SUBSET (1..n) /\ k \in 0..n
        /\ map \in [1..k -> U] /\ DOMAIN map = 1..k
        /\ \A i, j \in 1..k : map[i] = map[j] => i = j
        /\ \A x \in U : \E i \in 1..k : map[i] = x
        /\ Len(v) = k
        /\ \A i \in 1..k : v[i] = given[map[i]]
    <2> HIDE DEF n
    <2> QED
      BY <1>1, IndexMapFacts, Zenon
  <1>4. /\ answer \in [1..k -> Outcomes] /\ Len(executed) = k
        /\ \A i \in 1..k : executed[i].id = copy[i].id /\ executed[i].outcome = answer[i]
    BY <1>2, <1>3 DEF BulkInv, AnswerInv
  <1> HIDE DEF n, U, k, map, v
  <1>5. ASSUME NEW i \in 1..k PROVE map[i] \in 1..n /\ executed[i].id = map[i]
    <2>1. map[i] \in U
      BY <1>3
    <2>2. map[i] \in 1..n
      BY <1>3, <2>1
    <2>3. executed[i].id = given[map[i]].id
      BY <1>2, <1>3, <1>4
    <2> QED
      BY <1>1, <2>2, <2>3
  <1>6. k \in Nat /\ map \in [1..k -> 1..n]
    <2>1. k \in Nat
      BY <1>1, <1>3
    <2>2. map = [i \in 1..k |-> map[i]]
      BY <1>3
    <2> QED
      BY <1>5, <2>1, <2>2
  <1>7. FailedPositions = {i \in 1..n : \A e \in 1..k : map[e] = i => answer[e] # "ok"}
    <2>1. \A e \in 1..k : executed[e].id = map[e] /\ executed[e].outcome = answer[e]
      BY <1>4, <1>5
    <2>2. \A i, j \in 1..k : map[i] = map[j] => i = j
      BY <1>3
    <2>3. DOMAIN given = 1..n /\ (\A i \in 1..n : given[i].id = i) /\ Len(executed) = k
      BY <1>1, <1>4
    <2>4. Sent(n, k, map)
      BY <1>1, <1>6, <2>1, <2>2, <2>3 DEF Sent
    <2> QED
      BY <2>4, Fates
  <1>8. FailedItems = {e \in 1..k : answer[e] # "ok"}
    BY <1>4 DEF FailedItems
  <1>9. FailedPositions = ((1..n) \ U) \cup {map[m] : m \in FailedItems}
    <2>1. ASSUME NEW i \in (1..n) \ U PROVE \A e \in 1..k : map[e] # i
      BY <1>3
    <2>2. ASSUME NEW e \in 1..k PROVE map[e] \in FailedPositions <=> answer[e] # "ok"
      BY <1>3, <1>5, <1>7
    <2> QED
      BY <1>3, <1>5, <1>7, <1>8, <2>1, <2>2
  <1> DEFINE r == BuildResponse(given, FailedItems)
  <1>10. /\ At(r.errors, ((1..n) \ U) \cup {map[m] : m \in FailedItems})
         /\ Len(r.errors) = r.failureCount
         /\ r.successCount + r.failureCount = n
    <2>1. FailedItems \in SUBSET (DOMAIN IndexMap(given))
      BY <1>3, <1>8 DEF map
    <2> QED
      BY <1>1, <2>1, ImportFacts DEF U, map
  <1> HIDE DEF r
  <1> QED
    BY <1>9, <1>10 DEF TellsAll, n, r

(* ... and when there was nothing to send.                                  *)
LEMMA NothingImported ==
    ASSUME NEW l, DOMAIN l = 1..Len(l), Len(l) \in Nat, ValidatedUsers(l) = <<>>
    PROVE  LET r == BuildResponse(l, {})
           IN  /\ At(r.errors, DOMAIN l)
               /\ Len(r.errors) = r.failureCount
               /\ r.successCount + r.failureCount = Len(l)
  <1> DEFINE r == BuildResponse(l, {})
             n == Len(l)
             U == Uploaded(l)
             none == {IndexMap(l)[m] : m \in {}}
             k == Cardinality(U)
  <1>1. /\ k \in 0..n /\ U \in SUBSET (1..n) /\ Len(ValidatedUsers(l)) = k
        /\ \A x \in U : \E i \in 1..k : IndexMap(l)[i] = x
    <2> HIDE DEF n
    <2> QED
      BY IndexMapFacts, Zenon DEF n
  <1> HIDE DEF U, k
  <1>2. k = 0 /\ 1..k = {}
    BY <1>1
  <1>3. U = {}
    BY <1>1, <1>2
  <1>4. /\ At(r.errors, ((1..n) \ U) \cup none)
        /\ Len(r.errors) = r.failureCount
        /\ r.successCount + r.failureCount = n
    <2>1. {} \in SUBSET (DOMAIN IndexMap(l))
      OBVIOUS
    <2> HIDE DEF n
    <2> QED
      BY <2>1, ImportFacts DEF U, n
  <1>5. ((1..n) \ U) \cup none = DOMAIN l
    BY <1>3
  <1> HIDE DEF r, none
  <1> QED
    BY <1>4, <1>5 DEF r

(* A list that was sent as it is, and is still what the caller has.         *)
LEMMA ArriveAsGiven ==
    ASSUME BulkInv, phase = "answered", op.name # "importUsers",
           op.name \in Legacy => edits = 0
    PROVE  /\ FailedPositions = FailedItems
           /\ Len(given) \in Nat /\ DOMAIN given = 1..Len(given)
           /\ DOMAIN answer = 1..Len(given) /\ Len(answer) = Len(given)
           /\ DOMAIN copy = 1..Len(given) /\ \A i \in 1..Len(given) : copy[i].id = i
           /\ \A i \in 1..Len(given) : given[i].id = i
           /\ FailedItems \in SUBSET (1..Len(given))
           /\ At(Failures, FailedItems)
           /\ Len(Failures) = Cardinality(FailedItems)
           /\ Cardinality(FailedItems) \in Nat
           /\ Cardinality(DOMAIN answer \ FailedItems) \in Nat
           /\ Cardinality(DOMAIN answer \ FailedItems) + Cardinality(FailedItems) = Len(given)
  <1> DEFINE n == Len(given)
             m == [i \in 1..n |-> i]
  <1>1. n \in Nat /\ DOMAIN given = 1..n /\ \A i \in 1..n : given[i].id = i
    BY DEF BulkInv, ShapeInv, Numbered
  <1>2. Len(copy) = n /\ DOMAIN copy = 1..n /\ \A i \in 1..n : copy[i].id = i
    BY SentFacts DEF Requested
  <1>3. /\ answer \in [1..n -> Outcomes] /\ Len(executed) = n
        /\ \A i \in 1..n : executed[i].id = i /\ executed[i].outcome = answer[i]
    BY <1>2 DEF BulkInv, AnswerInv
  <1>4. DOMAIN answer = 1..n /\ Len(answer) = n
    <2>1. answer = [i \in 1..n |-> answer[i]]
      BY <1>3
    <2> HIDE DEF n
    <2> QED
      BY <1>1, <2>1, FunctionLen
  <1>5. FailedPositions = FailedItems
    <2>1. /\ m \in [1..n -> 1..n] /\ \A i \in 1..n : m[i] = i
      OBVIOUS
    <2>2. \A i, j \in 1..n : m[i] = m[j] => i = j
      OBVIOUS
    <2> HIDE DEF m, n
    <2>3. \A e \in 1..n : executed[e].id = m[e] /\ executed[e].outcome = answer[e]
      BY <1>3, <2>1
    <2>4. FailedPositions = {i \in 1..n : \A e \in 1..n : m[e] = i => answer[e] # "ok"}
      <3>1. DOMAIN given = 1..n /\ (\A i \in 1..n : given[i].id = i) /\ Len(executed) = n
        BY <1>1, <1>3
      <3>2. Sent(n, n, m)
        BY <1>1, <2>1, <2>2, <2>3, <3>1 DEF Sent
      <3> QED
        BY <3>2, Fates
    <2>5. FailedItems = {i \in 1..n : answer[i] # "ok"}
      BY <1>4 DEF FailedItems
    <2> QED
      BY <2>1, <2>4, <2>5
  <1>6. /\ At(Failures, FailedItems)
        /\ Cardinality(FailedItems) \in Nat
        /\ Cardinality(DOMAIN answer \ FailedItems) + Cardinality(FailedItems) = n
        /\ Cardinality(DOMAIN answer \ FailedItems) \in Nat
    BY <1>1, <1>4, FailuresAt
  <1>7. FailedItems \in SUBSET (1..n)
    BY <1>4 DEF FailedItems
  <1>8. Len(Failures) = Cardinality(FailedItems)
    BY <1>6 DEF At
  <1> QED
    BY <1>1, <1>2, <1>4, <1>5, <1>6, <1>7, <1>8

(* getUsers(): who is found, and who is not, in the order of the list.      *)
LEMMA ArriveUsers ==
    ASSUME BulkInv, phase = "answered", op.name = "getUsers", list = given
    PROVE  /\ GetUsersResult.users = {given[i].id : i \in DOMAIN given \ FailedPositions}
           /\ Range(GetUsersResult.notFound) = {given[i] : i \in FailedPositions}
  <1> DEFINE n == Len(given)
             F == FailedItems
             found == {copy[i].id : i \in {j \in DOMAIN copy : answer[j] = "ok"}}
             missing == {i \in DOMAIN list : list[i].id \notin found}
             s == InOrder(F)
             k == Cardinality(F)
  <1>1. /\ FailedPositions = F /\ n \in Nat /\ DOMAIN given = 1..n
        /\ DOMAIN answer = 1..n /\ DOMAIN copy = 1..n
        /\ \A i \in 1..n : copy[i].id = i /\ given[i].id = i
        /\ F \in SUBSET (1..n)
    BY ArriveAsGiven DEF Legacy
  <1>2. F = {i \in 1..n : answer[i] # "ok"}
    BY <1>1 DEF FailedItems
  <1> HIDE DEF F, n
  <1>3. found = (1..n) \ F
    BY <1>1, <1>2
  <1>4. missing = F
    <2> HIDE DEF found
    <2> QED
      BY <1>1, <1>3
  <1>5. GetUsersResult = [users |-> found, notFound |-> [i \in DOMAIN s |-> given[s[i]]]]
    <2>1. GetUsersResult = [users |-> found,
                            notFound |-> [i \in DOMAIN InOrder(missing) |->
                                            list[InOrder(missing)[i]]]]
      BY DEF GetUsersResult
    <2> HIDE DEF missing, found
    <2> QED
      BY <1>4, <2>1
  <1>6. s \in [1..k -> F] /\ DOMAIN s = 1..k /\ \A x \in F : \E i \in 1..k : s[i] = x
    BY <1>1, InOrderFacts, Zenon
  <1>7. found = {given[i].id : i \in (1..n) \ F}
    <2> HIDE DEF found
    <2> QED
      BY <1>1, <1>3
  <1> HIDE DEF s, k, found
  <1>8. Range(GetUsersResult.notFound) = {given[i] : i \in F}
    <2>1. GetUsersResult.notFound = [i \in 1..k |-> given[s[i]]]
      BY <1>5, <1>6
    <2>2. Range(GetUsersResult.notFound) = {given[s[i]] : i \in 1..k}
      BY <2>1 DEF Range
    <2> QED
      BY <1>6, <2>2
  <1>9. GetUsersResult.users = found
    BY <1>5
  <1> QED
    BY <1>1, <1>7, <1>8, <1>9
(* What the result of the next state has to say.                            *)
LEMMA AllTold ==
    ASSUME op' = op, op.name # "getUsers",
           At(result'.errors, FailedPositions'),
           Len(result'.errors) = result'.failureCount,
           result'.successCount + result'.failureCount = Len(given')
    PROVE  ResultsByPosition'
  BY DEF ResultsByPosition, At

LEMMA CallResults == BulkInv /\ Call => ResultsByPosition' /\ ErrorsInv'
  <1> SUFFICES ASSUME BulkInv, Call PROVE ResultsByPosition' /\ ErrorsInv'
    OBVIOUS
  <1>1. /\ phase = "idle" /\ given' = list /\ op' = op /\ executed' = <<>>
        /\ list \in Seq(Items) /\ Len(list) \in Nat /\ DOMAIN list = 1..Len(list)
    BY Calls DEF BulkInv, ShapeInv
  <1>2. FailedPositions' = DOMAIN list
    BY <1>1, NothingSent
  <1>3. CASE op.name = "importUsers" /\ CallImportUsers
    <2>1. ErrorsInv'
      BY <1>1, <1>3 DEF ErrorsInv, Sends, Legacy
    <2>2. CASE phase' = "resolved"
      <3>1. ValidatedUsers(list) = <<>> /\ result' = BuildResponse(list, {})
        BY <1>3, <2>2 DEF CallImportUsers, Reject, Resolve
      <3>2. LET r == BuildResponse(list, {})
            IN  /\ At(r.errors, DOMAIN list)
                /\ Len(r.errors) = r.failureCount
                /\ r.successCount + r.failureCount = Len(list)
        BY <1>1, <3>1, NothingImported
      <3> QED
        BY <1>1, <1>2, <1>3, <2>1, <3>1, <3>2, AllTold
    <2> QED
      BY <2>1, <2>2 DEF ResultsByPosition
  <1>4. CASE op.name = "deleteUsers" /\ DeleteAccounts
    <2>1. ErrorsInv'
      BY <1>1, <1>4 DEF ErrorsInv, Sends, Legacy
    <2>2. CASE phase' = "resolved"
      <3>1. list = <<>> /\ result' = NoFailures(0)
        BY <1>4, <2>2 DEF DeleteAccounts, PushAll, Reject, Resolve
      <3>2. FailedPositions' = {} /\ Len(given') = 0
        BY <1>1, <1>2, <3>1
      <3>3. At(<<>>, {}) /\ Len(<<>>) = 0
        <4>1. Cardinality({}) = 0
          BY FS_EmptySet
        <4> QED
          BY <4>1 DEF At
      <3>4. result'.errors = <<>> /\ result'.failureCount = 0 /\ result'.successCount = 0
        BY <3>1 DEF NoFailures
      <3> QED
        BY <1>1, <1>4, <2>1, <3>2, <3>3, <3>4, AllTold
    <2> QED
      BY <2>1, <2>2 DEF ResultsByPosition
  <1>5. CASE op.name = "getUsers" /\ GetAccountInfoByIdentifiers
    <2>1. ErrorsInv'
      BY <1>1, <1>5 DEF ErrorsInv, Sends, Legacy
    <2>2. CASE phase' = "resolved"
      <3>1. list = <<>> /\ result' = [users |-> {}, notFound |-> <<>>]
        BY <1>5, <2>2 DEF GetAccountInfoByIdentifiers, PushAll, Reject, Resolve
      <3>2. FailedPositions' = {} /\ DOMAIN given' = {}
        BY <1>1, <1>2, <3>1
      <3>3. result'.users = {} /\ Range(result'.notFound) = {}
        BY <3>1 DEF Range
      <3>4. {given'[i].id : i \in DOMAIN given' \ FailedPositions'} = {}
            /\ {given'[i] : i \in FailedPositions'} = {}
        BY <3>2
      <3> QED
        BY <1>1, <1>5, <2>1, <3>3, <3>4 DEF ResultsByPosition
    <2> QED
      BY <2>1, <2>2 DEF ResultsByPosition
  <1>6. CASE (op.name \in Sends /\ CallSend) \/ (op.name \in Legacy /\ CallLegacy)
    BY <1>6 DEF CallSend, CallLegacy, Reject, ResultsByPosition, ErrorsInv
  <1> QED
    BY <1>3, <1>4, <1>5, <1>6, Calls

LEMMA ArriveResults == BulkInv /\ Arrive => ResultsByPosition' /\ ErrorsInv'
  <1> SUFFICES ASSUME BulkInv, Arrive PROVE ResultsByPosition' /\ ErrorsInv'
    OBVIOUS
  <1>1. /\ phase = "answered" /\ phase' = "resolved" /\ op' = op /\ given' = given
        /\ executed' = executed /\ edits' = edits
    BY DEF Arrive, Resolve
  <1>2. FailedPositions' = FailedPositions
    BY <1>1, FatesKept
  <1>3. op.name \in Ops /\ (edits = 0 => list = given)
    BY <1>1 DEF BulkInv, ShapeInv
  <1>4. CASE op.name = "importUsers"
    <2>1. result' = BuildResponse(given, FailedItems)
      BY <1>4 DEF Arrive, Resolve, Sends
    <2>2. TellsAll(BuildResponse(given, FailedItems), FailedPositions)
      BY <1>1, <1>4, ArriveImport
    <2>3. ErrorsInv'
      BY <1>1, <1>4 DEF ErrorsInv, Sends, Legacy
    <2> QED
      BY <1>1, <1>2, <1>4, <2>1, <2>2, <2>3, AllTold DEF TellsAll
  <1>5. CASE op.name = "getUsers"
    <2>1. result' = GetUsersResult
      BY <1>5 DEF Arrive, Resolve, Sends
    <2>2. ErrorsInv'
      BY <1>1, <1>5 DEF ErrorsInv, Sends, Legacy
    <2>3. CASE edits = 0
      <3>1. /\ GetUsersResult.users = {given[i].id : i \in DOMAIN given \ FailedPositions}
            /\ Range(GetUsersResult.notFound) = {given[i] : i \in FailedPositions}
        BY <1>1, <1>3, <1>5, <2>3, ArriveUsers
      <3> QED
        BY <1>1, <1>2, <1>5, <2>1, <2>2, <3>1 DEF ResultsByPosition
    <2>4. CASE edits # 0
      BY <1>1, <1>5, <2>2, <2>4 DEF ResultsByPosition, Copying, Sends
    <2> QED
      BY <2>3, <2>4
  <1>6. CASE op.name \notin {"importUsers", "getUsers"}
    <2>1. result'.errors = Failures
      BY <1>3, <1>6 DEF Arrive, Resolve, Ops, Sends, Legacy, DeleteUsersResult, SendBatchResult,
                        MapRawResponseToDevicesResponse, MapRawResponseToTopicManagementResponse
    <2>2. ErrorsInv'
      <3> SUFFICES ASSUME op.name \in Sends \cup Legacy, NEW i \in DOMAIN Failures
                   PROVE  Failures[i].error \in Errors!MessagingClientErrorCode
        BY <1>1, <2>1 DEF ErrorsInv, Errors!MessagingClientErrorCode
      <3>1. PICK code : Failures[i].error = ItemError(code)
        BY DEF Failures
      <3>2. ItemError(code) \in {Errors!MessagingError(code), Errors!TopicManagementError(code)}
        BY DEF ItemError, Sends, Legacy
      <3> QED
        BY <3>1, <3>2, MessagingCodes
    <2>3. CASE op.name \in Copying \/ edits = 0
      <3>1. op.name \in Legacy => edits = 0
        BY <2>3 DEF Copying, Sends, Legacy
      <3>2. /\ FailedPositions = FailedItems /\ Len(given) \in Nat /\ Len(answer) = Len(given)
            /\ At(Failures, FailedItems) /\ Len(Failures) = Cardinality(FailedItems)
            /\ Cardinality(FailedItems) \in Nat
            /\ Cardinality(DOMAIN answer \ FailedItems) \in Nat
            /\ Cardinality(DOMAIN answer \ FailedItems) + Cardinality(FailedItems) = Len(given)
        BY <1>1, <1>6, <3>1, ArriveAsGiven
      <3>3. /\ result'.failureCount = Cardinality(FailedItems)
            /\ result'.successCount = Len(given) - Cardinality(FailedItems)
        <4>1. CASE op.name = "deleteUsers"
          <5>1. result' = DeleteUsersResult /\ list = given
            BY <1>3, <2>3, <4>1 DEF Arrive, Resolve, Copying, Sends
          <5> QED
            BY <3>2, <5>1 DEF DeleteUsersResult
        <4>2. CASE op.name \in Sends
          <5>1. result' = SendBatchResult
            BY <4>2 DEF Arrive, Resolve, Sends
          <5> QED
            BY <3>2, <5>1 DEF SendBatchResult
        <4>3. CASE op.name = "sendToDevice"
          <5>1. result' = MapRawResponseToDevicesResponse
            BY <4>3 DEF Arrive, Resolve, Sends
          <5>2. /\ result'.successCount = Cardinality(DOMAIN answer \ FailedItems)
                /\ result'.failureCount = Len(answer) - Cardinality(DOMAIN answer \ FailedItems)
            BY <5>1 DEF MapRawResponseToDevicesResponse
          <5> QED
            BY <3>2, <5>2
        <4>4. CASE op.name = "manageTopic"
          <5>1. result' = MapRawResponseToTopicManagementResponse
            BY <4>4 DEF Arrive, Resolve, Sends
          <5>2. /\ result'.successCount = Cardinality(DOMAIN answer \ FailedItems)
                /\ result'.failureCount = Cardinality(FailedItems)
            BY <5>1 DEF MapRawResponseToTopicManagementResponse
          <5> QED
            BY <3>2, <5>2
        <4> QED
          BY <1>3, <1>6, <4>1, <4>2, <4>3, <4>4 DEF Ops, Legacy
      <3>4. /\ Len(result'.errors) = result'.failureCount
            /\ result'.successCount + result'.failureCount = Len(given)
        BY <2>1, <3>2, <3>3
      <3> QED
        BY <1>1, <1>2, <1>6, <2>1, <2>2, <3>2, <3>4, AllTold
    <2>4. CASE ~(op.name \in Copying \/ edits = 0)
      BY <1>1, <2>2, <2>4 DEF ResultsByPosition, Copying, Sends
    <2> QED
      BY <2>3, <2>4
  <1> QED
    BY <1>4, <1>5, <1>6

LEMMA NextResults == BulkInv /\ [Next]_vars => ResultsByPosition' /\ ErrorsInv'
  <1> SUFFICES ASSUME BulkInv, [Next]_vars PROVE ResultsByPosition' /\ ErrorsInv'
    OBVIOUS
  <1>1. CASE Prepare
    <2>1. phase' # "resolved"
      BY <1>1, Prepares DEF PrepareSend, PrepareDevices, PrepareTopic, Reject
    <2> QED
      BY <2>1 DEF ResultsByPosition, ErrorsInv
  <1>2. CASE Serialise \/ Execute \/ AnswerLost \/ RequestFails
    BY <1>2 DEF Serialise, Execute, AnswerLost, RequestFails, Reject, ResultsByPosition, ErrorsInv
  <1>3. CASE CallerEdits
    <2>1. phase' # "resolved"
      BY <1>3, Edits DEF Underway
    <2> QED
      BY <2>1 DEF ResultsByPosition, ErrorsInv
  <1>4. CASE UNCHANGED vars
    <2>1. /\ op' = op /\ phase' = phase /\ result' = result /\ edits' = edits /\ given' = given
          /\ executed' = executed
      BY <1>4 DEF vars
    <2>2. FailedPositions' = FailedPositions
      BY <2>1, FatesKept
    <2> QED
      BY <2>1, <2>2 DEF BulkInv, ResultsByPosition, ErrorsInv, Copying, Sends, Legacy
  <1> QED
    BY <1>1, <1>2, <1>3, <1>4, CallResults, ArriveResults DEF Next

-----------------------------------------------------------------------------
LEMMA BulkInvariant == Spec => []BulkInv
  <1>1. BulkInv /\ [Next]_vars => BulkInv'
    BY NextShape, NextCopy, NextAnswer, NextPayload, NextResults DEF BulkInv
  <1> QED
    BY InitInv, <1>1, PTL DEF Spec

(* Every result says, of every position of the list that was given, what    *)
(* became of the item that was there, and its counts add up to the list:    *)
(* importUsers(), deleteUsers(), getUsers() and the operations of messaging,*)
(* for lists of any length, batches of any size and any number of changes   *)
(* by the caller.                                                           *)
THEOREM ResultsByPositionCorrect == Spec => []ResultsByPosition
  <1>1. BulkInv => ResultsByPosition
    BY DEF BulkInv
  <1> QED
    BY BulkInvariant, <1>1, PTL

(* Where deepCopy() copies the messages, sendAll() and sendMulticast() send *)
(* what they were given at the call,                                        *)
(* each part converted once, whatever the caller does meanwhile and however *)
(* many messages share a payload; they leave the payloads of the caller as  *)
(* they were, and refuse no list whose messages are all valid.              *)
THEOREM SentAsGivenCorrect == Spec => []SentAsGiven
  <1>1. BulkInv => SentAsGiven
    BY DEF BulkInv, PayloadInv, SentAsGiven
  <1> QED
    BY BulkInvariant, <1>1, PTL

(* The request and the answer have the shape that the operation gives them, *)
(* and an item that fails does so with an error that the SDK documents.     *)
THEOREM BulkTypeCorrect == Spec => []BulkTypeOK
  <1>1. BulkInv => BulkTypeOK
    <2> SUFFICES ASSUME BulkInv PROVE BulkTypeOK
      OBVIOUS
    <2>1. /\ phase \in {"idle", "called", "prepared", "sent", "answered", "resolved", "rejected"}
          /\ attempts \in 0..MaxAttempts /\ edits \in 0..MaxEdits
      BY DEF BulkInv, ShapeInv, Underway
    <2>2. phase \in {"sent", "answered"} => Len(copy) <= MaxBatch + edits
      BY SentFacts DEF Requested
    <2>3. phase = "answered" => DOMAIN answer = DOMAIN copy
      BY SentFacts DEF BulkInv, AnswerInv
    <2> QED
      BY <2>1, <2>2, <2>3 DEF BulkInv, ErrorsInv, BulkTypeOK
  <1> QED
    BY BulkInvariant, <1>1, PTL
=============================================================================
