------------------------------ MODULE BulkCalls -------------------------------
(***************************************************************************)
(* Operations on a list: importUsers(), deleteUsers(), getUsers() of auth, *)
(* sendAll(), sendMulticast(), sendToDevice() and the topic operations of  *)
(* messaging.  The server treats every item on its own, and the result     *)
(* says by position what became of each.                                   *)
(*                                                                         *)
(* A call runs in steps: what it does before it returns its promise; what  *)
(* a first then() does; the request made into text once there is a token;  *)
(* the server; the answer.  Between any two the caller may change the list *)
(* and the objects it has passed.                                          *)
(***************************************************************************)
EXTENDS Integers, Sequences, FiniteSets, Functions, UserImport

CONSTANTS
    HashOptions,    \* the options an import is tried with
    Payloads,       \* the payloads that messages are tried with
    Codes,          \* the codes a server refuses an item with
    MaxItems,       \* bound: the length of a list
    MaxBatch,       \* bound: the length that an operation takes (500, 1000)
    MaxEdits,       \* bound: how often the caller changes what it has passed
    MaxAttempts     \* bound: how often the HTTP client sends a request

ASSUME BoundsAssumption ==
    /\ MaxItems \in Nat /\ MaxBatch \in Nat
    /\ MaxEdits \in Nat /\ MaxAttempts \in Nat \ {0}

Messages == INSTANCE MessageRequests
Errors == INSTANCE ServerErrors

VARIABLES
    op,        \* the operation, with its options
    list,      \* the caller's list
    heap,      \* the payloads of the caller and of the call, by reference
    copy,      \* the items that the call has kept
    phase,     \* where the call is
    answer,    \* what the server has answered: an outcome for each item sent
    result,
    attempts, edits,
    given,     \* history: the list as it was at the call
    executed   \* history: the items that the server has seen last, with the payloads
               \* they had, and what it made of them

vars == <<op, list, heap, copy, phase, answer, result, attempts, edits, given, executed>>

Sends == {"sendAll", "sendMulticast"}
WithPayloads == Sends \cup {"sendToDevice"}
Legacy == {"sendToDevice", "manageTopic"}
Ops == Sends \cup Legacy \cup {"importUsers", "deleteUsers", "getUsers"}

\* The operations that keep a copy of what they were given; the others look at the
\* caller's list again.
Copying == Sends \cup {"importUsers"}

\* An item: an identity, whether the validators take it, whether it has a password
\* hash, and the reference of its payload.
Item(i, status, hash, ref) == [id |-> i, status |-> status, hash |-> hash, ref |-> ref]

Statuses(o) == IF o = "importUsers" THEN {"ok", "bad", "foreign"} ELSE {"ok", "bad"}

Refs == 1..(3 * MaxItems)
NoPayload == [p \in {} |-> "none"]

\* What the caller has made its messages of: plain objects; an instance of a class
\* for each message; instances for the parts of a message (android, apns, ...).
Made == {"plain", "message", "parts"}

Options(o) ==
    CASE o = "importUsers" -> [name : {o}, hash : HashOptions, tenantAware : BOOLEAN]
      [] o = "manageTopic" -> [name : {o}, topic : {"ok", "empty", "illFormed"}]
      [] o \in WithPayloads -> [name : {o}, made : Made]
      [] OTHER -> [name : {o}]

\* The payloads of a list: one that all items share, or one each.
Init ==
    /\ op \in UNION {Options(o) : o \in Ops}
    /\ \E n \in 0..MaxItems :
         \E status \in [1..n -> Statuses(op.name)] :
           \E hash \in [1..n -> IF op.name = "importUsers" THEN BOOLEAN ELSE {FALSE}] :
             \E shared \in IF op.name \in Sends THEN {op.name = "sendMulticast", TRUE} ELSE {TRUE} :
               list = [i \in 1..n |-> Item(i, status[i], hash[i], IF shared THEN 1 ELSE i)]
    /\ \E p \in IF op.name \in WithPayloads THEN Payloads ELSE {NoPayload} :
         heap = [r \in Refs |-> IF r <= MaxItems
                                THEN [version |-> 1, parts |-> p]
                                ELSE [version |-> 0, parts |-> NoPayload]]
    /\ copy = <<>> /\ phase = "idle" /\ answer = <<>> /\ result = <<>>
    /\ attempts = 0 /\ edits = 0 /\ given = <<>> /\ executed = <<>>

-----------------------------------------------------------------------------
\* Every item gets a payload of its own, as h has it, also when they shared one: the
\* n-th of a call, for n = 1 or 2.
Taken(items, h, n) ==
    [items |-> [i \in DOMAIN items |-> [items[i] EXCEPT !.ref = n * MaxItems + i]],
     heap |-> [r \in Refs |->
                 IF r - n * MaxItems \in DOMAIN items
                 THEN h[items[r - n * MaxItems].ref] ELSE h[r]]]

\* deepCopy(): plain objects are copied, instances of a class stay the caller's.
DeepCopy(items, n, plain) ==
    IF plain THEN Taken(items, heap, n) ELSE [items |-> items, heap |-> heap]

\* Mutant: the items keep the payloads they had.
CopyMessages_Shallow(items) == [items |-> items, heap |-> heap]

\* sendAll(): the list of messages is copied.
CopyMessages(items) == DeepCopy(items, 1, op.made = "plain")

\* sendMulticast(): the message is copied, every token gets a plain object with the
\* parts of that one message, and sendAll() copies these objects.
CopyMulticast(items) == DeepCopy(items, 2, op.made # "parts")

\* The calls whose messages are copied.
Copied ==
    \/ op.name = "sendAll" /\ op.made = "plain"
    \/ op.name = "sendMulticast" /\ op.made # "parts"

Reject(e) == phase' = "rejected" /\ result' = e
Resolve(r) == phase' = "resolved" /\ result' = r

NoFailures(n) == [successCount |-> n, failureCount |-> 0, errors |-> <<>>]

AllOk(items) == \A i \in DOMAIN items : items[i].status # "bad"

\* importUsers(): the users are built and copied, and only then counted; a tenant's
\* users must be the tenant's.  With nothing to upload no request is made.
CallImportUsers ==
    IF \/ op.tenantAware /\ \E i \in DOMAIN list : list[i].status = "foreign"
       \/ ~Buildable(list, op.hash)
       \/ Len(list) > MaxBatch
    THEN Reject("invalid") /\ UNCHANGED <<copy, heap>>
    ELSE IF ValidatedUsers(list) = <<>>
         THEN Resolve(BuildResponse(list, {})) /\ UNCHANGED <<copy, heap>>
         ELSE /\ copy' = ValidatedUsers(list)
              /\ phase' = "prepared" /\ UNCHANGED <<result, heap>>

\* The items are checked and pushed to a request one by one; no items, no request.
PushAll(nothing) ==
    IF list = <<>>
    THEN Resolve(nothing) /\ UNCHANGED <<copy, heap>>
    ELSE IF Len(list) > MaxBatch \/ ~AllOk(list)
         THEN Reject("invalid") /\ UNCHANGED <<copy, heap>>
         ELSE copy' = list /\ phase' = "prepared" /\ UNCHANGED <<result, heap>>

\* deleteUsers(): the uids.
DeleteAccounts == PushAll(NoFailures(0))

\* getUsers(): the identifiers, each under the property of its kind.
GetAccountInfoByIdentifiers == PushAll([users |-> {}, notFound |-> <<>>])

\* sendAll(), sendMulticast(): only the number of messages is looked at.
CallSend ==
    IF list = <<>> \/ Len(list) > MaxBatch
    THEN Reject("invalid") /\ UNCHANGED <<copy, heap>>
    ELSE LET c == IF op.name = "sendAll" THEN CopyMessages(list) ELSE CopyMulticast(list)
         IN  copy' = c.items /\ heap' = c.heap /\ phase' = "called" /\ UNCHANGED result

\* validateRegistrationTokensType() and validateTopicType().
TypesOk == list # <<>> /\ (op.name = "manageTopic" => op.topic # "empty")

\* validateRegistrationTokens().
ValidateRegistrationTokens == Len(list) <= MaxBatch /\ AllOk(list)

\* validateTopic(), of the topic with the prefix that normalizeTopic() gives it.
ValidateTopic == op.topic = "ok"

\* sendToDevice(), subscribeToTopic(), unsubscribeFromTopic(): only types are looked
\* at before the promise is returned.
CallLegacy ==
    IF ~TypesOk
    THEN Reject("invalid") /\ UNCHANGED <<copy, heap>>
    ELSE phase' = "called" /\ UNCHANGED <<copy, heap, result>>

Call ==
    /\ phase = "idle"
    /\ CASE op.name = "importUsers" -> CallImportUsers
         [] op.name = "deleteUsers" -> DeleteAccounts
         [] op.name = "getUsers" -> GetAccountInfoByIdentifiers
         [] op.name \in Sends -> CallSend
         [] op.name \in Legacy -> CallLegacy
    /\ given' = list
    /\ UNCHANGED <<op, list, answer, attempts, edits, executed>>

\* The messages of a batch are validated in turn, each changing its payload, up to
\* the first that is refused: what is left of them, and whether all were valid.  What
\* a message that is refused has changed of itself before is left out.
ValidatedMessages(n) ==
    LET f[i \in 0..n] ==
          IF i = 0 THEN [ok |-> TRUE, heap |-> heap]
          ELSE LET r == copy[i].ref
                   p == f[i - 1].heap[r].parts
                   valid == /\ f[i - 1].ok
                            /\ Messages!ValidateMessage(copy[i].status = "ok", p)
               IN  [ok |-> valid,
                    heap |-> IF valid
                             THEN [f[i - 1].heap EXCEPT ![r].parts =
                                     Messages!ConvertMessage(p)]
                             ELSE f[i - 1].heap]
    IN  f[n]

\* getMultipartPayload(): when all are valid the text of the batch is made at once.
PrepareSend ==
    LET v == ValidatedMessages(Len(copy))
        text == Taken(copy, v.heap, 2)
    IN  IF v.ok
        THEN copy' = text.items /\ heap' = text.heap /\ phase' = "prepared" /\ UNCHANGED result
        ELSE heap' = v.heap /\ Reject("invalid") /\ UNCHANGED copy

\* What sendToDevice() converts and makes its request of: a copy of the payload, or
\* what the caller holds too.
DevicePayload == IF op.made = "plain" THEN MaxItems + 1 ELSE 1

\* sendToDevice(): the tokens and the payload are validated and the payload is copied
\* and converted, as they are now; the request refers to the caller's list of tokens.
PrepareDevices ==
    LET p == heap[1].parts
        valid == /\ ValidateRegistrationTokens
                 /\ Messages!ValidateMessagingPayload(p)
                 /\ Messages!ValidateMessagingOptions(p)
        kept == [r \in Refs |-> IF r = DevicePayload
                                THEN [heap[1] EXCEPT !.parts = Messages!ConvertMessage(p)]
                                ELSE heap[r]]
    IN  IF valid THEN heap' = kept /\ phase' = "prepared" /\ UNCHANGED <<copy, result>>
        ELSE Reject("invalid") /\ UNCHANGED <<copy, heap>>

\* subscribeToTopic(), unsubscribeFromTopic(): so does this request.
PrepareTopic ==
    /\ IF ValidateRegistrationTokens /\ ValidateTopic
       THEN phase' = "prepared" /\ UNCHANGED result ELSE Reject("invalid")
    /\ UNCHANGED <<copy, heap>>

Prepare ==
    /\ phase = "called"
    /\ CASE op.name \in Sends -> PrepareSend
         [] op.name = "sendToDevice" -> PrepareDevices
         [] op.name = "manageTopic" -> PrepareTopic
    /\ UNCHANGED <<op, list, answer, attempts, edits, given, executed>>

\* There is a token, and the request is made into text, with the caller's list and
\* what is the caller's of the payload as they are now.  A batch is text already.
Serialise ==
    /\ phase = "prepared"
    /\ copy' = IF op.name \in Legacy
               THEN [i \in DOMAIN list |-> [list[i] EXCEPT !.ref = 2 * MaxItems + 1]]
               ELSE copy
    /\ heap' = IF op.name = "sendToDevice"
               THEN [heap EXCEPT ![2 * MaxItems + 1] = heap[DevicePayload]]
               ELSE heap
    /\ phase' = "sent" /\ attempts' = 1
    /\ UNCHANGED <<op, list, answer, result, edits, given, executed>>

Outcomes == {"ok"} \cup Codes

\* An attempt reaches the server, which treats every item.
Execute ==
    /\ phase = "sent"
    /\ \E outcome \in [DOMAIN copy -> Outcomes] :
         /\ answer' = outcome
         /\ executed' = [i \in DOMAIN copy |->
                            [id |-> copy[i].id, outcome |-> outcome[i],
                             payload |-> heap[copy[i].ref]]]
    /\ phase' = "answered"
    /\ UNCHANGED <<op, list, heap, copy, result, attempts, edits, given>>

\* The answer is lost and the HTTP client sends the request again.
AnswerLost ==
    /\ phase = "answered" /\ attempts < MaxAttempts
    /\ phase' = "sent" /\ attempts' = attempts + 1
    /\ UNCHANGED <<op, list, heap, copy, answer, result, edits, given, executed>>

RequestFails ==
    /\ phase \in {"sent", "answered"}
    /\ Reject("network")
    /\ UNCHANGED <<op, list, heap, copy, answer, attempts, edits, given, executed>>

-----------------------------------------------------------------------------
DeleteError(code) == IF code = "NOT_DISABLED" THEN "USER_NOT_DISABLED" ELSE "INTERNAL_ERROR"

\* What the client makes of the code of an item.
ItemError(code) ==
    CASE op.name \in {"importUsers", "getUsers"} -> code
      [] op.name = "deleteUsers" -> DeleteError(code)
      [] op.name = "manageTopic" -> Errors!TopicManagementError(code)
      [] OTHER -> Errors!MessagingError(code)

\* The positions of what has failed, in order, each with its error.
FailedItems == {i \in DOMAIN answer : answer[i] # "ok"}

Failures ==
    LET at == InOrder(FailedItems)
    IN  [n \in DOMAIN at |-> [index |-> at[n], error |-> ItemError(answer[at[n]])]]

\* deleteUsers(): the uids that succeeded are counted by the caller's list.
DeleteUsersResult ==
    [successCount |-> Len(list) - Len(Failures), failureCount |-> Len(Failures),
     errors |-> Failures]

\* getUsers(): who is not found is looked up in the caller's list; an item that the
\* server refuses is a user that it does not have.
GetUsersResult ==
    LET found == {copy[i].id : i \in {j \in DOMAIN copy : answer[j] = "ok"}}
        missing == InOrder({i \in DOMAIN list : list[i].id \notin found})
    IN  [users |-> found, notFound |-> [n \in DOMAIN missing |-> list[missing[n]]]]

\* sendBatchRequest(): every part of the answer is an answer to a message.
SendBatchResult ==
    [successCount |-> Len(answer) - Len(Failures), failureCount |-> Len(Failures),
     errors |-> Failures]

\* The counts are the server's; its errors are replaced where they stand.
MapRawResponseToDevicesResponse ==
    LET done == Cardinality(DOMAIN answer \ FailedItems)
    IN  [successCount |-> done, failureCount |-> Len(answer) - done, errors |-> Failures]

\* Both kinds are counted, and an error is pushed with its index.
MapRawResponseToTopicManagementResponse ==
    [successCount |-> Cardinality(DOMAIN answer \ FailedItems),
     failureCount |-> Cardinality(FailedItems), errors |-> Failures]

\* The answer arrives.
Arrive ==
    /\ phase = "answered"
    /\ Resolve(CASE op.name = "importUsers" ->
                      BuildResponse(given, FailedItems)
                 [] op.name = "deleteUsers" -> DeleteUsersResult
                 [] op.name = "getUsers" -> GetUsersResult
                 [] op.name \in Sends -> SendBatchResult
                 [] op.name = "sendToDevice" -> MapRawResponseToDevicesResponse
                 [] op.name = "manageTopic" -> MapRawResponseToTopicManagementResponse)
    /\ UNCHANGED <<op, list, heap, copy, answer, attempts, edits, given, executed>>

\* The caller drops or adds an item, or changes a payload, while the call runs.
CallerEdits ==
    /\ phase \in {"called", "prepared", "sent", "answered"} /\ edits < MaxEdits
    /\ edits' = edits + 1
    /\ \/ /\ list # <<>> /\ list' = Tail(list) /\ UNCHANGED heap
       \/ /\ list' = Append(list, Item(MaxItems + 1, "ok", FALSE, 1)) /\ UNCHANGED heap
       \/ /\ heap' = [r \in Refs |-> IF r <= MaxItems
                                     THEN [heap[r] EXCEPT !.version = 2] ELSE heap[r]]
          /\ UNCHANGED list
    /\ UNCHANGED <<op, copy, phase, answer, result, attempts, given, executed>>

Next ==
    \/ Call \/ Prepare \/ Serialise \/ Execute \/ AnswerLost \/ RequestFails \/ Arrive
    \/ CallerEdits

Spec == Init /\ [][Next]_vars

-----------------------------------------------------------------------------
Settled == phase \in {"resolved", "rejected"}

\* What the server made of the item that was at position i of the list at the call.
FateOf(i) ==
    LET seen == {e \in 1..Len(executed) : executed[e].id = given[i].id}
    IN  IF seen = {} THEN "refused" ELSE executed[CHOOSE e \in seen : TRUE].outcome

FailedPositions == {i \in DOMAIN given : FateOf(i) # "ok"}

\* The result of a list says of every position of the list what became of the item
\* that was there at the call, and its counts add up to the length of the list:
\* for importUsers(), sendAll() and sendMulticast() however the caller changes its
\* list meanwhile, for the others as long as it does not.
ResultsByPosition ==
    phase = "resolved" /\ (op.name \in Copying \/ edits = 0) =>
        IF op.name = "getUsers"
        THEN /\ result.users = {given[i].id : i \in DOMAIN given \ FailedPositions}
             /\ Range(result.notFound) = {given[i] : i \in FailedPositions}
        ELSE /\ {result.errors[n].index : n \in DOMAIN result.errors} = FailedPositions
             /\ Len(result.errors) = result.failureCount
             /\ result.successCount + result.failureCount = Len(given)
             /\ \A n \in 1..Len(result.errors) - 1 :
                    result.errors[n].index < result.errors[n + 1].index

\* The payload that a message had at the call.
GivenPayload(e) == heap[1].parts

\* sendAll(), sendMulticast() and sendToDevice() convert copies: the objects that the
\* caller has given, which were alike, stay alike.  They do not where deepCopy() keeps
\* instances of a class.
PayloadsUntouched ==
    op.name \in WithPayloads => \A r, s \in 1..MaxItems : heap[r] = heap[s]

\* Where sendAll() and sendMulticast() copy the messages, what they send is what they
\* were given at the call, converted once; the caller's objects stay as they were; and
\* messages that are all valid are not refused, also when they share objects.
SentAsGiven ==
    Copied =>
        /\ \A e \in DOMAIN executed :
              /\ executed[e].payload.version = 1
              /\ executed[e].payload.parts = Messages!ConvertMessage(GivenPayload(e))
        /\ \A r, s \in 1..MaxItems : heap[r] = heap[s]
        /\ phase = "rejected" /\ result = "invalid" =>
              \/ given = <<>> \/ Len(given) > MaxBatch \/ ~AllOk(given)
              \/ ~Messages!ValidateMessage(TRUE, GivenPayload(1))

\* The list, the copy and the answer have the shape the operation gives them, and
\* every error of a result is one that the SDK documents.
BulkTypeOK ==
    /\ phase \in {"idle", "called", "prepared", "sent", "answered", "resolved", "rejected"}
    /\ attempts \in 0..MaxAttempts /\ edits \in 0..MaxEdits
    /\ phase = "answered" => DOMAIN answer = DOMAIN copy
    /\ phase \in {"sent", "answered"} => Len(copy) <= MaxBatch + edits
    /\ phase = "resolved" /\ op.name \in Sends \cup Legacy =>
          \A n \in DOMAIN result.errors :
              result.errors[n].error \in Errors!MessagingClientErrorCode
=============================================================================
