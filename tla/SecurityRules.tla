----------------------------- MODULE SecurityRules ----------------------------
(***************************************************************************)
(* Security rules of src/security-rules: a ruleset is created, and then a  *)
(* release is made to refer to it; what a release refers to is read in two *)
(* requests.  Several clients do so at once, and any request may fail.     *)
(***************************************************************************)
EXTENDS Integers, Sequences, RestCalls

CONSTANTS
    Sources,
    MaxRulesets   \* bound: rulesets that are created

VARIABLES
    rulesets,   \* the server's: the rulesets in the order of their creation
    release,    \* the server's: the ruleset that each release refers to, 0 for none
    ruCall      \* the latest call of each client

ruVars == <<rulesets, release, ruCall>>

Releases == {"cloud.firestore", "firebase.storage"}

\* A call also keeps its arguments; ruleset is the one it is about.  For the
\* properties it remembers what its release has referred to since the call, and
\* whether it has changed anything.
RuNoCall == [op |-> "none", phase |-> "idle", request |-> "none", attempts |-> 0,
             answer |-> None, result |-> None, calls |-> 0, project |-> FALSE,
             release |-> "cloud.firestore", source |-> None, bucketOK |-> TRUE,
             ruleset |-> 0, during |-> {}, changed |-> FALSE]

RuInit ==
    /\ rulesets = <<>>
    /\ release = [r \in Releases |-> 0]
    /\ ruCall = [c \in Clients |-> RuNoCall]

Exists(n) == n \in 1..Len(rulesets) /\ rulesets[n].exists

NewRuCall(c, op) ==
    [RuNoCall EXCEPT !.op = op, !.calls = ruCall[c].calls + 1, !.project = ruCall[c].project]

SetCall(c, call) == ruCall' = [ruCall EXCEPT ![c] = call] /\ UNCHANGED <<rulesets, release>>

-----------------------------------------------------------------------------
\* getBucketName(): of the argument or of the app, for the storage release only.
BucketNamed(r, bucketOK) == r = "cloud.firestore" \/ bucketOK

\* createRulesFileFromSource() and createRuleset(): a non-empty text; None stands for
\* anything else, an empty Buffer among it.
SourceOK(source) == source # None

\* Mutant: the bucket is looked at when it is needed.
ReleaseFromSource_Late(c, r, source, bucketOK) ==
    LET call == [NewRuCall(c, "releaseFromSource") EXCEPT
                  !.release = r, !.source = source, !.bucketOK = bucketOK,
                  !.during = {release[r]}]
    IN  /\ Ready(c, ruCall[c])
        /\ SetCall(c, IF SourceOK(source) THEN Ask(call, "create") ELSE Refuse(call))

\* releaseFirestoreRulesetFromSource(), releaseStorageRulesetFromSource().
ReleaseFromSource(c, r, source, bucketOK) ==
    LET call == [NewRuCall(c, "releaseFromSource") EXCEPT
                  !.release = r, !.source = source, !.bucketOK = bucketOK,
                  !.during = {release[r]}]
    IN  /\ Ready(c, ruCall[c])
        /\ SetCall(c, IF BucketNamed(r, bucketOK) /\ SourceOK(source)
                      THEN Ask(call, "create") ELSE Refuse(call))

\* releaseFirestoreRuleset(), releaseStorageRuleset(); 0 stands for what is not the
\* name of a ruleset.  What is no text is refused at once, the rest below.
ReleaseRuleset(c, r, n, bucketOK) ==
    LET call == [NewRuCall(c, "release") EXCEPT
                  !.release = r, !.ruleset = n, !.during = {release[r]}]
    IN  /\ Ready(c, ruCall[c])
        /\ \E isText \in {TRUE, n # 0} :
             SetCall(c, IF BucketNamed(r, bucketOK) /\ isText
                        THEN Ask(call, "release") ELSE Refuse(call))

\* getFirestoreRuleset(), getStorageRuleset().
GetRulesetForRelease(c, r, bucketOK) ==
    LET call == [NewRuCall(c, "getForRelease") EXCEPT !.release = r, !.during = {release[r]}]
    IN  /\ Ready(c, ruCall[c])
        /\ SetCall(c, IF BucketNamed(r, bucketOK) THEN Ask(call, "getRelease") ELSE Refuse(call))

\* getRuleset(), which looks at the name at once, and deleteRuleset().
ByName(c, op, n) ==
    LET call == [NewRuCall(c, op) EXCEPT !.ruleset = n]
    IN  /\ Ready(c, ruCall[c])
        /\ SetCall(c, IF n # 0 \/ op = "delete" THEN Ask(call, op) ELSE Refuse(call))

CreateRuleset(c, source) ==
    LET call == [NewRuCall(c, "create") EXCEPT !.source = source]
    IN  /\ Ready(c, ruCall[c])
        /\ SetCall(c, IF SourceOK(source) THEN Ask(call, "create") ELSE Refuse(call))

ListRulesetMetadata(c, pageSize, tokenOK) ==
    LET call == NewRuCall(c, "list")
    IN  /\ Ready(c, ruCall[c])
        /\ SetCall(c, IF pageSize \in 1..100 /\ tokenOK THEN Ask(call, "list") ELSE Refuse(call))

\* getRulesetName(): a ruleset that is to be released or deleted is named after the id
\* of the project was found.
Misnamed(call) == call.request \in {"release", "delete"} /\ call.ruleset = 0

RuDelivery(c) ==
    \E call \in Deliveries(ruCall[c], "invalid-argument") :
        SetCall(c, IF call.phase = "sent" /\ Misnamed(call) THEN Refuse(call) ELSE call)

-----------------------------------------------------------------------------
\* The server, which looks at one request at a time.
RuSent(c, request) == ruCall[c].phase = "sent" /\ ruCall[c].request = request

Changed(call) == [call EXCEPT !.changed = TRUE]

ServerRefusesRules(c) ==
    /\ ruCall[c].phase = "sent"
    /\ \E s \in {"UNAUTHENTICATED", "UNHEARD_OF"} : SetCall(c, Answered(ruCall[c], [error |-> s]))

ServerCreates(c) ==
    /\ RuSent(c, "create") /\ Len(rulesets) < MaxRulesets
    /\ rulesets' = Append(rulesets, [source |-> ruCall[c].source, exists |-> TRUE])
    /\ ruCall' = [ruCall EXCEPT ![c] = Changed(Answered(@, [ruleset |-> Len(rulesets) + 1]))]
    /\ UNCHANGED release

\* Calls that are under way see what their release refers to now.
ServerReleases(c) ==
    LET r == ruCall[c].release
        n == ruCall[c].ruleset
    IN  /\ RuSent(c, "release")
        /\ IF Exists(n)
           THEN /\ release' = [release EXCEPT ![r] = n]
                /\ ruCall' = [d \in Clients |->
                      IF d = c THEN Changed(Answered([ruCall[c] EXCEPT !.during = @ \cup {n}],
                                                     [ruleset |-> n]))
                      ELSE IF ruCall[d].release = r /\ ~Idle(ruCall[d])
                      THEN [ruCall[d] EXCEPT !.during = @ \cup {n}]
                      ELSE ruCall[d]]
                /\ UNCHANGED rulesets
           ELSE SetCall(c, Answered(ruCall[c], [error |-> "NOT_FOUND"]))

\* A ruleset that a release refers to is not deleted.
ServerDeletes(c) ==
    LET n == ruCall[c].ruleset
    IN  /\ RuSent(c, "delete")
        /\ IF Exists(n) /\ \A r \in Releases : release[r] # n
           THEN /\ rulesets' = [rulesets EXCEPT ![n].exists = FALSE]
                /\ ruCall' = [ruCall EXCEPT ![c] = Changed(Answered(@, [ruleset |-> n]))]
                /\ UNCHANGED release
           ELSE SetCall(c, Answered(ruCall[c], [error |-> IF Exists(n) THEN "FAILED_PRECONDITION"
                                                          ELSE "NOT_FOUND"]))

\* What the server shows: a release, a ruleset, or all of them.
ServerShows(c) ==
    LET call == ruCall[c]
        found(n) == IF Exists(n) THEN [ruleset |-> n] ELSE [error |-> "NOT_FOUND"]
    IN  \/ RuSent(c, "getRelease") /\ SetCall(c, Answered(call, found(release[call.release])))
        \/ RuSent(c, "get") /\ SetCall(c, Answered(call, found(call.ruleset)))
        \/ RuSent(c, "list")
             /\ SetCall(c, Answered(call, [rulesets |-> {n \in 1..Len(rulesets) : Exists(n)}]))

-----------------------------------------------------------------------------
\* The answer arrives, and either ends the call or starts its second request: the
\* release of the ruleset that was created, or the ruleset of the release.  The
\* constructors of Ruleset and RulesetMetadataListImpl refuse what is malformed, also
\* after a ruleset was created; a release without a ruleset is one that was not found;
\* and nobody looks at the answer of a release or of a deletion.
NextOfRules(call, form) ==
    LET a == call.answer
    IN  IF Failed(a) THEN Settle(call, Failure(SecurityRulesCode(a.error), "server"))
        ELSE IF form = "unparsable" THEN Unparsable(call)
        ELSE IF form = "malformed" /\ call.request \in {"create", "get", "list"}
        THEN RefuseAnswer(call)
        ELSE IF form = "malformed" /\ call.request = "getRelease"
        THEN Settle(call, Failure("not-found", "answer"))
        ELSE IF call.op = "releaseFromSource" /\ call.request = "create"
        THEN IF BucketNamed(call.release, call.bucketOK)
             THEN Ask([call EXCEPT !.ruleset = a.ruleset], "release")
             ELSE Refuse(call)
        ELSE IF call.request = "getRelease"
        THEN Ask([call EXCEPT !.ruleset = a.ruleset], "get")
        ELSE Settle(call, a)

RuArrives(c) ==
    /\ ruCall[c].phase = "answered"
    /\ \E form \in Forms : SetCall(c, NextOfRules(ruCall[c], form))

RuNext ==
    \/ \E c \in Clients :
         \/ \E source \in Sources : ReleaseFromSource(c, "cloud.firestore", source, TRUE)
         \/ \E n \in 1..MaxRulesets : ByName(c, "delete", n)
         \/ RuDelivery(c) \/ RuArrives(c)
         \/ ServerRefusesRules(c) \/ ServerCreates(c) \/ ServerReleases(c)
         \/ ServerDeletes(c) \/ ServerShows(c)
    \/ \E c \in Thorough :
         \/ \E r \in Releases, ok \in BOOLEAN :
              \/ \E source \in Sources \cup {None} : ReleaseFromSource(c, r, source, ok)
              \/ \E n \in 0..MaxRulesets : ReleaseRuleset(c, r, n, ok)
              \/ GetRulesetForRelease(c, r, ok)
         \/ \E n \in 0..MaxRulesets : ByName(c, "get", n)
         \/ ByName(c, "delete", 0)
         \/ \E source \in Sources \cup {None} : CreateRuleset(c, source)
         \/ \E pageSize \in {0, 1, 100, 101}, ok \in BOOLEAN : ListRulesetMetadata(c, pageSize, ok)
=============================================================================
