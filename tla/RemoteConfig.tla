----------------------------- MODULE RemoteConfig -----------------------------
(***************************************************************************)
(* Remote config of src/remote-config: several clients read, validate,     *)
(* publish and roll back the one template of a project.  A publish carries *)
(* the ETag of the template it is based on, and the server refuses it when *)
(* another has been published since.                                       *)
(***************************************************************************)
EXTENDS Integers, Sequences, RestCalls

CONSTANTS
    Contents,
    FineTimes,    \* the templates whose updateTime has another precision than milliseconds
    MaxVersions   \* bound: templates that are published

ASSUME VersionsAssumption == MaxVersions \in Nat

VARIABLES
    templates,  \* the server's: all templates, the newest last
    held,       \* the template object that each client has
    rcCall      \* the latest call of each client, with the template it was given

rcVars == <<templates, held, rcCall>>

Newest == Len(templates)

\* The ETag of the n-th template; of a template that was validated over it; and the
\* one that matches every template.
ETag(n) == [of |-> n, validated |-> FALSE]
ValidatedETag(n) == [of |-> n, validated |-> TRUE]
AnyETag == [of |-> 0, validated |-> FALSE]

\* The times an updateTime can be: ISO with milliseconds, as the code expects them;
\* ISO of another precision; in UTC, as the SDK shows them.
Times == {"none", "iso", "fine", "utc"}

\* A template is an object of the SDK's own class, "impl", or a plain object.

\* A call also keeps the template it was given, the ETag and the content that it
\* sends, and the number of a version; and, for the properties, whether it was told to
\* force, and the contents that the template it was given has had since.
RcNoCall == [op |-> "none", phase |-> "idle", request |-> "none", attempts |-> 0,
             answer |-> None, result |-> None, calls |-> 0, project |-> FALSE,
             given |-> None, ifMatch |-> None, body |-> None, number |-> 0,
             forced |-> FALSE, contents |-> {}]

\* Every client has read the first template.  Templates of the server remember, for
\* the properties, who published them, which template the publisher had seen, and
\* whether it asked to overwrite any.
RcInit ==
    /\ \E x \in Contents :
         templates = <<[content |-> x, by |-> None, saw |-> 0, blind |-> TRUE]>>
    /\ held = [c \in Clients |-> [etag |-> ETag(1), content |-> templates[1].content,
                                  time |-> "utc", ok |-> TRUE, saw |-> 1, form |-> "impl"]]
    /\ rcCall = [c \in Clients |-> RcNoCall]

-----------------------------------------------------------------------------
\* VersionImpl: a time that is neither ISO nor UTC is refused; ISO becomes UTC, and a
\* time in UTC is checked and dropped.
TimeOK(time) == time # "fine"
VersionTime(time) == IF time = "iso" THEN "utc" ELSE "none"

\* The operations that send a template.
Puts == {"validate", "publish"}

NewRcCall(c, op) ==
    [RcNoCall EXCEPT !.op = op, !.calls = rcCall[c].calls + 1, !.project = rcCall[c].project]

Begin(c, op, given, ifMatch, number, forced) ==
    rcCall' = [rcCall EXCEPT ![c] =
        Ask([NewRcCall(c, op) EXCEPT
               !.given = given, !.ifMatch = ifMatch, !.number = number, !.forced = forced,
               !.contents = IF op \in Puts THEN {given.content} ELSE {}], op)]

\* A call that is over keeps its result only, and a publish that the server has
\* answered what it was given.
OfServer(r) == ~Failed(r) \/ r.by = "server"
Forget(call) ==
    IF call.phase # "settled" THEN call
    ELSE [(IF call.op = "publish" /\ OfServer(call.result) THEN call
           ELSE [RcNoCall EXCEPT !.phase = "settled", !.result = call.result,
                                 !.calls = call.calls, !.project = call.project])
          EXCEPT !.ifMatch = None, !.body = None, !.forced = FALSE]

\* A call that throws: the arguments are checked before anything else.
Throws(c, op) ==
    rcCall' = [rcCall EXCEPT ![c] = Forget(Refuse(NewRcCall(c, op)))]

GetTemplate(c) ==
    /\ Ready(c, rcCall[c])
    /\ Begin(c, "get", None, None, 0, FALSE)
    /\ UNCHANGED <<templates, held>>

\* validateVersionNumber(): 0 stands for what is not an integer.
GetTemplateAtVersion(c, n) ==
    /\ Ready(c, rcCall[c])
    /\ IF n = 0 THEN Throws(c, "getAt") ELSE Begin(c, "getAt", None, None, n, FALSE)
    /\ UNCHANGED <<templates, held>>

Rollback(c, n) ==
    /\ Ready(c, rcCall[c])
    /\ IF n = 0 THEN Throws(c, "rollback") ELSE Begin(c, "rollback", None, None, n, FALSE)
    /\ UNCHANGED <<templates, held>>

\* validateInputRemoteConfigTemplate(): of the version only what a caller may set is
\* sent, so not its time.  deepCopy() copies plain objects only: an object of the SDK's
\* class is the caller's own, whose version is overwritten.
Validated(template) == [template EXCEPT !.time = "none"]
Overwritten(c) == IF held[c].form = "impl" THEN [held EXCEPT ![c].time = "none"] ELSE held

ValidateTemplate(c) ==
    /\ Ready(c, rcCall[c])
    /\ IF held[c].ok
       THEN /\ Begin(c, "validate", Validated(held[c]), held[c].etag, 0, FALSE)
            /\ held' = Overwritten(c)
       ELSE Throws(c, "validate") /\ UNCHANGED held
    /\ UNCHANGED templates

\* Mutant: any options force.
IfMatch_Options(template, options) == IF options # "none" THEN AnyETag ELSE template.etag

IfMatch(template, options) == IF options = "force" THEN AnyETag ELSE template.etag

PublishTemplate(c, options) ==
    /\ Ready(c, rcCall[c])
    /\ IF held[c].ok
       THEN /\ Begin(c, "publish", Validated(held[c]), IfMatch(held[c], options), 0,
                     options = "force")
            /\ held' = Overwritten(c)
       ELSE Throws(c, "publish") /\ UNCHANGED held
    /\ UNCHANGED templates

\* validateListVersionsOptions().
ListOptions == [pageSize : {None, 0, 1, 300, 301}, pageToken : {"none", "token", "bad"},
                endVersionNumber : {"none", "integer", "bad"},
                startTime : {"none", "date", "utc", "bad"}, endTime : {"none", "date", "bad"}]

ListOptionsOK(o) ==
    /\ o.pageSize = None \/ o.pageSize \in 1..300
    /\ "bad" \notin {o.pageToken, o.endVersionNumber, o.startTime, o.endTime}

ListVersions(c) ==
    /\ Ready(c, rcCall[c])
    /\ \E ok \in {ListOptionsOK(o) : o \in ListOptions} :
         IF ok THEN Begin(c, "list", None, None, 0, FALSE) ELSE Throws(c, "list")
    /\ UNCHANGED <<templates, held>>

\* createTemplateFromJSON() of the JSON of a template: a new object.  When it throws
\* the client keeps the object it has.
CreateTemplateFromJSON(c) ==
    /\ Idle(rcCall[c]) /\ held[c].ok
    /\ held' = [held EXCEPT ![c].time = VersionTime(@), ![c].form = "impl"]
    /\ UNCHANGED <<templates, rcCall>>

\* The client makes it a plain object, by JSON.parse() of its JSON.
ToJSON(c) ==
    /\ Idle(rcCall[c]) /\ held[c].ok /\ held[c].form = "impl"
    /\ held' = [held EXCEPT ![c].form = "plain"]
    /\ UNCHANGED <<templates, rcCall>>

-----------------------------------------------------------------------------
\* Mutant: a plain object is not copied at the call either.
TemplateSent_Reference(c) == held[c].content

\* What a PUT sends: each attempt reads the object that the call was given, which for
\* one of the SDK's class is the caller's own.
TemplateSent(c) ==
    IF rcCall[c].given.form = "impl" THEN held[c].content ELSE rcCall[c].given.content

WithBody(c, call) ==
    IF call.phase = "sent" /\ call.op \in Puts
    THEN [call EXCEPT !.body = TemplateSent(c)] ELSE call

\* A request is delivered to the server, or sent again, or fails.
RcDelivery(c) ==
    /\ \E call \in Deliveries(rcCall[c], "unknown-error") :
          rcCall' = [rcCall EXCEPT ![c] = Forget(WithBody(c, call))]
    /\ UNCHANGED <<templates, held>>

\* The answer that shows the n-th template, maybe without its header.
TimeOf(n) == IF n \in FineTimes THEN "fine" ELSE "iso"
Shown(n, ts) ==
    {[etag |-> e, content |-> ts[n].content, time |-> TimeOf(n), saw |-> n] : e \in {ETag(n), None}}

Status(s) == {[error |-> s]}

RcAnswer(c, answers) == \E a \in answers : rcCall' = [rcCall EXCEPT ![c] = Answered(@, a)]

ServerReads(c) ==
    /\ rcCall[c].phase = "sent"
    /\ \/ rcCall[c].op = "get" /\ RcAnswer(c, Shown(Newest, templates))
       \/ /\ rcCall[c].op = "getAt"
          /\ RcAnswer(c, IF rcCall[c].number <= Newest THEN Shown(rcCall[c].number, templates)
                         ELSE Status("NOT_FOUND"))
       \/ rcCall[c].op = "list" /\ RcAnswer(c, {[times |-> {TimeOf(n) : n \in 1..Newest}]})
    /\ UNCHANGED <<templates, held>>

ServerRefuses(c) ==
    /\ rcCall[c].phase = "sent"
    /\ RcAnswer(c, Status("INVALID_ARGUMENT") \cup Status("UNHEARD_OF"))
    /\ UNCHANGED <<templates, held>>

Matches(c) == rcCall[c].ifMatch \in {AnyETag, ETag(Newest)}

ServerValidates(c) ==
    /\ rcCall[c].phase = "sent" /\ rcCall[c].op = "validate"
    /\ RcAnswer(c, IF Matches(c)
                   THEN {[etag |-> ValidatedETag(Newest), content |-> rcCall[c].body,
                          time |-> "none", saw |-> rcCall[c].given.saw]}
                   ELSE Status("FAILED_PRECONDITION"))
    /\ UNCHANGED <<templates, held>>

Publish(c, content, saw, blind) ==
    LET ts == Append(templates, [content |-> content, by |-> c, saw |-> saw, blind |-> blind])
    IN  templates' = ts /\ RcAnswer(c, Shown(Newest + 1, ts))

ServerPublishes(c) ==
    /\ rcCall[c].phase = "sent" /\ rcCall[c].op = "publish" /\ Newest < MaxVersions
    /\ IF Matches(c)
       THEN Publish(c, rcCall[c].body, rcCall[c].given.saw, rcCall[c].forced)
       ELSE RcAnswer(c, Status("FAILED_PRECONDITION")) /\ UNCHANGED templates
    /\ UNCHANGED held

ServerRollsBack(c) ==
    /\ rcCall[c].phase = "sent" /\ rcCall[c].op = "rollback" /\ Newest < MaxVersions
    /\ IF rcCall[c].number <= Newest
       THEN Publish(c, templates[rcCall[c].number].content, 0, TRUE)
       ELSE RcAnswer(c, Status("NOT_FOUND")) /\ UNCHANGED templates
    /\ UNCHANGED held

-----------------------------------------------------------------------------
\* Mutant: a validated template gets the ETag of the answer.
ETagOf_Answer(call) == call.answer.etag

\* toRemoteConfigTemplate(): a template that was validated keeps the ETag it had.
ETagOf(call) == IF call.op = "validate" THEN call.given.etag ELSE call.answer.etag

\* The answer is made into a template object or a list of versions.  It is refused
\* when its header is missing, when a part of it is malformed, or when the time of a
\* version has another precision.
TimesOK(call) ==
    IF call.op = "list" THEN \A t \in call.answer.times : TimeOK(t) ELSE TimeOK(call.answer.time)

ResultOf(call) ==
    LET a == call.answer
    IN  IF call.op = "list" THEN [versions |-> a.times]
        ELSE [etag |-> ETagOf(call), content |-> a.content, time |-> VersionTime(a.time),
              ok |-> TRUE, saw |-> a.saw, form |-> "impl"]

ToRemoteConfigTemplate(call, form) ==
    LET a == call.answer
    IN  IF Failed(a) THEN Settle(call, Failure(RemoteConfigCode(a.error), "server"))
        ELSE IF call.op # "list" /\ a.etag = None THEN RefuseAnswer(call)
        ELSE IF form = "unparsable" THEN Unparsable(call)
        ELSE IF form = "malformed" \/ ~TimesOK(call) THEN RefuseAnswer(call)
        ELSE Settle(call, ResultOf(call))

RcArrives(c) ==
    /\ rcCall[c].phase = "answered"
    /\ \E form \in Forms :
          rcCall' = [rcCall EXCEPT ![c] = Forget(ToRemoteConfigTemplate(@, form))]
    /\ UNCHANGED <<templates, held>>

-----------------------------------------------------------------------------
IsTemplate(r) == r # None /\ "etag" \in DOMAIN r

\* The client goes on with the template that a call has given it.
Keep(c) ==
    /\ rcCall[c].phase = "settled" /\ IsTemplate(rcCall[c].result)
    /\ held' = [held EXCEPT ![c] = rcCall[c].result]
    /\ UNCHANGED <<templates, rcCall>>

\* The client changes its template object, also while a call runs, which remembers it
\* when it is about that very object.
Edit(c) ==
    /\ \E x \in Contents \ {held[c].content} :
         /\ held' = [held EXCEPT ![c].content = x]
         /\ IF ~Idle(rcCall[c]) /\ rcCall[c].op \in Puts /\ rcCall[c].given.form = "impl"
            THEN rcCall' = [rcCall EXCEPT ![c].contents = @ \cup {x}]
            ELSE UNCHANGED rcCall
    /\ UNCHANGED templates

\* Before a call, it makes it an object that is no template.
Spoil(c) ==
    /\ Ready(c, rcCall[c]) /\ held[c].ok
    /\ held' = [held EXCEPT ![c].ok = FALSE]
    /\ UNCHANGED <<templates, rcCall>>

RcNext ==
    \/ \E c \in Clients :
         \/ GetTemplate(c) \/ PublishTemplate(c, "none")
         \/ Keep(c)
         \/ RcDelivery(c) \/ RcArrives(c)
         \/ ServerReads(c) \/ ServerRefuses(c) \/ ServerValidates(c)
         \/ ServerPublishes(c) \/ ServerRollsBack(c)
    \/ \E c \in Thorough :
         \/ ValidateTemplate(c) \/ ListVersions(c)
         \/ \E n \in 0..MaxVersions : GetTemplateAtVersion(c, n) \/ Rollback(c, n)
         \/ \E options \in {"force", "noForce"} : PublishTemplate(c, options)
         \/ CreateTemplateFromJSON(c) \/ ToJSON(c) \/ Edit(c) \/ Spoil(c)
=============================================================================
