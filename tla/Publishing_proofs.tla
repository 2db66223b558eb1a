--------------------------- MODULE Publishing_proofs ---------------------------
(* Proofs about Publishing, for any number of clients, templates, rulesets  *)
(* and attempts: no template is published over one that was not seen, and   *)
(* what a call tells its caller, a result or a refusal, is true.            *)
EXTENDS Publishing, TLAPS

(* What a template object says of itself: its ETag is that of the template  *)
(* it was read from, which exists.                                          *)
Seen(template, newest) ==
    /\ template.content \in Contents
    /\ template.saw \in 1..newest /\ template.etag = ETag(template.saw)

CallFields == {"op", "phase", "request", "attempts", "answer", "result", "calls", "project",
               "given", "ifMatch", "body", "number", "forced", "contents"}

Running == {"called", "sent", "answered"}

(* A call that runs sends the ETag of the template it was given, and a      *)
(* content that this has had since the call: x is the one that the object   *)
(* of its client has now.                                                   *)
BodySeen(k, x) ==
    /\ k.contents \subseteq Contents /\ k.given.content \in k.contents
    /\ k.given.form = "impl" => x \in k.contents
    /\ k.phase # "called" => /\ k.body \in k.contents
                             /\ k.given.form # "impl" => k.body = k.given.content

GivenSeen(k, x, newest) ==
    k.phase \in Running =>
        /\ k.op \in Puts => Seen(k.given, newest) /\ BodySeen(k, x)
        /\ k.op = "publish" => /\ k.forced \in BOOLEAN
                               /\ k.ifMatch = IF k.forced THEN AnyETag ELSE k.given.etag
        /\ k.op \in {"getAt", "rollback"} => k.number \in Nat \ {0}

(* What an answer shows is a template with its ETag, if any; but that of a  *)
(* validation is replaced.                                                  *)
Shows(k, a, newest) ==
    ~Failed(a) /\ k.op # "list" =>
        /\ a.content \in Contents /\ a.saw \in 1..newest
        /\ k.op # "validate" => a.etag \in {None, ETag(a.saw)}
        /\ k.op = "validate" => a.saw = k.given.saw

AnswerSeen(k, newest) == k.phase = "answered" => Shows(k, k.answer, newest)

HeldFields == {"etag", "content", "time", "ok", "saw", "form"}

HeldSeen(h, newest) == DOMAIN h = HeldFields /\ Seen(h, newest)

ResultSeen(k, newest) ==
    k.phase = "settled" /\ IsTemplate(k.result) => HeldSeen(k.result, newest)

CallSeen(k, x, newest) ==
    /\ DOMAIN k = CallFields
    /\ GivenSeen(k, x, newest) /\ AnswerSeen(k, newest) /\ ResultSeen(k, newest)

Published == [content : Contents, by : Clients \cup {None}, saw : Nat, blind : BOOLEAN]

TemplatesOK == templates \in Seq(Published) /\ Newest >= 1

HeldOK == DOMAIN held = Clients /\ \A c \in Clients : HeldSeen(held[c], Newest)

CallsOK ==
    /\ DOMAIN rcCall = Clients
    /\ \A c \in Clients : CallSeen(rcCall[c], held[c].content, Newest)

SeenInv == TemplatesOK /\ HeldOK /\ CallsOK /\ NoUnseenOverwrite

-----------------------------------------------------------------------------
(* What was seen stays seen when more templates are published.              *)
LEMMA SeenGrows ==
    ASSUME NEW n \in Nat, NEW m \in Nat, n <= m
    PROVE  /\ \A h : HeldSeen(h, n) => HeldSeen(h, m)
           /\ \A k, x : CallSeen(k, x, n) => CallSeen(k, x, m)
  <1>1. \A t : Seen(t, n) => Seen(t, m)
    BY DEF Seen
  <1>2. \A k : AnswerSeen(k, n) => AnswerSeen(k, m)
    BY DEF AnswerSeen, Shows
  <1> QED
    BY <1>1, <1>2 DEF HeldSeen, CallSeen, GivenSeen, ResultSeen

(* A failure is no template.                                                *)
LEMMA FailureSeen ==
    ASSUME NEW k, NEW n, DOMAIN k = CallFields, NEW code, NEW by, NEW x
    PROVE  CallSeen(Settle(k, Failure(code, by)), x, n)
  <1> DEFINE s == Settle(k, Failure(code, by))
  <1>1. DOMAIN s = CallFields /\ s.phase = "settled" /\ s.result = Failure(code, by)
    BY DEF Settle, CallFields
  <1>2. ~IsTemplate(s.result)
    BY <1>1 DEF IsTemplate, Failure
  <1> QED
    BY <1>1, <1>2 DEF CallSeen, GivenSeen, AnswerSeen, ResultSeen, Running

(* What is forgotten of a call that is over is not what was seen.           *)
LEMMA ForgetSeen ==
    ASSUME NEW k, NEW n, NEW x, CallSeen(k, x, n)
    PROVE  CallSeen(Forget(k), x, n)
  <1>1. CASE k.phase # "settled"
    BY <1>1 DEF Forget
  <1>2. CASE k.phase = "settled"
    <2>1. /\ DOMAIN Forget(k) = CallFields
          /\ Forget(k).phase = "settled" /\ Forget(k).result = k.result
      BY <1>2 DEF Forget, RcNoCall, CallSeen, CallFields
    <2> QED
      BY <1>2, <2>1 DEF CallSeen, GivenSeen, AnswerSeen, ResultSeen, Running
  <1> QED
    BY <1>1, <1>2

(* Delivery, loss and repetition of a request, each of which ends the call, *)
(* or has it sent with what its template is now.                            *)
DeliveredAs(k, d, noProject) ==
    \/ \E j \in {k, [k EXCEPT !.project = TRUE]}, code \in AppErrors,
          by \in {"credential", "network"} : d = Settle(j, Failure(code, by))
    \/ k.phase = "called" /\ ~k.project /\ d = Settle(k, Failure(noProject, "project"))
    \/ /\ d.phase = "sent" /\ DOMAIN d = DOMAIN k
       /\ \/ k.phase = "called" /\ d.attempts = 1 /\ d.project = TRUE
          \/ /\ k.phase \in {"sent", "answered"}
             /\ k.attempts < MaxAttempts /\ d.attempts = k.attempts + 1
             /\ d.project = k.project
       /\ \A f \in DOMAIN k \ {"phase", "project", "answer", "attempts"} : d[f] = k[f]

LEMMA DeliveryCases ==
    ASSUME NEW k,
           {"phase", "project", "answer", "attempts", "request", "result"} \subseteq DOMAIN k,
           NEW noProject, NEW d \in Deliveries(k, noProject)
    PROVE  DeliveredAs(k, d, noProject)
  <1> USE DEF DeliveredAs
  <1>1. CASE d = Sent(k) /\ k.phase = "called"
    BY <1>1 DEF Sent
  <1>2. CASE d = NoProject(k, noProject) /\ k.phase = "called" /\ ~k.project
    BY <1>2 DEF NoProject
  <1>3. CASE d \in {NoCredential(k), NoCredential([k EXCEPT !.project = TRUE])}
    BY <1>3 DEF NoCredential, AppErrors
  <1>4. CASE d = Resent(k) /\ CanResend(k)
    BY <1>4 DEF Resent, CanResend
  <1>5. CASE d \in {Lost(k, "app/network-error"), Lost(k, "app/network-timeout")}
    BY <1>5 DEF Lost, AppErrors
  <1> QED
    BY <1>1, <1>2, <1>3, <1>4, <1>5 DEF Deliveries

LEMMA DeliveriesSeen ==
    ASSUME SeenInv, NEW c \in Clients, NEW noProject, NEW d \in Deliveries(rcCall[c], noProject)
    PROVE  CallSeen(WithBody(c, d), held[c].content, Newest)
  <1> DEFINE k == rcCall[c]
             x == held[c].content
  <1>1. CallSeen(k, x, Newest) /\ DOMAIN k = CallFields
    BY DEF SeenInv, CallsOK, CallSeen
  <1> HIDE DEF k
  <1>2. ASSUME NEW code, NEW by, NEW j \in {k, [k EXCEPT !.project = TRUE]},
               d = Settle(j, Failure(code, by))
        PROVE  CallSeen(WithBody(c, d), x, Newest)
    <2>1. DOMAIN j = CallFields
      BY <1>1
    <2>2. d.phase = "settled"
      BY <1>2, <2>1 DEF Settle, CallFields
    <2>3. WithBody(c, d) = d
      BY <2>2 DEF WithBody
    <2> QED
      BY <1>2, <2>1, <2>3, FailureSeen
  <1>3. ASSUME /\ d.phase = "sent" /\ k.phase \in {"called", "sent", "answered"}
               /\ DOMAIN d = CallFields
               /\ \A f \in CallFields \ {"phase", "project", "answer", "attempts"} : d[f] = k[f]
        PROVE  CallSeen(WithBody(c, d), x, Newest)
    <2> DEFINE e == WithBody(c, d)
    <2>1. /\ e.phase = "sent" /\ DOMAIN e = CallFields
          /\ \A f \in CallFields \ {"phase", "project", "answer", "attempts", "body"} : e[f] = k[f]
          /\ k.op \in Puts => e.body = IF k.given.form = "impl" THEN x ELSE k.given.content
      BY <1>3 DEF WithBody, TemplateSent, CallFields, k
    <2> HIDE DEF e
    <2>2. GivenSeen(k, x, Newest)
      BY <1>1 DEF CallSeen
    <2>3. GivenSeen(e, x, Newest)
      <3>1. /\ e.op = k.op /\ e.given = k.given /\ e.contents = k.contents
            /\ e.forced = k.forced /\ e.ifMatch = k.ifMatch /\ e.number = k.number
        BY <2>1 DEF CallFields
      <3> QED
        BY <1>3, <2>1, <2>2, <3>1 DEF GivenSeen, BodySeen, Running
    <2>4. CallSeen(e, x, Newest)
      BY <2>1, <2>3 DEF CallSeen, AnswerSeen, ResultSeen
    <2> QED
      BY <2>4 DEF e
  <1>4. {"phase", "project", "answer", "attempts", "request", "result"} \subseteq CallFields
    BY DEF CallFields
  <1>5. DeliveredAs(k, d, noProject)
    BY <1>1, <1>4, DeliveryCases DEF k
  <1>6. \/ \E code, by : \E j \in {k, [k EXCEPT !.project = TRUE]} :
                 d = Settle(j, Failure(code, by))
        \/ /\ d.phase = "sent" /\ k.phase \in {"called", "sent", "answered"}
           /\ DOMAIN d = CallFields
           /\ \A f \in CallFields \ {"phase", "project", "answer", "attempts"} : d[f] = k[f]
    BY <1>1, <1>5 DEF DeliveredAs
  <1> QED
    BY <1>2, <1>3, <1>6

(* An answer arrives.                                                       *)
LEMMA AnsweredSeen ==
    ASSUME NEW k, NEW n, NEW a, NEW x, CallSeen(k, x, n), k.phase = "sent", Shows(k, a, n)
    PROVE  CallSeen(Answered(k, a), x, n)
  <1> DEFINE d == Answered(k, a)
  <1>1. /\ DOMAIN d = CallFields /\ d.phase = "answered" /\ d.answer = a
        /\ \A f \in CallFields \ {"phase", "answer"} : d[f] = k[f]
    BY DEF Answered, CallFields, CallSeen
  <1> HIDE DEF d
  <1>2. CallSeen(d, x, n)
    BY <1>1 DEF CallSeen, CallFields, GivenSeen, BodySeen, AnswerSeen, ResultSeen, Running, Shows
  <1> QED
    BY <1>2 DEF d

(* A call that ends with a template.                                        *)
LEMMA SettledSeen ==
    ASSUME NEW k, NEW n, NEW r, NEW x, DOMAIN k = CallFields, IsTemplate(r) => HeldSeen(r, n)
    PROVE  CallSeen(Settle(k, r), x, n)
  BY DEF CallSeen, Settle, CallFields, GivenSeen, AnswerSeen, ResultSeen, Running

(* The template that is made of an answer; that of a validation keeps the   *)
(* ETag that it had.                                                        *)
LEMMA ResultOfAnswerSeen ==
    ASSUME NEW k, NEW n, NEW x, NEW form, CallSeen(k, x, n), k.phase = "answered"
    PROVE  CallSeen(ToRemoteConfigTemplate(k, form), x, n)
  <1> DEFINE a == k.answer
             t == ResultOf(k)
  <1>1. DOMAIN k = CallFields
    BY DEF CallSeen
  <1>2. CASE ToRemoteConfigTemplate(k, form) \in
               {Settle(k, Failure(RemoteConfigCode(a.error), "server")), RefuseAnswer(k),
                Unparsable(k)}
    BY <1>1, <1>2, FailureSeen DEF RefuseAnswer, Unparsable
  <1>3. CASE k.op = "list" /\ ToRemoteConfigTemplate(k, form) = Settle(k, t)
    <2>1. ~IsTemplate(t)
      BY <1>3 DEF IsTemplate, ResultOf
    <2> QED
      BY <1>1, <1>3, <2>1, SettledSeen
  <1>4. CASE ~Failed(a) /\ k.op # "list" /\ a.etag # None
               /\ ToRemoteConfigTemplate(k, form) = Settle(k, t)
    <2>1. Shows(k, a, n)
      BY DEF CallSeen, AnswerSeen
    <2>2. a.content \in Contents /\ a.saw \in 1..n
      BY <1>4, <2>1 DEF Shows
    <2>3. ETagOf(k) = ETag(a.saw)
      <3>1. CASE k.op = "validate"
        BY <1>4, <2>1, <3>1 DEF Shows, ETagOf, CallSeen, GivenSeen, Seen, Running, Puts
      <3>2. CASE k.op # "validate"
        BY <1>4, <2>1, <3>2 DEF Shows, ETagOf
      <3> QED
        BY <3>1, <3>2
    <2>4. HeldSeen(t, n)
      BY <1>4, <2>2, <2>3 DEF Seen, HeldSeen, HeldFields, ResultOf
    <2> QED
      BY <1>1, <1>4, <2>4, SettledSeen
  <1> QED
    BY <1>2, <1>3, <1>4 DEF ToRemoteConfigTemplate

-----------------------------------------------------------------------------
(* A call begins, or throws.                                                *)
LEMMA NewCall ==
    ASSUME NEW c \in Clients, NEW op
    PROVE  /\ DOMAIN NewRcCall(c, op) = CallFields
           /\ NewRcCall(c, op).op = op
  BY DEF NewRcCall, RcNoCall, CallFields

(* Only one call changes, and maybe the time of its client's template.      *)
LEMMA OneCall ==
    ASSUME SeenInv, NEW c \in Clients, NEW k, CallSeen(k, held[c].content, Newest),
           rcCall' = [rcCall EXCEPT ![c] = k], UNCHANGED templates,
           held' \in {held, Overwritten(c)}
    PROVE  SeenInv'
  <1>1. Newest' = Newest /\ NoUnseenOverwrite'
    BY DEF Newest, NoUnseenOverwrite, SeenInv
  <1>2. /\ DOMAIN held' = Clients
        /\ \A d \in Clients : HeldSeen(held'[d], Newest) /\ held'[d].content = held[d].content
    <2>1. DOMAIN held = Clients /\ \A d \in Clients : HeldSeen(held[d], Newest)
      BY DEF SeenInv, HeldOK
    <2> DEFINE h == [held[c] EXCEPT !.time = "none"]
    <2>2. HeldSeen(h, Newest) /\ h.content = held[c].content
      BY <2>1 DEF HeldSeen, Seen, HeldFields
    <2>3. CASE held' = held
      BY <2>1, <2>3
    <2>4. CASE held' = [held EXCEPT ![c] = h]
      <3> HIDE DEF h
      <3> QED
        BY <2>1, <2>2, <2>4
    <2> QED
      BY <2>3, <2>4 DEF Overwritten
  <1>3. TemplatesOK' /\ HeldOK'
    BY <1>1, <1>2 DEF SeenInv, TemplatesOK, HeldOK
  <1>4. CallsOK'
    BY <1>1, <1>2 DEF SeenInv, CallsOK
  <1> QED
    BY <1>1, <1>3, <1>4 DEF SeenInv

(* The arguments of a call that throws are not looked at again.             *)
LEMMA ThrowsSeen ==
    ASSUME SeenInv, NEW c \in Clients, NEW op, Throws(c, op), UNCHANGED <<templates, held>>
    PROVE  SeenInv'
  <1>1. CallSeen(Refuse(NewRcCall(c, op)), held[c].content, Newest)
    BY NewCall, FailureSeen DEF Refuse
  <1> QED
    BY <1>1, ForgetSeen, OneCall DEF Throws

(* A call is made with the template that its client has.                    *)
LEMMA BeginSeen ==
    ASSUME SeenInv, NEW c \in Clients, NEW op, NEW given, NEW ifMatch, NEW number,
           NEW forced, Begin(c, op, given, ifMatch, number, forced),
           UNCHANGED templates, held' \in {held, Overwritten(c)},
           op \in Puts => Seen(given, Newest) /\ given.content = held[c].content,
           op = "publish" => /\ forced \in BOOLEAN
                             /\ ifMatch = IF forced THEN AnyETag ELSE given.etag,
           op \in {"getAt", "rollback"} => number \in Nat \ {0}
    PROVE  SeenInv'
  <1> DEFINE k == Ask([NewRcCall(c, op) EXCEPT
                         !.given = given, !.ifMatch = ifMatch, !.number = number,
                         !.forced = forced,
                         !.contents = IF op \in Puts THEN {given.content} ELSE {}], op)
  <1>1. /\ DOMAIN k = CallFields /\ k.op = op /\ k.phase = "called" /\ k.given = given
        /\ k.ifMatch = ifMatch /\ k.forced = forced /\ k.number = number
        /\ op \in Puts => k.contents = {given.content}
    BY NewCall DEF Ask, CallFields
  <1>2. CallSeen(k, held[c].content, Newest)
    <2> HIDE DEF k
    <2>1. op \in Puts => given.content \in Contents
      BY DEF Seen
    <2> QED
      BY <1>1, <2>1 DEF CallSeen, GivenSeen, BodySeen, AnswerSeen, ResultSeen
  <1> QED
    BY <1>2, OneCall DEF Begin

(* The methods that a client calls.                                         *)
LEMMA MethodsSeen ==
    ASSUME SeenInv, NEW c \in Clients,
           \/ GetTemplate(c) \/ ValidateTemplate(c) \/ ListVersions(c)
           \/ \E n \in 0..MaxVersions : GetTemplateAtVersion(c, n) \/ Rollback(c, n)
           \/ \E options \in {"none", "force", "noForce"} : PublishTemplate(c, options)
    PROVE  SeenInv'
  <1> DEFINE g == Validated(held[c])
  <1>1. Seen(g, Newest) /\ g.content = held[c].content /\ g.etag = held[c].etag
    BY DEF SeenInv, HeldOK, HeldSeen, Seen, Validated, HeldFields
  <1> HIDE DEF g
  <1>2. CASE GetTemplate(c) \/ ListVersions(c)
    BY <1>2, BeginSeen, ThrowsSeen DEF GetTemplate, ListVersions, Puts
  <1>3. CASE ValidateTemplate(c)
    <2>1. CASE held[c].ok
      <3>1. /\ Begin(c, "validate", g, held[c].etag, 0, FALSE)
            /\ UNCHANGED templates /\ held' = Overwritten(c)
        BY <1>3, <2>1 DEF ValidateTemplate, g
      <3> QED
        BY <1>1, <3>1, BeginSeen
    <2>2. CASE ~held[c].ok
      BY <1>3, <2>2, ThrowsSeen DEF ValidateTemplate
    <2> QED
      BY <2>1, <2>2
  <1>4. ASSUME NEW n \in 0..MaxVersions, GetTemplateAtVersion(c, n) \/ Rollback(c, n)
        PROVE  SeenInv'
    <2>1. CASE n = 0
      BY <1>4, <2>1, ThrowsSeen DEF GetTemplateAtVersion, Rollback
    <2>2. CASE n # 0
      <3>1. n \in Nat \ {0}
        BY <2>2, VersionsAssumption
      <3> QED
        BY <1>4, <2>2, <3>1, BeginSeen DEF GetTemplateAtVersion, Rollback, Puts
    <2> QED
      BY <2>1, <2>2
  <1>5. ASSUME NEW options \in {"none", "force", "noForce"}, PublishTemplate(c, options)
        PROVE  SeenInv'
    <2>1. CASE held[c].ok
      <3>1. /\ (options = "force") \in BOOLEAN
            /\ IfMatch(held[c], options) =
                 IF options = "force" THEN AnyETag ELSE g.etag
        BY <1>1 DEF IfMatch
      <3>2. /\ Begin(c, "publish", g, IfMatch(held[c], options), 0, options = "force")
            /\ UNCHANGED templates /\ held' = Overwritten(c)
        BY <1>5, <2>1 DEF PublishTemplate, g
      <3> QED
        BY <1>1, <3>1, <3>2, BeginSeen
    <2>2. CASE ~held[c].ok
      BY <1>5, <2>2, ThrowsSeen DEF PublishTemplate
    <2> QED
      BY <2>1, <2>2
  <1> QED
    BY <1>2, <1>3, <1>4, <1>5

(* One answer is given to one call.                                         *)
LEMMA AnswerInv ==
    ASSUME SeenInv, NEW c \in Clients, rcCall[c].phase = "sent", NEW answers,
           RcAnswer(c, answers), UNCHANGED <<templates, held>>,
           \A a \in answers : Shows(rcCall[c], a, Newest)
    PROVE  SeenInv'
  <1>1. PICK a \in answers : rcCall' = [rcCall EXCEPT ![c] = Answered(@, a)]
    BY DEF RcAnswer
  <1>2. CallSeen(Answered(rcCall[c], a), held[c].content, Newest)
    BY AnsweredSeen DEF SeenInv, CallsOK
  <1> QED
    BY <1>1, <1>2, OneCall

(* None is no error and no failure.                                         *)
LEMMA NoneIsNoError ==
    /\ \A s \in Statuses : Failed([error |-> s])
    /\ \A code \in RemoteConfigCodes \cup SecurityRulesCodes \cup AppErrors, by \in Sides :
          Failed(Failure(code, by))
  BY NoneAssumption DEF Failed, Failure

(* An error shows no template.                                              *)
LEMMA StatusShows ==
    ASSUME NEW k, NEW n, NEW s \in Statuses, NEW a \in Status(s)
    PROVE  Shows(k, a, n)
  BY NoneIsNoError DEF Status, Shows

(* A template is shown with its own ETag, or with none.                     *)
LEMMA ShownShows ==
    ASSUME NEW k, NEW ts \in Seq(Published), NEW n \in 1..Len(ts), k.op # "validate",
           NEW a \in Shown(n, ts)
    PROVE  Shows(k, a, Len(ts))
  <1>1. ts[n].content \in Contents
    <2>1. ts[n] \in Published
      OBVIOUS
    <2> QED
      BY <2>1 DEF Published
  <1> QED
    BY <1>1 DEF Shown, Shows

(* What the server answers without publishing.                              *)
LEMMA ServerSeen ==
    ASSUME SeenInv, NEW c \in Clients,
           ServerReads(c) \/ ServerRefuses(c) \/ ServerValidates(c)
    PROVE  SeenInv'
  <1> DEFINE k == rcCall[c]
  <1>1. /\ k.phase = "sent" /\ CallSeen(k, held[c].content, Newest) /\ UNCHANGED <<templates, held>>
        /\ templates \in Seq(Published) /\ Newest = Len(templates) /\ Newest \in Nat
        /\ Newest >= 1
    BY DEF ServerReads, ServerRefuses, ServerValidates, SeenInv, CallsOK, TemplatesOK, Newest
  <1>2. CASE ServerReads(c)
    <2>1. CASE k.op = "get" /\ RcAnswer(c, Shown(Newest, templates))
      BY <1>1, <2>1, ShownShows, AnswerInv
    <2>2. CASE k.op = "getAt" /\ RcAnswer(c, IF k.number <= Newest
                                             THEN Shown(k.number, templates)
                                             ELSE Status("NOT_FOUND"))
      <3>1. k.number \in Nat \ {0}
        BY <1>1, <2>2 DEF CallSeen, GivenSeen, Running
      <3>2. CASE k.number <= Newest
        BY <1>1, <2>2, <3>1, <3>2, ShownShows, AnswerInv
      <3>3. CASE ~(k.number <= Newest)
        BY <1>1, <2>2, <3>3, StatusShows, AnswerInv DEF Statuses
      <3> QED
        BY <3>2, <3>3
    <2>3. CASE k.op = "list" /\ RcAnswer(c, {[times |-> {TimeOf(n) : n \in 1..Newest}]})
      BY <1>1, <2>3, AnswerInv DEF Shows
    <2> QED
      BY <1>2, <2>1, <2>2, <2>3 DEF ServerReads
  <1>3. CASE ServerRefuses(c)
    <2>1. \A a \in Status("INVALID_ARGUMENT") \cup Status("UNHEARD_OF") : Shows(k, a, Newest)
      BY StatusShows DEF Statuses
    <2> QED
      BY <1>1, <1>3, <2>1, AnswerInv DEF ServerRefuses
  <1>4. CASE ServerValidates(c)
    <2>1. k.op = "validate" /\ Seen(k.given, Newest) /\ k.body \in Contents
      BY <1>1, <1>4 DEF ServerValidates, CallSeen, GivenSeen, BodySeen, Running, Puts
    <2>2. CASE Matches(c)
      <3> DEFINE a == [etag |-> ValidatedETag(Newest), content |-> k.body,
                       time |-> "none", saw |-> k.given.saw]
      <3>1. Shows(k, a, Newest)
        BY <2>1 DEF Shows, Seen
      <3> QED
        BY <1>1, <1>4, <2>2, <3>1, AnswerInv DEF ServerValidates
    <2>3. CASE ~Matches(c)
      BY <1>1, <1>4, <2>3, StatusShows, AnswerInv DEF ServerValidates, Statuses
    <2> QED
      BY <2>2, <2>3
  <1> QED
    BY <1>2, <1>3, <1>4

(* A template is published: over the one that was seen, or blindly.         *)
LEMMA PublishSeen ==
    ASSUME SeenInv, NEW c \in Clients, rcCall[c].phase = "sent", rcCall[c].op # "validate",
           NEW content \in Contents, NEW saw \in Nat, NEW blind \in BOOLEAN,
           Publish(c, content, saw, blind), UNCHANGED held, ~blind => saw = Newest
    PROVE  SeenInv'
  <1> DEFINE new == [content |-> content, by |-> c, saw |-> saw, blind |-> blind]
             ts == Append(templates, new)
  <1>1. templates \in Seq(Published) /\ Newest = Len(templates) /\ Newest \in Nat /\ Newest >= 1
    BY DEF SeenInv, TemplatesOK, Newest
  <1>2. new \in Published
    BY DEF Published
  <1>3. /\ ts \in Seq(Published) /\ Len(ts) = Newest + 1 /\ ts[Newest + 1] = new
        /\ \A n \in 1..Newest : ts[n] = templates[n]
    <2> HIDE DEF new
    <2> QED
      BY <1>1, <1>2
  <1>4. templates' = ts
    BY DEF Publish
  <1> HIDE DEF ts
  <1>5. Newest' = Newest + 1
    BY <1>3, <1>4 DEF Newest
  <1>6. NoUnseenOverwrite'
    <2> SUFFICES ASSUME NEW n \in 2..Newest + 1, ~ts[n].blind PROVE ts[n].saw = n - 1
      BY <1>4, <1>5 DEF NoUnseenOverwrite
    <2>1. CASE n <= Newest
      BY <1>1, <1>3, <2>1 DEF SeenInv, NoUnseenOverwrite
    <2>2. CASE n = Newest + 1
      BY <1>1, <1>3, <2>2
    <2> QED
      BY <1>1, <2>1, <2>2
  <1>7. HeldOK'
    <2>1. \A h : HeldSeen(h, Newest) => HeldSeen(h, Newest + 1)
      BY <1>1, SeenGrows
    <2> QED
      BY <1>5, <2>1 DEF SeenInv, HeldOK
  <1>8. CallsOK'
    <2>1. PICK a \in Shown(Newest + 1, ts) : rcCall' = [rcCall EXCEPT ![c] = Answered(@, a)]
      BY DEF Publish, RcAnswer, ts
    <2>2. Shows(rcCall[c], a, Newest + 1)
      BY <1>1, <1>3, <2>1, ShownShows
    <2>3. \A d \in Clients : CallSeen(rcCall[d], held[d].content, Newest + 1)
      <3>1. \A k, x : CallSeen(k, x, Newest) => CallSeen(k, x, Newest + 1)
        BY <1>1, SeenGrows
      <3> QED
        BY <3>1 DEF SeenInv, CallsOK
    <2>4. CallSeen(Answered(rcCall[c], a), held[c].content, Newest + 1)
      BY <2>2, <2>3, AnsweredSeen
    <2> QED
      BY <1>5, <2>1, <2>3, <2>4 DEF SeenInv, CallsOK
  <1> QED
    BY <1>1, <1>3, <1>4, <1>5, <1>6, <1>7, <1>8 DEF SeenInv, TemplatesOK

(* The server publishes when the ETag is that of the newest template, or    *)
(* matches any.                                                             *)
LEMMA ServerPublishesSeen ==
    ASSUME SeenInv, NEW c \in Clients, ServerPublishes(c) \/ ServerRollsBack(c)
    PROVE  SeenInv'
  <1> DEFINE k == rcCall[c]
  <1>1. k.phase = "sent" /\ CallSeen(k, held[c].content, Newest) /\ UNCHANGED held
    BY DEF ServerPublishes, ServerRollsBack, SeenInv, CallsOK
  <1>2. templates \in Seq(Published) /\ Newest = Len(templates) /\ Newest \in Nat /\ Newest >= 1
    BY DEF SeenInv, TemplatesOK, Newest
  <1>3. CASE ServerPublishes(c) /\ Matches(c)
    <2>1. /\ k.op = "publish"
          /\ Publish(c, k.body, k.given.saw, k.forced)
      BY <1>3 DEF ServerPublishes
    <2>2. /\ Seen(k.given, Newest) /\ BodySeen(k, held[c].content) /\ k.forced \in BOOLEAN
          /\ k.ifMatch = IF k.forced THEN AnyETag ELSE k.given.etag
      BY <1>1, <2>1 DEF CallSeen, GivenSeen, Running, Puts
    <2>3. k.body \in Contents /\ k.given.saw \in 1..Newest
      BY <1>1, <2>2 DEF Seen, BodySeen
    <2>4. ASSUME ~k.forced PROVE k.given.saw = Newest
      <3>1. k.ifMatch = ETag(k.given.saw)
        BY <2>2, <2>4 DEF Seen
      <3>2. k.ifMatch = AnyETag \/ k.ifMatch = ETag(Newest)
        BY <1>3 DEF Matches
      <3>3. ETag(k.given.saw).of = k.given.saw /\ ETag(Newest).of = Newest /\ AnyETag.of = 0
        BY DEF ETag, AnyETag
      <3>4. k.given.saw = 0 \/ k.given.saw = Newest
        BY <3>1, <3>2, <3>3
      <3> QED
        BY <2>3, <3>4
    <2>5. k.given.saw \in Nat
      BY <2>3
    <2> HIDE DEF k
    <2> QED
      BY <1>1, <2>1, <2>2, <2>3, <2>4, <2>5, PublishSeen DEF k
  <1>4. CASE ServerRollsBack(c) /\ k.number <= Newest
    <2>1. k.op = "rollback" /\ Publish(c, templates[k.number].content, 0, TRUE)
      BY <1>4 DEF ServerRollsBack
    <2>2. k.number \in 1..Newest
      BY <1>1, <1>2, <1>4, <2>1 DEF CallSeen, GivenSeen, Running
    <2>3. templates[k.number].content \in Contents
      <3>1. templates[k.number] \in Published
        BY <1>2, <2>2
      <3> QED
        BY <3>1 DEF Published
    <2> QED
      BY <1>1, <2>1, <2>3, PublishSeen
  <1>5. CASE /\ UNCHANGED templates
             /\ \E s \in Statuses : RcAnswer(c, Status(s))
    BY <1>1, <1>5, StatusShows, AnswerInv
  <1> QED
    BY <1>3, <1>4, <1>5 DEF ServerPublishes, ServerRollsBack, Statuses

(* What a client does with the objects that it has.                         *)
LEMMA HeldSteps ==
    ASSUME SeenInv, NEW c \in Clients,
           Keep(c) \/ CreateTemplateFromJSON(c) \/ ToJSON(c) \/ Edit(c) \/ Spoil(c)
    PROVE  SeenInv'
  <1> DEFINE k == rcCall[c]
  <1>1. UNCHANGED templates
    BY DEF Keep, CreateTemplateFromJSON, ToJSON, Edit, Spoil
  <1>2. HeldSeen(held[c], Newest) /\ CallSeen(k, held[c].content, Newest)
    BY DEF SeenInv, HeldOK, CallsOK
  <1>3. \E h : /\ HeldSeen(h, Newest) /\ held' = [held EXCEPT ![c] = h]
               /\ \/ UNCHANGED rcCall /\ CallSeen(k, h.content, Newest)
                  \/ \E j : /\ CallSeen(j, h.content, Newest)
                            /\ rcCall' = [rcCall EXCEPT ![c] = j]
    <2>2. CASE Keep(c)
      <3>1. HeldSeen(k.result, Newest) /\ k.phase = "settled"
        BY <2>2 DEF Keep, SeenInv, CallsOK, CallSeen, ResultSeen
      <3>2. CallSeen(k, k.result.content, Newest)
        BY <1>2, <3>1 DEF CallSeen, GivenSeen, Running
      <3> HIDE DEF k
      <3> QED
        BY <2>2, <3>1, <3>2 DEF Keep, k
    <2>3. CASE CreateTemplateFromJSON(c)
      <3> DEFINE h == [[held[c] EXCEPT !.time = VersionTime(held[c].time)] EXCEPT !.form = "impl"]
      <3>1. HeldSeen(h, Newest) /\ held' = [held EXCEPT ![c] = h] /\ h.content = held[c].content
        BY <1>2, <2>3 DEF CreateTemplateFromJSON, HeldSeen, Seen, HeldFields, SeenInv, HeldOK
      <3>2. UNCHANGED rcCall
        BY <2>3 DEF CreateTemplateFromJSON
      <3> HIDE DEF h, k
      <3> QED
        BY <1>2, <3>1, <3>2
    <2>4. CASE ToJSON(c)
      <3> DEFINE h == [held[c] EXCEPT !.form = "plain"]
      <3>1. HeldSeen(h, Newest) /\ held' = [held EXCEPT ![c] = h] /\ h.content = held[c].content
        BY <1>2, <2>4 DEF ToJSON, HeldSeen, Seen, HeldFields
      <3>2. UNCHANGED rcCall
        BY <2>4 DEF ToJSON
      <3> HIDE DEF h, k
      <3> QED
        BY <1>2, <3>1, <3>2
    <2>5. CASE Edit(c)
      <3>1. PICK x \in Contents :
               /\ held' = [held EXCEPT ![c].content = x]
               /\ IF ~Idle(k) /\ k.op \in Puts /\ k.given.form = "impl"
                  THEN rcCall' = [rcCall EXCEPT ![c].contents = @ \cup {x}]
                  ELSE UNCHANGED rcCall
        BY <2>5 DEF Edit
      <3> DEFINE h == [held[c] EXCEPT !.content = x]
                 j == [k EXCEPT !.contents = @ \cup {x}]
      <3>2. HeldSeen(h, Newest) /\ held' = [held EXCEPT ![c] = h] /\ h.content = x
        BY <1>2, <3>1 DEF HeldSeen, Seen, HeldFields
      <3>3. CASE ~Idle(k) /\ k.op \in Puts /\ k.given.form = "impl"
        <4>1. rcCall' = [rcCall EXCEPT ![c] = j]
          BY <3>1, <3>3
        <4>2. /\ DOMAIN j = CallFields /\ j.contents = k.contents \cup {x}
              /\ \A f \in CallFields \ {"contents"} : j[f] = k[f]
          BY <1>2 DEF CallSeen, CallFields
        <4> HIDE DEF j, h
        <4>3. CallSeen(j, x, Newest)
          <5>1. j.phase = k.phase /\ j.op = k.op /\ j.given = k.given /\ j.body = k.body
            BY <4>2 DEF CallFields
          <5>2. BodySeen(k, held[c].content) /\ k.phase \in Running => BodySeen(j, x)
            BY <4>2, <5>1 DEF BodySeen
          <5> QED
            BY <1>2, <4>2, <5>1, <5>2
               DEF CallSeen, CallFields, GivenSeen, AnswerSeen, ResultSeen, Shows
        <4> QED
          BY <3>2, <4>1, <4>3
      <3>4. CASE ~(~Idle(k) /\ k.op \in Puts /\ k.given.form = "impl")
        <4>1. CallSeen(k, x, Newest)
          <5>1. k.phase \in Running => ~Idle(k)
            BY DEF Running, Idle
          <5> QED
            BY <1>2, <3>4, <5>1 DEF CallSeen, GivenSeen, BodySeen
        <4> HIDE DEF h, k
        <4> QED
          BY <3>1, <3>2, <3>4, <4>1
      <3> QED
        BY <3>3, <3>4
    <2>6. CASE Spoil(c)
      <3> DEFINE h == [held[c] EXCEPT !.ok = FALSE]
      <3>1. HeldSeen(h, Newest) /\ held' = [held EXCEPT ![c] = h] /\ h.content = held[c].content
        BY <1>2, <2>6 DEF Spoil, HeldSeen, Seen, HeldFields
      <3>2. UNCHANGED rcCall
        BY <2>6 DEF Spoil
      <3> HIDE DEF h, k
      <3> QED
        BY <1>2, <3>1, <3>2
    <2> QED
      BY <2>2, <2>3, <2>4, <2>5, <2>6
  <1>4. Newest' = Newest /\ NoUnseenOverwrite'
    BY <1>1 DEF Newest, NoUnseenOverwrite, SeenInv
  <1> HIDE DEF k
  <1>5. PICK h : /\ HeldSeen(h, Newest) /\ held' = [held EXCEPT ![c] = h]
                 /\ \/ UNCHANGED rcCall /\ CallSeen(k, h.content, Newest)
                    \/ \E j : /\ CallSeen(j, h.content, Newest)
                              /\ rcCall' = [rcCall EXCEPT ![c] = j]
    BY <1>3
  <1>6. TemplatesOK' /\ HeldOK'
    BY <1>1, <1>4, <1>5 DEF SeenInv, TemplatesOK, HeldOK
  <1>7. /\ held'[c] = h /\ \A d \in Clients \ {c} : held'[d] = held[d]
    BY <1>5 DEF SeenInv, HeldOK
  <1>8. CallsOK'
    BY <1>4, <1>5, <1>7 DEF SeenInv, CallsOK, k
  <1> QED
    BY <1>4, <1>6, <1>8 DEF SeenInv

-----------------------------------------------------------------------------
(* Every step keeps the invariant; those of security rules do not touch it. *)
LEMMA NextSeenInv == SeenInv /\ [Next]_vars => SeenInv'
  <1> SUFFICES ASSUME SeenInv, [Next]_vars PROVE SeenInv'
    OBVIOUS
  <1>1. ASSUME NEW c \in Clients, RcDelivery(c) PROVE SeenInv'
    <2>1. PICK d \in Deliveries(rcCall[c], "unknown-error") :
             rcCall' = [rcCall EXCEPT ![c] = Forget(WithBody(c, d))]
      BY <1>1 DEF RcDelivery
    <2>2. CallSeen(Forget(WithBody(c, d)), held[c].content, Newest)
      BY DeliveriesSeen, ForgetSeen
    <2> QED
      BY <1>1, <2>1, <2>2, OneCall DEF RcDelivery
  <1>2. ASSUME NEW c \in Clients, RcArrives(c) PROVE SeenInv'
    <2>1. PICK form \in Forms :
             rcCall' = [rcCall EXCEPT ![c] = Forget(ToRemoteConfigTemplate(rcCall[c], form))]
      BY <1>2 DEF RcArrives
    <2>2. CallSeen(Forget(ToRemoteConfigTemplate(rcCall[c], form)), held[c].content, Newest)
      BY <1>2, ResultOfAnswerSeen, ForgetSeen DEF RcArrives, SeenInv, CallsOK
    <2> QED
      BY <1>2, <2>1, <2>2, OneCall DEF RcArrives
  <1>3. CASE RcNext
    <2>1. CASE \E c \in Clients :
                 \/ GetTemplate(c) \/ PublishTemplate(c, "none")
                 \/ Keep(c)
                 \/ RcDelivery(c) \/ RcArrives(c)
                 \/ ServerReads(c) \/ ServerRefuses(c) \/ ServerValidates(c)
                 \/ ServerPublishes(c) \/ ServerRollsBack(c)
      BY <1>1, <1>2, <2>1, MethodsSeen, HeldSteps, ServerSeen, ServerPublishesSeen
    <2>2. CASE \E c \in Thorough :
                 \/ ValidateTemplate(c) \/ ListVersions(c)
                 \/ \E n \in 0..MaxVersions : GetTemplateAtVersion(c, n) \/ Rollback(c, n)
                 \/ \E options \in {"force", "noForce"} : PublishTemplate(c, options)
                 \/ CreateTemplateFromJSON(c) \/ ToJSON(c) \/ Edit(c) \/ Spoil(c)
      BY <2>2, ThoroughAssumption, MethodsSeen, HeldSteps
    <2> QED
      BY <1>3, <2>1, <2>2 DEF RcNext
  <1>4. CASE UNCHANGED rcVars
    BY <1>4 DEF rcVars, SeenInv, TemplatesOK, HeldOK, CallsOK, Newest, NoUnseenOverwrite
  <1> QED
    BY <1>3, <1>4 DEF Next, vars

(* At the start every client has read the one template there is.            *)
LEMMA InitSeenInv == Init => SeenInv
  <1> SUFFICES ASSUME RcInit PROVE SeenInv
    BY DEF Init
  <1>1. PICK x \in Contents :
           templates = <<[content |-> x, by |-> None, saw |-> 0, blind |-> TRUE]>>
    BY DEF RcInit
  <1>2. Newest = 1 /\ templates[1].content = x /\ templates \in Seq(Published)
    BY <1>1 DEF Newest, Published
  <1>3. HeldOK
    BY <1>2 DEF RcInit, HeldOK, HeldSeen, HeldFields, Seen
  <1>4. CallsOK
    BY DEF RcInit, CallsOK, CallSeen, RcNoCall, CallFields, GivenSeen, BodySeen, AnswerSeen,
           ResultSeen, Running
  <1> QED
    BY <1>2, <1>3, <1>4 DEF SeenInv, TemplatesOK, NoUnseenOverwrite

(* Nobody overwrites a template that it has not seen, unless it forces so,  *)
(* for any number of publishers, templates, attempts and lost answers.      *)
THEOREM NoUnseenOverwriteCorrect == Spec => []NoUnseenOverwrite
  <1>1. SeenInv => NoUnseenOverwrite
    BY DEF SeenInv
  <1> QED
    BY <1>1, InitSeenInv, NextSeenInv, PTL DEF Spec

-----------------------------------------------------------------------------
(* What the answers and the results of remote config tell of the templates  *)
(* ts of the server.                                                        *)

(* The call k of c has published the n-th template.                         *)
PublishedBy(c, k, n, ts) ==
    /\ n \in 1..Len(ts) /\ ts[n].by = c /\ ts[n].content \in k.contents
    /\ k.given.form = "plain" => ts[n].content = k.given.content

Outdated(k, ts) == k.given.saw \in 1..Len(ts) - 1

(* An answer is an error, or it shows what was published.                   *)
AnswerTells(c, k, ts) ==
    k.phase = "answered" =>
        \/ \E s \in Statuses :
              /\ k.answer = [error |-> s]
              /\ k.op = "publish" /\ s = "FAILED_PRECONDITION" => Outdated(k, ts)
        \/ /\ ~Failed(k.answer)
           /\ k.op = "publish" => PublishedBy(c, k, k.answer.saw, ts)

ResultTells(c, k, ts) ==
    /\ k.phase # "settled" => k.result = None
    /\ Failed(k.result) => k.result.error \in RemoteConfigCodes \cup AppErrors
    /\ IsTemplate(k.result) => k.result.time \in {"none", "utc"}
    /\ k.phase = "settled" /\ k.op = "publish" =>
          /\ IsTemplate(k.result) => PublishedBy(c, k, k.result.etag.of, ts)
          /\ k.result = Failure("failed-precondition", "server") => Outdated(k, ts)

Tells(c, k, ts) ==
    /\ k.attempts \in 0..MaxAttempts
    /\ AnswerTells(c, k, ts) /\ ResultTells(c, k, ts)

TellsInv ==
    /\ \A c \in Clients : Tells(c, rcCall[c], templates)
    /\ \A c \in Clients : held[c].time \in {"none", "utc"}

(* What is published later does not change it.                              *)
LEMMA TellsGrows ==
    ASSUME NEW c, NEW k, NEW ts \in Seq(Published), NEW new \in Published, Tells(c, k, ts)
    PROVE  Tells(c, k, Append(ts, new))
  <1>1. /\ Len(Append(ts, new)) = Len(ts) + 1 /\ Len(ts) \in Nat
        /\ \A n \in 1..Len(ts) : Append(ts, new)[n] = ts[n]
    OBVIOUS
  <1>2. \A n : PublishedBy(c, k, n, ts) => PublishedBy(c, k, n, Append(ts, new))
    BY <1>1 DEF PublishedBy
  <1>3. Outdated(k, ts) => Outdated(k, Append(ts, new))
    BY <1>1 DEF Outdated
  <1> QED
    BY <1>2, <1>3 DEF Tells, AnswerTells, ResultTells

LEMMA OneCallTells ==
    ASSUME SeenInv, TellsInv, NEW c \in Clients, NEW k, Tells(c, k, templates),
           rcCall' = [rcCall EXCEPT ![c] = k], UNCHANGED templates,
           held' \in {held, Overwritten(c)}
    PROVE  TellsInv'
  <1>1. \A d \in Clients : held'[d].time \in {"none", "utc"}
    BY DEF SeenInv, HeldOK, HeldSeen, HeldFields, TellsInv, Overwritten
  <1> QED
    BY <1>1 DEF SeenInv, CallsOK, TellsInv

(* A call that ends without a template.                                     *)
LEMMA SettledTells ==
    ASSUME NEW c, NEW k, NEW ts, DOMAIN k = CallFields, NEW r, ~IsTemplate(r),
           Failed(r) => r.error \in RemoteConfigCodes \cup AppErrors,
           k.op = "publish" /\ r = Failure("failed-precondition", "server") => Outdated(k, ts)
    PROVE  Tells(c, Settle(k, r), ts)
  <1> DEFINE s == Settle(k, r)
  <1>1. /\ s.phase = "settled" /\ s.result = r /\ s.op = k.op /\ s.given = k.given
        /\ s.attempts = 0 /\ s.contents = k.contents
    BY DEF Settle, CallFields
  <1> HIDE DEF s
  <1>2. Tells(c, s, ts)
    BY <1>1, AttemptsAssumption DEF Tells, AnswerTells, ResultTells, Outdated
  <1> QED
    BY <1>2 DEF s

LEMMA RefusedTells ==
    ASSUME NEW c, NEW k, NEW ts, DOMAIN k = CallFields,
           NEW code \in RemoteConfigCodes \cup AppErrors, NEW by \in Sides \ {"server"}
    PROVE  Tells(c, Settle(k, Failure(code, by)), ts)
  <1> DEFINE r == Failure(code, by)
  <1>1. ~IsTemplate(r) /\ r.error = code /\ r # Failure("failed-precondition", "server")
    BY DEF Failure, IsTemplate
  <1> HIDE DEF r
  <1>2. Tells(c, Settle(k, r), ts)
    BY <1>1, SettledTells
  <1> QED
    BY <1>2 DEF r

LEMMA ForgetTells ==
    ASSUME NEW c, NEW k, NEW ts, DOMAIN k = CallFields, Tells(c, k, ts)
    PROVE  Tells(c, Forget(k), ts)
  <1>1. CASE k.phase # "settled"
    BY <1>1 DEF Forget
  <1>2. CASE k.phase = "settled"
    <2> DEFINE f == Forget(k)
    <2>1. /\ f.phase = "settled" /\ f.result = k.result /\ f.attempts \in {k.attempts, 0}
          /\ f.op = "publish" =>
                k.op = "publish" /\ f.given = k.given /\ f.contents = k.contents
      BY <1>2 DEF Forget, RcNoCall, CallFields
    <2> HIDE DEF f
    <2>2. Tells(c, f, ts)
      BY <1>2, <2>1, AttemptsAssumption DEF Tells, AnswerTells, ResultTells, Outdated, PublishedBy
    <2> QED
      BY <2>2 DEF f
  <1> QED
    BY <1>1, <1>2

LEMMA DeliveriesTell ==
    ASSUME NEW c, NEW k, NEW ts, DOMAIN k = CallFields, Tells(c, k, ts),
           NEW d \in Deliveries(k, "unknown-error")
    PROVE  LET e == WithBody(c, d) IN DOMAIN e = CallFields /\ Tells(c, e, ts)
  <1> DEFINE e == WithBody(c, d)
  <1>1. ASSUME NEW code \in {"unknown-error"} \cup AppErrors, NEW by \in Sides \ {"server"},
               NEW j \in {k, [k EXCEPT !.project = TRUE]}, d = Settle(j, Failure(code, by))
        PROVE  DOMAIN e = CallFields /\ Tells(c, e, ts)
    <2>1. DOMAIN j = CallFields /\ code \in RemoteConfigCodes \cup AppErrors
      BY DEF RemoteConfigCodes
    <2>2. DOMAIN d = CallFields /\ d.phase = "settled"
      BY <1>1, <2>1 DEF Settle, CallFields
    <2>3. e = d
      BY <2>2 DEF WithBody
    <2>4. Tells(c, d, ts)
      BY <1>1, <2>1, RefusedTells
    <2> QED
      BY <2>2, <2>3, <2>4
  <1>2. ASSUME /\ d.phase = "sent" /\ k.phase \in {"called", "sent", "answered"}
               /\ DOMAIN d = CallFields
               /\ \/ d.attempts = 1
                  \/ k.attempts < MaxAttempts /\ d.attempts = k.attempts + 1
               /\ \A f \in CallFields \ {"phase", "project", "answer", "attempts"} : d[f] = k[f]
        PROVE  DOMAIN e = CallFields /\ Tells(c, e, ts)
    <2>1. /\ DOMAIN e = CallFields /\ e.phase = "sent" /\ e.attempts = d.attempts
          /\ e.result = k.result
      BY <1>2 DEF WithBody, CallFields
    <2>2. d.attempts \in 0..MaxAttempts
      BY <1>2, AttemptsAssumption DEF Tells
    <2>3. k.phase # "settled"
      BY <1>2
    <2> HIDE DEF e
    <2> QED
      BY <2>1, <2>2, <2>3 DEF Tells, AnswerTells, ResultTells
  <1>3. {"phase", "project", "answer", "attempts", "request", "result"} \subseteq CallFields
    BY DEF CallFields
  <1>4. {"project", "credential", "network"} \subseteq Sides \ {"server"}
    BY DEF Sides
  <1>5. DeliveredAs(k, d, "unknown-error")
    BY <1>3, DeliveryCases
  <1>6. \/ \E j \in {k, [k EXCEPT !.project = TRUE]}, code \in {"unknown-error"} \cup AppErrors,
             by \in Sides \ {"server"} : d = Settle(j, Failure(code, by))
        \/ /\ d.phase = "sent" /\ k.phase \in {"called", "sent", "answered"}
           /\ DOMAIN d = CallFields
           /\ \/ d.attempts = 1
              \/ k.attempts < MaxAttempts /\ d.attempts = k.attempts + 1
           /\ \A f \in CallFields \ {"phase", "project", "answer", "attempts"} : d[f] = k[f]
    BY <1>4, <1>5 DEF DeliveredAs
  <1> HIDE DEF e
  <1> QED
    BY <1>1, <1>2, <1>6 DEF e

LEMMA AnsweredTells ==
    ASSUME NEW c, NEW k, NEW ts, DOMAIN k = CallFields, Tells(c, k, ts), k.phase = "sent",
           NEW a,
           \/ \E s \in Statuses :
                 /\ a = [error |-> s]
                 /\ k.op = "publish" /\ s = "FAILED_PRECONDITION" => Outdated(k, ts)
           \/ ~Failed(a) /\ (k.op = "publish" => PublishedBy(c, k, a.saw, ts))
    PROVE  Tells(c, Answered(k, a), ts)
  <1> DEFINE d == Answered(k, a)
  <1>1. /\ d.phase = "answered" /\ d.answer = a /\ d.attempts = k.attempts
        /\ d.result = k.result /\ d.op = k.op /\ d.given = k.given /\ d.contents = k.contents
    BY DEF Answered, CallFields
  <1> HIDE DEF d
  <1>2. Tells(c, d, ts)
    BY <1>1 DEF Tells, AnswerTells, ResultTells, Outdated, PublishedBy
  <1> QED
    BY <1>2 DEF d

(* The answer is made into a template, or into an error of the SDK.         *)
LEMMA ResultOfAnswerTells ==
    ASSUME NEW c, NEW k, NEW ts, NEW x, NEW form, CallSeen(k, x, Len(ts)), Tells(c, k, ts),
           k.phase = "answered"
    PROVE  Tells(c, ToRemoteConfigTemplate(k, form), ts)
  <1> DEFINE a == k.answer
             t == ResultOf(k)
  <1>1. DOMAIN k = CallFields /\ AnswerTells(c, k, ts)
    BY DEF CallSeen, Tells
  <1>2. CASE Failed(a) /\ ToRemoteConfigTemplate(k, form) =
                              Settle(k, Failure(RemoteConfigCode(a.error), "server"))
    <2> DEFINE r == Failure(RemoteConfigCode(a.error), "server")
    <2>1. PICK s \in Statuses :
             /\ a = [error |-> s]
             /\ k.op = "publish" /\ s = "FAILED_PRECONDITION" => Outdated(k, ts)
      BY <1>1, <1>2 DEF AnswerTells
    <2>2. /\ RemoteConfigCode(s) \in RemoteConfigCodes
          /\ RemoteConfigCode(s) = "failed-precondition" => s = "FAILED_PRECONDITION"
      BY DEF RemoteConfigCode, RemoteConfigCodes, Statuses
    <2>3. /\ r.error = RemoteConfigCode(s) /\ ~IsTemplate(r)
          /\ r = Failure("failed-precondition", "server") =>
                 RemoteConfigCode(s) = "failed-precondition"
      BY <2>1 DEF Failure, IsTemplate
    <2> HIDE DEF r
    <2>4. Tells(c, Settle(k, r), ts)
      BY <1>1, <2>1, <2>2, <2>3, SettledTells
    <2> QED
      BY <1>2, <2>4 DEF r
  <1>3. CASE ToRemoteConfigTemplate(k, form) \in {RefuseAnswer(k), Unparsable(k)}
    <2>1. /\ "invalid-argument" \in RemoteConfigCodes /\ "answer" \in Sides \ {"server"}
          /\ "app/unable-to-parse-response" \in AppErrors
      BY DEF RemoteConfigCodes, AppErrors, Sides
    <2> QED
      BY <1>1, <1>3, <2>1, RefusedTells DEF RefuseAnswer, Unparsable
  <1>4. CASE k.op = "list" /\ ToRemoteConfigTemplate(k, form) = Settle(k, t)
    <2>1. ~IsTemplate(t) /\ ~Failed(t) /\ k.op # "publish"
      BY <1>4 DEF IsTemplate, Failed, ResultOf
    <2> HIDE DEF t
    <2>2. Tells(c, Settle(k, t), ts)
      BY <1>1, <2>1, SettledTells
    <2> QED
      BY <1>4, <2>2
  <1>5. CASE ~Failed(a) /\ k.op # "list" /\ a.etag # None
               /\ ToRemoteConfigTemplate(k, form) = Settle(k, t)
    <2> DEFINE s == Settle(k, t)
    <2>1. /\ s.phase = "settled" /\ s.result = t /\ s.op = k.op /\ s.given = k.given
          /\ s.attempts = 0 /\ s.contents = k.contents
      BY <1>1 DEF Settle, CallFields
    <2>2. ~Failed(t) /\ t # Failure("failed-precondition", "server")
      BY <1>5 DEF Failed, Failure, ResultOf
    <2>3. t.time \in {"none", "utc"}
      BY <1>5 DEF VersionTime, ResultOf
    <2>4. k.op = "publish" => PublishedBy(c, k, a.saw, ts)
      BY <1>1, <1>5, NoneIsNoError DEF AnswerTells
    <2>5. k.op = "publish" => t.etag.of = a.saw
      BY <1>5 DEF CallSeen, AnswerSeen, Shows, ETagOf, ETag, ResultOf
    <2> HIDE DEF s, t
    <2>6. Tells(c, s, ts)
      BY <2>1, <2>2, <2>3, <2>4, <2>5, AttemptsAssumption
         DEF Tells, AnswerTells, ResultTells, PublishedBy
    <2> QED
      BY <1>5, <2>6 DEF s
  <1> QED
    BY <1>2, <1>3, <1>4, <1>5 DEF ToRemoteConfigTemplate

(* The methods: a call begins, or throws.                                   *)
LEMMA BeginTells ==
    ASSUME SeenInv, TellsInv, NEW c \in Clients, NEW op, NEW given, NEW ifMatch, NEW number,
           NEW forced, Begin(c, op, given, ifMatch, number, forced) \/ Throws(c, op),
           UNCHANGED templates, held' \in {held, Overwritten(c)}
    PROVE  TellsInv'
  <1> DEFINE k == Ask([NewRcCall(c, op) EXCEPT
                         !.given = given, !.ifMatch = ifMatch, !.number = number,
                         !.forced = forced,
                         !.contents = IF op \in Puts THEN {given.content} ELSE {}], op)
  <1>1. CASE Begin(c, op, given, ifMatch, number, forced)
    <2>1. k.phase = "called" /\ k.attempts = 0 /\ k.result = None
      BY DEF Ask, NewRcCall, RcNoCall
    <2> HIDE DEF k
    <2>2. Tells(c, k, templates)
      BY <2>1, AttemptsAssumption DEF Tells, AnswerTells, ResultTells, Failed, IsTemplate
    <2> QED
      BY <1>1, <2>2, OneCallTells DEF Begin, k
  <1>2. CASE Throws(c, op)
    <2> DEFINE r == Refuse(NewRcCall(c, op))
    <2>1. /\ DOMAIN r = CallFields /\ "invalid-argument" \in RemoteConfigCodes
          /\ "arguments" \in Sides \ {"server"}
      BY NewCall DEF Refuse, Settle, RemoteConfigCodes, Sides
    <2>2. Tells(c, r, templates)
      BY <2>1, NewCall, RefusedTells DEF Refuse
    <2> HIDE DEF r
    <2>3. Tells(c, Forget(r), templates)
      BY <2>1, <2>2, ForgetTells
    <2> QED
      BY <1>2, <2>3, OneCallTells DEF Throws, r
  <1> QED
    BY <1>1, <1>2

LEMMA MethodsTell ==
    ASSUME SeenInv, TellsInv, NEW c \in Clients,
           \/ GetTemplate(c) \/ ValidateTemplate(c) \/ ListVersions(c)
           \/ \E n \in 0..MaxVersions : GetTemplateAtVersion(c, n) \/ Rollback(c, n)
           \/ \E options \in {"none", "force", "noForce"} : PublishTemplate(c, options)
    PROVE  TellsInv'
  <1>1. /\ \E op, given, ifMatch, number, forced :
              Begin(c, op, given, ifMatch, number, forced) \/ Throws(c, op)
        /\ UNCHANGED templates /\ held' \in {held, Overwritten(c)}
    BY DEF GetTemplate, ValidateTemplate, ListVersions, GetTemplateAtVersion, Rollback,
       PublishTemplate
  <1> QED
    BY <1>1, BeginTells

LEMMA RcAnswerTells ==
    ASSUME SeenInv, TellsInv, NEW c \in Clients, rcCall[c].phase = "sent", NEW answers,
           RcAnswer(c, answers), UNCHANGED <<templates, held>>,
           \A a \in answers :
              \/ \E s \in Statuses :
                    /\ a = [error |-> s]
                    /\ rcCall[c].op = "publish" /\ s = "FAILED_PRECONDITION" =>
                          Outdated(rcCall[c], templates)
              \/ ~Failed(a) /\ rcCall[c].op # "publish"
    PROVE  TellsInv'
  <1>1. PICK a \in answers : rcCall' = [rcCall EXCEPT ![c] = Answered(@, a)]
    BY DEF RcAnswer
  <1>2. DOMAIN rcCall[c] = CallFields /\ Tells(c, rcCall[c], templates)
    BY DEF SeenInv, CallsOK, CallSeen, TellsInv
  <1>3. Tells(c, Answered(rcCall[c], a), templates)
    BY <1>1, <1>2, AnsweredTells
  <1> QED
    BY <1>1, <1>3, OneCallTells

LEMMA ServerTells ==
    ASSUME SeenInv, TellsInv, NEW c \in Clients,
           ServerReads(c) \/ ServerRefuses(c) \/ ServerValidates(c)
    PROVE  TellsInv'
  <1> DEFINE k == rcCall[c]
  <1>1. k.phase = "sent" /\ UNCHANGED <<templates, held>>
    BY DEF ServerReads, ServerRefuses, ServerValidates
  <1>2. \A n, ts : \A a \in Shown(n, ts) : ~Failed(a)
    BY DEF Shown, Failed
  <1>3. \A s \in {"NOT_FOUND", "INVALID_ARGUMENT", "FAILED_PRECONDITION", "UNHEARD_OF"} :
           s \in Statuses /\ \A a \in Status(s) : a = [error |-> s]
    BY DEF Statuses, Status
  <1>4. CASE ServerReads(c)
    <2>1. PICK answers :
             /\ k.op # "publish" /\ RcAnswer(c, answers)
             /\ \A a \in answers : a = [error |-> "NOT_FOUND"] \/ ~Failed(a)
      <3>1. ~Failed([times |-> {TimeOf(n) : n \in 1..Newest}])
        BY DEF Failed
      <3> QED
        BY <1>2, <1>3, <1>4, <3>1 DEF ServerReads
    <2> QED
      BY <1>1, <1>3, <2>1, RcAnswerTells
  <1>5. CASE ServerRefuses(c)
    <2>1. PICK answers :
             /\ RcAnswer(c, answers)
             /\ \A a \in answers :
                   a = [error |-> "INVALID_ARGUMENT"] \/ a = [error |-> "UNHEARD_OF"]
      BY <1>3, <1>5 DEF ServerRefuses
    <2> QED
      BY <1>1, <1>3, <2>1, RcAnswerTells
  <1>6. CASE ServerValidates(c)
    <2>1. PICK answers :
             /\ k.op # "publish" /\ RcAnswer(c, answers)
             /\ \A a \in answers : a = [error |-> "FAILED_PRECONDITION"] \/ ~Failed(a)
      <3>1. ~Failed([etag |-> ValidatedETag(Newest), content |-> k.body,
                     time |-> "none", saw |-> k.given.saw])
        BY DEF Failed
      <3> QED
        BY <1>3, <1>6, <3>1 DEF ServerValidates
    <2> QED
      BY <1>1, <1>3, <2>1, RcAnswerTells
  <1> QED
    BY <1>4, <1>5, <1>6

(* What is published is there, by its publisher, from then on.              *)
LEMMA PublishTells ==
    ASSUME SeenInv, TellsInv, NEW c \in Clients, rcCall[c].phase = "sent",
           NEW content \in Contents, NEW saw \in Nat, NEW blind \in BOOLEAN,
           Publish(c, content, saw, blind), UNCHANGED held,
           rcCall[c].op = "publish" =>
               /\ content \in rcCall[c].contents
               /\ rcCall[c].given.form = "plain" => content = rcCall[c].given.content
    PROVE  TellsInv'
  <1> DEFINE new == [content |-> content, by |-> c, saw |-> saw, blind |-> blind]
             ts == Append(templates, new)
  <1>1. templates \in Seq(Published) /\ Newest = Len(templates) /\ Newest \in Nat
    BY DEF SeenInv, TemplatesOK, Newest
  <1>2. new \in Published /\ new.by = c /\ new.content = content
    BY DEF Published
  <1>3. Len(ts) = Newest + 1 /\ ts[Newest + 1] = new
    <2> HIDE DEF new
    <2> QED
      BY <1>1, <1>2
  <1>4. \A d \in Clients : Tells(d, rcCall[d], ts)
    <2> HIDE DEF new
    <2> QED
      BY <1>1, <1>2, TellsGrows DEF TellsInv
  <1>5. PICK a \in Shown(Newest + 1, ts) : rcCall' = [rcCall EXCEPT ![c] = Answered(@, a)]
    BY DEF Publish, RcAnswer
  <1>6. ~Failed(a) /\ a.saw = Newest + 1
    BY <1>5 DEF Shown, Failed
  <1>7. templates' = ts
    BY DEF Publish
  <1>8. rcCall[c].op = "publish" => PublishedBy(c, rcCall[c], a.saw, ts)
    BY <1>1, <1>2, <1>3, <1>6 DEF PublishedBy
  <1> HIDE DEF ts
  <1>9. DOMAIN rcCall[c] = CallFields
    BY DEF SeenInv, CallsOK, CallSeen
  <1>10. Tells(c, Answered(rcCall[c], a), ts)
    BY <1>4, <1>6, <1>8, <1>9, AnsweredTells
  <1> QED
    BY <1>4, <1>5, <1>7, <1>10 DEF SeenInv, CallsOK, TellsInv

(* A publish is refused for its ETag only when another came after what its  *)
(* publisher had seen.                                                      *)
LEMMA ServerPublishesTells ==
    ASSUME SeenInv, TellsInv, NEW c \in Clients, ServerPublishes(c) \/ ServerRollsBack(c)
    PROVE  TellsInv'
  <1> DEFINE k == rcCall[c]
  <1>1. k.phase = "sent" /\ CallSeen(k, held[c].content, Newest) /\ UNCHANGED held
    BY DEF ServerPublishes, ServerRollsBack, SeenInv, CallsOK
  <1>2. templates \in Seq(Published) /\ Newest = Len(templates) /\ Newest \in Nat
    BY DEF SeenInv, TemplatesOK, Newest
  <1>3. \A s \in {"NOT_FOUND", "FAILED_PRECONDITION"} :
           s \in Statuses /\ \A a \in Status(s) : a = [error |-> s]
    BY DEF Statuses, Status
  <1>4. CASE ServerPublishes(c)
    <2>1. k.op = "publish"
      BY <1>4 DEF ServerPublishes
    <2>2. /\ Seen(k.given, Newest) /\ BodySeen(k, held[c].content) /\ k.forced \in BOOLEAN
          /\ k.ifMatch = IF k.forced THEN AnyETag ELSE k.given.etag
      BY <1>1, <2>1 DEF CallSeen, GivenSeen, Running, Puts
    <2>3. /\ k.body \in Contents /\ k.body \in k.contents
          /\ k.given.form = "plain" => k.body = k.given.content
          /\ k.given.saw \in 1..Newest /\ k.given.saw \in Nat
      BY <1>1, <1>2, <2>2 DEF Seen, BodySeen
    <2>4. CASE Matches(c)
      <3>1. Publish(c, k.body, k.given.saw, k.forced)
        BY <1>4, <2>4 DEF ServerPublishes
      <3> HIDE DEF k
      <3> QED
        BY <1>1, <2>2, <2>3, <3>1, PublishTells DEF k
    <2>5. CASE ~Matches(c)
      <3>1. RcAnswer(c, Status("FAILED_PRECONDITION")) /\ UNCHANGED templates
        BY <1>4, <2>5 DEF ServerPublishes
      <3>2. k.given.saw # Newest
        BY <2>2, <2>5 DEF Matches, Seen
      <3>3. Outdated(k, templates)
        BY <1>2, <2>3, <3>2 DEF Outdated
      <3> QED
        BY <1>1, <1>3, <3>1, <3>3, RcAnswerTells
    <2> QED
      BY <2>4, <2>5
  <1>5. CASE ServerRollsBack(c)
    <2>1. k.op = "rollback" /\ k.number \in Nat \ {0}
      BY <1>1, <1>5 DEF ServerRollsBack, CallSeen, GivenSeen, Running
    <2>2. CASE k.number <= Newest
      <3>1. Publish(c, templates[k.number].content, 0, TRUE)
        BY <1>5, <2>2 DEF ServerRollsBack
      <3>2. templates[k.number].content \in Contents
        <4>1. templates[k.number] \in Published
          BY <1>2, <2>1, <2>2
        <4> QED
          BY <4>1 DEF Published
      <3> QED
        BY <1>1, <2>1, <3>1, <3>2, PublishTells
    <2>3. CASE ~(k.number <= Newest)
      <3>1. RcAnswer(c, Status("NOT_FOUND")) /\ UNCHANGED templates
        BY <1>5, <2>3 DEF ServerRollsBack
      <3> QED
        BY <1>1, <1>3, <2>1, <3>1, RcAnswerTells
    <2> QED
      BY <2>2, <2>3
  <1> QED
    BY <1>4, <1>5

(* A template that is changed while a call about it runs.                   *)
LEMMA EditTells ==
    ASSUME NEW c, NEW k, NEW ts, NEW x, DOMAIN k = CallFields, Tells(c, k, ts)
    PROVE  Tells(c, [k EXCEPT !.contents = @ \cup {x}], ts)
  <1> DEFINE j == [k EXCEPT !.contents = @ \cup {x}]
  <1>1. /\ k.contents \subseteq j.contents /\ j.phase = k.phase /\ j.op = k.op
        /\ j.given = k.given /\ j.answer = k.answer /\ j.result = k.result
        /\ j.attempts = k.attempts
    BY DEF CallFields
  <1> HIDE DEF j
  <1>2. Tells(c, j, ts)
    BY <1>1 DEF Tells, AnswerTells, ResultTells, Outdated, PublishedBy
  <1> QED
    BY <1>2 DEF j

LEMMA HeldStepsTell ==
    ASSUME SeenInv, TellsInv, NEW c \in Clients,
           Keep(c) \/ CreateTemplateFromJSON(c) \/ ToJSON(c) \/ Edit(c) \/ Spoil(c)
    PROVE  TellsInv'
  <1>1. UNCHANGED templates
    BY DEF Keep, CreateTemplateFromJSON, ToJSON, Edit, Spoil
  <1>2. \A d \in Clients : DOMAIN held[d] = HeldFields /\ held[d].time \in {"none", "utc"}
    BY DEF SeenInv, HeldOK, HeldSeen, TellsInv
  <1>3. DOMAIN held = Clients /\ DOMAIN rcCall = Clients /\ DOMAIN rcCall[c] = CallFields
    BY DEF SeenInv, HeldOK, CallsOK, CallSeen
  <1>4. held'[c].time \in {"none", "utc"} /\ \A d \in Clients \ {c} : held'[d] = held[d]
    <2>1. CASE Keep(c)
      <3>1. rcCall[c].result.time \in {"none", "utc"}
        BY <2>1 DEF Keep, TellsInv, Tells, ResultTells
      <3> QED
        BY <1>3, <2>1, <3>1 DEF Keep
    <2>2. CASE CreateTemplateFromJSON(c)
      BY <1>2, <1>3, <2>2 DEF CreateTemplateFromJSON, VersionTime, HeldFields
    <2>3. CASE ToJSON(c)
      BY <1>2, <1>3, <2>3 DEF ToJSON, HeldFields
    <2>4. CASE Edit(c)
      BY <1>2, <1>3, <2>4 DEF Edit, HeldFields
    <2>5. CASE Spoil(c)
      BY <1>2, <1>3, <2>5 DEF Spoil, HeldFields
    <2> QED
      BY <2>1, <2>2, <2>3, <2>4, <2>5
  <1>5. \/ UNCHANGED rcCall
        \/ \E x : rcCall' = [rcCall EXCEPT ![c].contents = @ \cup {x}]
    BY DEF Keep, CreateTemplateFromJSON, ToJSON, Edit, Spoil
  <1>6. \A d \in Clients : Tells(d, rcCall'[d], templates)
    <2>1. CASE UNCHANGED rcCall
      BY <2>1 DEF TellsInv
    <2>2. ASSUME NEW x, rcCall' = [rcCall EXCEPT ![c].contents = @ \cup {x}]
          PROVE  \A d \in Clients : Tells(d, rcCall'[d], templates)
      <3>1. Tells(c, [rcCall[c] EXCEPT !.contents = @ \cup {x}], templates)
        BY <1>3, EditTells DEF TellsInv
      <3> QED
        BY <1>3, <2>2, <3>1 DEF TellsInv
    <2> QED
      BY <1>5, <2>1, <2>2
  <1> QED
    BY <1>1, <1>2, <1>4, <1>6 DEF TellsInv

LEMMA NextTellsInv == SeenInv /\ TellsInv /\ [Next]_vars => TellsInv'
  <1> SUFFICES ASSUME SeenInv, TellsInv, [Next]_vars PROVE TellsInv'
    OBVIOUS
  <1>1. ASSUME NEW c \in Clients, RcDelivery(c) PROVE TellsInv'
    <2>1. PICK d \in Deliveries(rcCall[c], "unknown-error") :
             rcCall' = [rcCall EXCEPT ![c] = Forget(WithBody(c, d))]
      BY <1>1 DEF RcDelivery
    <2>2. DOMAIN rcCall[c] = CallFields /\ Tells(c, rcCall[c], templates)
      BY DEF SeenInv, CallsOK, CallSeen, TellsInv
    <2>3. DOMAIN WithBody(c, d) = CallFields /\ Tells(c, WithBody(c, d), templates)
      BY <2>2, DeliveriesTell
    <2>4. Tells(c, Forget(WithBody(c, d)), templates)
      BY <2>3, ForgetTells
    <2> QED
      BY <1>1, <2>1, <2>4, OneCallTells DEF RcDelivery
  <1>2. ASSUME NEW c \in Clients, RcArrives(c) PROVE TellsInv'
    <2>1. /\ CallSeen(rcCall[c], held[c].content, Len(templates))
          /\ Tells(c, rcCall[c], templates)
      BY DEF SeenInv, CallsOK, TellsInv, Newest
    <2>2. PICK form \in Forms :
             rcCall' = [rcCall EXCEPT ![c] = Forget(ToRemoteConfigTemplate(rcCall[c], form))]
      BY <1>2 DEF RcArrives
    <2>3. /\ Tells(c, ToRemoteConfigTemplate(rcCall[c], form), templates)
          /\ DOMAIN ToRemoteConfigTemplate(rcCall[c], form) = CallFields
      BY <1>2, <2>1, ResultOfAnswerTells, ResultOfAnswerSeen DEF RcArrives, CallSeen
    <2>4. Tells(c, Forget(ToRemoteConfigTemplate(rcCall[c], form)), templates)
      BY <2>3, ForgetTells
    <2> QED
      BY <1>2, <2>2, <2>4, OneCallTells DEF RcArrives
  <1>3. CASE RcNext
    <2>1. CASE \E c \in Clients :
                 \/ GetTemplate(c) \/ PublishTemplate(c, "none")
                 \/ Keep(c)
                 \/ RcDelivery(c) \/ RcArrives(c)
                 \/ ServerReads(c) \/ ServerRefuses(c) \/ ServerValidates(c)
                 \/ ServerPublishes(c) \/ ServerRollsBack(c)
      BY <1>1, <1>2, <2>1, MethodsTell, HeldStepsTell, ServerTells, ServerPublishesTells
    <2>2. CASE \E c \in Thorough :
                 \/ ValidateTemplate(c) \/ ListVersions(c)
                 \/ \E n \in 0..MaxVersions : GetTemplateAtVersion(c, n) \/ Rollback(c, n)
                 \/ \E options \in {"force", "noForce"} : PublishTemplate(c, options)
                 \/ CreateTemplateFromJSON(c) \/ ToJSON(c) \/ Edit(c) \/ Spoil(c)
      BY <2>2, ThoroughAssumption, MethodsTell, HeldStepsTell
    <2> QED
      BY <1>3, <2>1, <2>2 DEF RcNext
  <1>4. CASE UNCHANGED rcVars
    BY <1>4 DEF rcVars, TellsInv
  <1> QED
    BY <1>3, <1>4 DEF Next, vars

LEMMA InitTellsInv == Init => TellsInv
  <1> SUFFICES ASSUME RcInit PROVE TellsInv
    BY DEF Init
  <1>1. \A c \in Clients : rcCall[c] = RcNoCall /\ held[c].time = "utc"
    BY DEF RcInit
  <1>2. \A c \in Clients : Tells(c, RcNoCall, templates)
    BY AttemptsAssumption
       DEF Tells, AnswerTells, ResultTells, RcNoCall, Failed, IsTemplate
  <1> QED
    BY <1>1, <1>2 DEF TellsInv

-----------------------------------------------------------------------------
(* Security rules: what a call k knows of the rulesets rs and of what the   *)
(* releases rel refer to.                                                   *)

RuFields == {"op", "phase", "request", "attempts", "answer", "result", "calls", "project",
             "release", "source", "bucketOK", "ruleset", "during", "changed"}

Ruleset == [source : Sources \cup {None}, exists : BOOLEAN]

(* The operations that are about what a release refers to.                  *)
Releasing == {"releaseFromSource", "release", "getForRelease"}

SourceIs(k, n, rs) == n \in 1..Len(rs) /\ rs[n].source = k.source

RuForm(k) ==
    /\ DOMAIN k = RuFields
    /\ k.attempts \in 0..MaxAttempts /\ k.release \in Releases
    /\ k.source \in Sources \cup {None}
    /\ k.phase \in {"idle", "settled"} \cup Running
    /\ k.phase \in Running =>
          /\ k.op = "releaseFromSource" =>
                k.request \in {"create", "release"} /\ BucketNamed(k.release, k.bucketOK)
          /\ k.op = "release" => k.request = "release"
          /\ k.op = "getForRelease" => k.request \in {"getRelease", "get"}

(* A call that has changed something has found its project, and asks again  *)
(* only to release what it has created.                                     *)
RuChanges(k) ==
    /\ k.phase \in {"sent", "answered"} => k.project = TRUE /\ ~Misnamed(k)
    /\ k.changed => k.project = TRUE
    /\ k.phase \in Running /\ k.changed =>
          /\ k.request \in {"create", "release", "delete"}
          /\ k.phase = "called" => k.op = "releaseFromSource" /\ k.request = "release"

(* A call that runs has met all that its release has referred to, and its   *)
(* second request is about the ruleset that the first one was about.        *)
RuUnderWay(k, rs, rel) ==
    k.phase \in Running =>
        /\ k.op \in Releasing => rel[k.release] \in k.during
        /\ k.op = "releaseFromSource" /\ k.request = "release" => SourceIs(k, k.ruleset, rs)
        /\ k.op = "getForRelease" /\ k.request = "get" => k.ruleset \in k.during

RuAnswer(k, a, rs) ==
    \/ \E s \in Statuses : a = [error |-> s]
    \/ /\ ~Failed(a)
       /\ k.op \in Releasing =>
             /\ k.request # "create" => a.ruleset \in k.during
             /\ k.op = "releaseFromSource" => SourceIs(k, a.ruleset, rs)

RuResult(k, rs) ==
    /\ k.phase # "settled" => k.result = None
    /\ Failed(k.result) => k.result.error \in SecurityRulesCodes \cup AppErrors
    /\ k.phase = "settled" =>
          /\ ~Failed(k.result) /\ k.op \in Releasing =>
                /\ k.result.ruleset \in k.during
                /\ k.op = "releaseFromSource" => SourceIs(k, k.result.ruleset, rs)
          /\ Failed(k.result) /\ k.result.by \in {"arguments", "project"} => ~k.changed

RuTells(k, rs, rel) ==
    /\ RuForm(k) /\ RuChanges(k) /\ RuUnderWay(k, rs, rel)
    /\ k.phase = "answered" => RuAnswer(k, k.answer, rs)
    /\ RuResult(k, rs)

RuServer ==
    /\ rulesets \in Seq(Ruleset) /\ release \in [Releases -> Nat]
    /\ \A r \in Releases : release[r] = 0 \/ Exists(release[r])

RuInv ==
    /\ RuServer /\ DOMAIN ruCall = Clients
    /\ \A c \in Clients : RuTells(ruCall[c], rulesets, release)

(* A call that runs, after a step that kept its form.                       *)
LEMMA RuSetCall ==
    ASSUME RuInv, NEW c \in Clients, NEW k, RuTells(k, rulesets, release), SetCall(c, k)
    PROVE  RuInv'
  <1>1. RuServer'
    BY DEF SetCall, RuInv, RuServer, Exists
  <1> QED
    BY <1>1 DEF SetCall, RuInv

(* More rulesets, or rulesets that are deleted, keep their sources.         *)
LEMMA RuKeeps ==
    ASSUME NEW k, NEW rs, NEW rel, RuTells(k, rs, rel), NEW after,
           \A n \in 1..Len(rs) : n \in 1..Len(after) /\ after[n].source = rs[n].source
    PROVE  RuTells(k, after, rel)
  <1>1. \A n : SourceIs(k, n, rs) => SourceIs(k, n, after)
    BY DEF SourceIs
  <1> QED
    BY <1>1 DEF RuTells, RuUnderWay, RuAnswer, RuResult

(* A call that ends with an error.                                          *)
LEMMA RuFailsTells ==
    ASSUME NEW k, NEW rs, NEW rel, RuForm(k), k.changed => k.project = TRUE,
           NEW code \in SecurityRulesCodes \cup AppErrors, NEW by \in Sides,
           by \in {"arguments", "project"} => ~k.changed
    PROVE  RuTells(Settle(k, Failure(code, by)), rs, rel)
  <1> DEFINE r == Failure(code, by)
             s == Settle(k, r)
  <1>1. Failed(r) /\ r.error = code /\ r.by = by
    BY NoneIsNoError DEF Failure
  <1> HIDE DEF r
  <1>2. /\ DOMAIN s = RuFields /\ s.phase = "settled" /\ s.result = r /\ s.attempts = 0
        /\ s.release = k.release /\ s.source = k.source /\ s.changed = k.changed
        /\ s.project = k.project
    BY DEF RuForm, RuFields, Settle
  <1> HIDE DEF s
  <1>3. RuTells(s, rs, rel)
    BY <1>1, <1>2, AttemptsAssumption
       DEF RuTells, RuForm, RuChanges, RuUnderWay, RuResult, Running
  <1> QED
    BY <1>3 DEF s, r

LEMMA RuRefuseTells ==
    ASSUME NEW k, NEW rs, NEW rel, RuForm(k), ~k.changed
    PROVE  RuTells(Refuse(k), rs, rel)
  <1>1. "invalid-argument" \in SecurityRulesCodes /\ "arguments" \in Sides
    BY DEF SecurityRulesCodes, Sides
  <1> QED
    BY <1>1, RuFailsTells DEF Refuse

(* A request is delivered, sent again, or fails; or it is about a ruleset   *)
(* that has no name, and then nothing was changed.                          *)
LEMMA RuDeliveriesTell ==
    ASSUME NEW k, NEW rs, NEW rel, RuTells(k, rs, rel), NEW d \in Deliveries(k, "invalid-argument")
    PROVE  RuTells(IF d.phase = "sent" /\ Misnamed(d) THEN Refuse(d) ELSE d, rs, rel)
  <1>1. RuForm(k) /\ RuChanges(k) /\ DOMAIN k = RuFields
    BY DEF RuTells, RuForm
  <1>2. {"phase", "project", "answer", "attempts", "request", "result"} \subseteq RuFields
    BY DEF RuFields
  <1>3. ASSUME NEW j \in {k, [k EXCEPT !.project = TRUE]}, NEW code \in AppErrors,
               NEW by \in {"credential", "network"}, d = Settle(j, Failure(code, by))
        PROVE  RuTells(d, rs, rel) /\ d.phase # "sent"
    <2>1. /\ DOMAIN j = RuFields /\ \A f \in RuFields \ {"project"} : j[f] = k[f]
          /\ j.project \in {k.project, TRUE}
      BY <1>1 DEF RuFields
    <2>2. RuForm(j) /\ (j.changed => j.project = TRUE)
      BY <1>1, <2>1 DEF RuForm, RuChanges, RuFields
    <2>3. by \in Sides /\ by \notin {"arguments", "project"}
      BY DEF Sides
    <2>4. d.phase = "settled"
      BY <1>3, <2>1 DEF Settle, RuFields
    <2> QED
      BY <1>3, <2>2, <2>3, <2>4, RuFailsTells
  <1>4. CASE k.phase = "called" /\ ~k.project /\ d = Settle(k, Failure("invalid-argument", "project"))
    <2>1. ~k.changed
      BY <1>1, <1>4 DEF RuChanges
    <2>2. "invalid-argument" \in SecurityRulesCodes /\ "project" \in Sides
      BY DEF SecurityRulesCodes, Sides
    <2>3. d.phase = "settled"
      BY <1>1, <1>4 DEF Settle, RuFields
    <2> QED
      BY <1>1, <1>4, <2>1, <2>2, <2>3, RuFailsTells
  <1>5. ASSUME /\ d.phase = "sent" /\ DOMAIN d = RuFields
               /\ \/ k.phase = "called" /\ d.attempts = 1 /\ d.project = TRUE
                  \/ /\ k.phase \in {"sent", "answered"}
                     /\ k.attempts < MaxAttempts /\ d.attempts = k.attempts + 1
                     /\ d.project = k.project
               /\ \A f \in RuFields \ {"phase", "project", "answer", "attempts"} : d[f] = k[f]
        PROVE  RuTells(IF d.phase = "sent" /\ Misnamed(d) THEN Refuse(d) ELSE d, rs, rel)
    <2>1. /\ d.op = k.op /\ d.request = k.request /\ d.release = k.release
          /\ d.source = k.source /\ d.bucketOK = k.bucketOK /\ d.ruleset = k.ruleset
          /\ d.during = k.during /\ d.changed = k.changed /\ d.result = k.result
      BY <1>5 DEF RuFields
    <2>2. d.attempts \in 0..MaxAttempts /\ d.project = TRUE
      BY <1>1, <1>5, AttemptsAssumption DEF RuForm, RuChanges
    <2>3. k.phase \in Running
      BY <1>5 DEF Running
    <2>4. RuForm(d)
      BY <1>1, <1>5, <2>1, <2>2, <2>3 DEF RuForm, Running
    <2>5. RuUnderWay(d, rs, rel) /\ RuResult(d, rs)
      BY <1>5, <2>1, <2>3 DEF RuTells, RuUnderWay, RuResult, SourceIs, Running
    <2>6. CASE ~Misnamed(d) \/ ~d.changed
      <3>1. CASE Misnamed(d)
        BY <1>5, <2>4, <2>6, <3>1, RuRefuseTells
      <3>2. CASE ~Misnamed(d)
        <4>1. RuChanges(d)
          BY <1>1, <1>5, <2>1, <2>2, <2>3, <3>2 DEF RuChanges
        <4> QED
          BY <1>5, <2>4, <2>5, <3>2, <4>1 DEF RuTells
      <3> QED
        BY <3>1, <3>2
    <2>7. CASE Misnamed(d) /\ d.changed
      <3>1. Misnamed(k) /\ k.phase = "called" /\ k.changed
        BY <1>1, <1>5, <2>1, <2>7 DEF Misnamed, RuChanges
      <3>2. SourceIs(k, k.ruleset, rs)
        BY <1>1, <2>3, <3>1 DEF RuChanges, RuTells, RuUnderWay
      <3> QED
        BY <3>1, <3>2 DEF Misnamed, SourceIs
    <2> QED
      BY <2>6, <2>7
  <1>6. DeliveredAs(k, d, "invalid-argument")
    BY <1>1, <1>2, DeliveryCases
  <1> QED
    BY <1>1, <1>3, <1>4, <1>5, <1>6 DEF DeliveredAs

(* The server answers; what it has changed, it remembers.                   *)
LEMMA RuAnsweredTells ==
    ASSUME NEW k, NEW rs, NEW rel, RuTells(k, rs, rel), k.phase = "sent", NEW a,
           RuAnswer(k, a, rs)
    PROVE  /\ RuTells(Answered(k, a), rs, rel)
           /\ k.request \in {"create", "release", "delete"} => RuTells(Changed(Answered(k, a)), rs, rel)
  <1> DEFINE d == Answered(k, a)
             e == Changed(d)
  <1>1. /\ DOMAIN d = RuFields /\ d.phase = "answered" /\ d.answer = a
        /\ \A f \in RuFields \ {"phase", "answer"} : d[f] = k[f]
    BY DEF RuTells, RuForm, RuFields, Answered
  <1>2. /\ DOMAIN e = RuFields /\ e.phase = "answered" /\ e.answer = a
        /\ \A f \in RuFields \ {"phase", "answer", "changed"} : e[f] = k[f]
    BY <1>1 DEF RuFields, Changed
  <1> HIDE DEF d, e
  <1>3. RuTells(d, rs, rel)
    <2>1. RuForm(d) /\ RuUnderWay(d, rs, rel) /\ RuAnswer(d, d.answer, rs) /\ RuResult(d, rs)
      BY <1>1
         DEF RuTells, RuForm, RuFields, RuUnderWay, RuAnswer, RuResult, SourceIs, Running
    <2>2. RuChanges(d)
      BY <1>1 DEF RuTells, RuFields, RuChanges, Running, Misnamed
    <2> QED
      BY <2>1, <2>2 DEF RuTells
  <1>4. ASSUME k.request \in {"create", "release", "delete"} PROVE RuTells(e, rs, rel)
    <2>1. RuForm(e) /\ RuUnderWay(e, rs, rel) /\ RuAnswer(e, e.answer, rs) /\ RuResult(e, rs)
      BY <1>2
         DEF RuTells, RuForm, RuFields, RuUnderWay, RuAnswer, RuResult, SourceIs, Running
    <2>2. RuChanges(e)
      BY <1>2, <1>4 DEF RuTells, RuFields, RuChanges, Running, Misnamed
    <2> QED
      BY <2>1, <2>2 DEF RuTells
  <1> QED
    BY <1>3, <1>4 DEF d, e

(* A call that begins: it is refused for its arguments, or asks.            *)
RuFresh(k) ==
    /\ DOMAIN k = RuFields /\ k.phase = "idle" /\ k.attempts = 0 /\ k.result = None
    /\ ~k.changed /\ k.release \in Releases /\ k.source \in Sources \cup {None}

LEMMA RuNewCall ==
    ASSUME NEW c, NEW op
    PROVE  RuFresh(NewRuCall(c, op)) /\ NewRuCall(c, op).op = op
  <1>1. /\ DOMAIN RuNoCall = RuFields
        /\ RuFresh(RuNoCall)
    BY DEF RuNoCall, RuFields, RuFresh, Releases
  <1>2. NewRuCall(c, op) = [RuNoCall EXCEPT !.op = op, !.calls = ruCall[c].calls + 1,
                                            !.project = ruCall[c].project]
    BY DEF NewRuCall
  <1> QED
    BY <1>1, <1>2 DEF RuFresh, RuFields

LEMMA RuBegins ==
    ASSUME RuInv, NEW c \in Clients, NEW k, RuFresh(k), NEW ok \in BOOLEAN, NEW request,
           SetCall(c, IF ok THEN Ask(k, request) ELSE Refuse(k)),
           k.op \in Releasing => release[k.release] \in k.during,
           k.op = "releaseFromSource" =>
               request = "create" /\ (ok => BucketNamed(k.release, k.bucketOK)),
           k.op = "release" => request = "release",
           k.op = "getForRelease" => request = "getRelease"
    PROVE  RuInv'
  <1>1. RuTells(Refuse(k), rulesets, release)
    <2>1. RuForm(k)
      BY AttemptsAssumption DEF RuFresh, RuForm, Running
    <2> QED
      BY <2>1, RuRefuseTells DEF RuFresh
  <1>2. ASSUME ok PROVE RuTells(Ask(k, request), rulesets, release)
    <2> DEFINE d == Ask(k, request)
    <2>1. /\ DOMAIN d = RuFields /\ d.phase = "called" /\ d.request = request
          /\ \A f \in RuFields \ {"phase", "request", "answer"} : d[f] = k[f]
      BY DEF RuFresh, RuFields, Ask
    <2> HIDE DEF d
    <2>2. ~Failed(None)
      BY DEF Failed
    <2>3. RuForm(d)
      <3>1. /\ d.op = k.op /\ d.release = k.release /\ d.bucketOK = k.bucketOK
            /\ d.attempts = 0 /\ d.source = k.source
        BY <2>1 DEF RuFresh, RuFields
      <3>2. BucketNamed(k.release, k.bucketOK) \/ k.op # "releaseFromSource"
        BY <1>2
      <3> QED
        BY <2>1, <3>1, <3>2, AttemptsAssumption DEF RuFresh, RuForm, Running
    <2>4. RuUnderWay(d, rulesets, release)
      BY <2>1 DEF RuUnderWay, RuFields
    <2>5. RuResult(d, rulesets)
      BY <2>1, <2>2 DEF RuFresh, RuResult, RuFields
    <2>6. RuChanges(d)
      BY <2>1 DEF RuFresh, RuChanges, RuFields
    <2>7. RuTells(d, rulesets, release)
      BY <2>1, <2>3, <2>4, <2>5, <2>6 DEF RuTells
    <2> QED
      BY <2>7 DEF d
  <1> QED
    BY <1>1, <1>2, RuSetCall

LEMMA RuMethodsTell ==
    ASSUME RuInv, NEW c \in Clients,
           \/ \E r \in Releases, ok \in BOOLEAN :
                \/ \E source \in Sources \cup {None} : ReleaseFromSource(c, r, source, ok)
                \/ \E n : ReleaseRuleset(c, r, n, ok)
                \/ GetRulesetForRelease(c, r, ok)
           \/ \E op \in {"get", "delete"} : \E n : ByName(c, op, n)
           \/ \E source \in Sources \cup {None} : CreateRuleset(c, source)
           \/ \E pageSize, ok : ListRulesetMetadata(c, pageSize, ok)
    PROVE  RuInv'
  <1>1. ASSUME NEW r \in Releases, NEW bucketOK \in BOOLEAN, NEW source \in Sources \cup {None},
               ReleaseFromSource(c, r, source, bucketOK)
        PROVE  RuInv'
    <2> DEFINE k0 == NewRuCall(c, "releaseFromSource")
               k == [k0 EXCEPT !.release = r, !.source = source, !.bucketOK = bucketOK,
                               !.during = {release[r]}]
               ok == BucketNamed(r, bucketOK) /\ SourceOK(source)
    <2>1. RuFresh(k0) /\ k0.op = "releaseFromSource"
      BY RuNewCall
    <2>2. /\ RuFresh(k) /\ k.op = "releaseFromSource" /\ k.release = r
          /\ k.bucketOK = bucketOK /\ k.during = {release[r]}
      <3> HIDE DEF k0
      <3> QED
        BY <2>1 DEF RuFresh, RuFields
    <2>3. SetCall(c, IF ok THEN Ask(k, "create") ELSE Refuse(k))
      BY <1>1 DEF ReleaseFromSource
    <2>4. ok \in BOOLEAN /\ (ok => BucketNamed(r, bucketOK))
      BY DEF BucketNamed, SourceOK
    <2> HIDE DEF k, ok
    <2> QED
      BY <2>2, <2>3, <2>4, RuBegins
  <1>2. ASSUME NEW r \in Releases, NEW bucketOK \in BOOLEAN, NEW n,
               ReleaseRuleset(c, r, n, bucketOK)
        PROVE  RuInv'
    <2> DEFINE k0 == NewRuCall(c, "release")
               k == [k0 EXCEPT !.release = r, !.ruleset = n, !.during = {release[r]}]
    <2>1. RuFresh(k0) /\ k0.op = "release"
      BY RuNewCall
    <2>2. RuFresh(k) /\ k.op = "release" /\ k.release = r /\ k.during = {release[r]}
      <3> HIDE DEF k0
      <3> QED
        BY <2>1 DEF RuFresh, RuFields
    <2>3. PICK isText \in {TRUE, n # 0} :
             SetCall(c, IF BucketNamed(r, bucketOK) /\ isText
                        THEN Ask(k, "release") ELSE Refuse(k))
      BY <1>2 DEF ReleaseRuleset
    <2> DEFINE ok == BucketNamed(r, bucketOK) /\ isText
    <2>4. ok \in BOOLEAN /\ SetCall(c, IF ok THEN Ask(k, "release") ELSE Refuse(k))
      BY <2>3
    <2> HIDE DEF k, ok
    <2> QED
      BY <2>2, <2>4, RuBegins
  <1>3. ASSUME NEW r \in Releases, NEW bucketOK \in BOOLEAN, GetRulesetForRelease(c, r, bucketOK)
        PROVE  RuInv'
    <2> DEFINE k0 == NewRuCall(c, "getForRelease")
               k == [k0 EXCEPT !.release = r, !.during = {release[r]}]
               ok == BucketNamed(r, bucketOK)
    <2>1. RuFresh(k0) /\ k0.op = "getForRelease"
      BY RuNewCall
    <2>2. RuFresh(k) /\ k.op = "getForRelease" /\ k.release = r /\ k.during = {release[r]}
      <3> HIDE DEF k0
      <3> QED
        BY <2>1 DEF RuFresh, RuFields
    <2>3. SetCall(c, IF ok THEN Ask(k, "getRelease") ELSE Refuse(k))
      BY <1>3 DEF GetRulesetForRelease
    <2>4. ok \in BOOLEAN
      BY DEF BucketNamed
    <2> HIDE DEF k, ok
    <2> QED
      BY <2>2, <2>3, <2>4, RuBegins
  <1>4. ASSUME NEW op \in {"get", "delete"}, NEW n, ByName(c, op, n)
        PROVE  RuInv'
    <2> DEFINE k0 == NewRuCall(c, op)
               k == [k0 EXCEPT !.ruleset = n]
               ok == n # 0 \/ op = "delete"
    <2>1. RuFresh(k0) /\ k0.op = op
      BY RuNewCall
    <2>2. RuFresh(k) /\ k.op = op
      <3> HIDE DEF k0
      <3> QED
        BY <2>1 DEF RuFresh, RuFields
    <2>3. SetCall(c, IF ok THEN Ask(k, op) ELSE Refuse(k))
      BY <1>4 DEF ByName
    <2>4. ok \in BOOLEAN
      OBVIOUS
    <2> HIDE DEF k, ok
    <2> QED
      BY <2>2, <2>3, <2>4, RuBegins DEF Releasing
  <1>5. ASSUME NEW source \in Sources \cup {None}, CreateRuleset(c, source)
        PROVE  RuInv'
    <2> DEFINE k0 == NewRuCall(c, "create")
               k == [k0 EXCEPT !.source = source]
               ok == SourceOK(source)
    <2>1. RuFresh(k0) /\ k0.op = "create"
      BY RuNewCall
    <2>2. RuFresh(k) /\ k.op = "create"
      <3> HIDE DEF k0
      <3> QED
        BY <2>1 DEF RuFresh, RuFields
    <2>3. SetCall(c, IF ok THEN Ask(k, "create") ELSE Refuse(k))
      BY <1>5 DEF CreateRuleset
    <2>4. ok \in BOOLEAN
      BY DEF SourceOK
    <2> HIDE DEF k, ok
    <2> QED
      BY <2>2, <2>3, <2>4, RuBegins DEF Releasing
  <1>6. ASSUME NEW pageSize, NEW tokenOK, ListRulesetMetadata(c, pageSize, tokenOK)
        PROVE  RuInv'
    <2> DEFINE k == NewRuCall(c, "list")
               ok == pageSize \in 1..100 /\ tokenOK
    <2>1. RuFresh(k) /\ k.op = "list"
      BY RuNewCall
    <2>2. SetCall(c, IF ok THEN Ask(k, "list") ELSE Refuse(k))
      BY <1>6 DEF ListRulesetMetadata
    <2>3. ok \in BOOLEAN
      OBVIOUS
    <2> HIDE DEF k, ok
    <2> QED
      BY <2>1, <2>2, <2>3, RuBegins DEF Releasing
  <1> QED
    BY <1>1, <1>2, <1>3, <1>4, <1>5, <1>6

(* An answer leads to the second request of a call, or ends it.             *)
LEMMA RuNextTells ==
    ASSUME NEW k, NEW rs, NEW rel, RuTells(k, rs, rel), k.phase = "answered", NEW form
    PROVE  RuTells(NextOfRules(k, form), rs, rel)
  <1> DEFINE a == k.answer
  <1>1. /\ RuForm(k) /\ RuUnderWay(k, rs, rel) /\ RuAnswer(k, a, rs) /\ k.phase \in Running
        /\ RuChanges(k) /\ k.project = TRUE
    BY DEF RuTells, RuChanges, Running
  <1>2. \A code \in SecurityRulesCodes \cup AppErrors, by \in {"answer", "server"} :
           RuTells(Settle(k, Failure(code, by)), rs, rel)
    <2>1. \A by \in {"answer", "server"} : by \in Sides /\ by \notin {"arguments", "project"}
      BY DEF Sides
    <2> QED
      BY <1>1, <2>1, RuFailsTells
  <1>3. CASE Failed(a)
    <2>1. PICK s \in Statuses : a = [error |-> s]
      BY <1>1, <1>3 DEF RuAnswer
    <2>2. SecurityRulesCode(a.error) \in SecurityRulesCodes
      BY <2>1 DEF SecurityRulesCode, SecurityRulesCodes
    <2> QED
      BY <1>2, <1>3, <2>2 DEF NextOfRules
  <1>4. CASE NextOfRules(k, form) \in
               {Unparsable(k), RefuseAnswer(k), Settle(k, Failure("not-found", "answer"))}
    <2>1. /\ "app/unable-to-parse-response" \in AppErrors
          /\ "invalid-argument" \in SecurityRulesCodes /\ "not-found" \in SecurityRulesCodes
      BY DEF AppErrors, SecurityRulesCodes
    <2> QED
      BY <1>2, <1>4, <2>1 DEF Unparsable, RefuseAnswer
  <1>5. CASE ~Failed(a) /\ k.op = "releaseFromSource" /\ k.request = "create"
    <2> DEFINE d == Ask([k EXCEPT !.ruleset = a.ruleset], "release")
    <2>1. BucketNamed(k.release, k.bucketOK)
      BY <1>1, <1>5 DEF RuForm
    <2>2. SourceIs(k, a.ruleset, rs)
      BY <1>1, <1>5, NoneIsNoError DEF RuAnswer, Releasing
    <2>3. /\ DOMAIN d = RuFields /\ d.phase = "called" /\ d.request = "release"
          /\ d.ruleset = a.ruleset
          /\ \A f \in RuFields \ {"phase", "request", "answer", "ruleset"} : d[f] = k[f]
      BY <1>1 DEF RuForm, RuFields, Ask
    <2> HIDE DEF d
    <2>4. RuForm(d) /\ RuUnderWay(d, rs, rel) /\ RuResult(d, rs)
      BY <1>1, <1>5, <2>1, <2>2, <2>3
         DEF RuTells, RuForm, RuFields, RuUnderWay, RuResult, SourceIs, Running
    <2>5. RuChanges(d)
      BY <1>1, <1>5, <2>3 DEF RuChanges, RuFields
    <2>6. RuTells(d, rs, rel)
      BY <2>3, <2>4, <2>5 DEF RuTells
    <2> QED
      BY <1>4, <1>5, <2>1, <2>6 DEF NextOfRules, d
  <1>6. CASE ~Failed(a) /\ k.op # "releaseFromSource" /\ k.request = "getRelease"
    <2> DEFINE d == Ask([k EXCEPT !.ruleset = a.ruleset], "get")
    <2>1. k.op = "getForRelease" => a.ruleset \in k.during
      BY <1>1, <1>6, NoneIsNoError DEF RuAnswer, Releasing
    <2>2. /\ DOMAIN d = RuFields /\ d.phase = "called" /\ d.request = "get"
          /\ d.ruleset = a.ruleset
          /\ \A f \in RuFields \ {"phase", "request", "answer", "ruleset"} : d[f] = k[f]
      BY <1>1 DEF RuForm, RuFields, Ask
    <2>3. k.op # "release" /\ ~k.changed
      BY <1>1, <1>6 DEF RuForm, RuChanges
    <2> HIDE DEF d
    <2>4. RuForm(d) /\ RuUnderWay(d, rs, rel) /\ RuResult(d, rs)
      BY <1>1, <1>6, <2>1, <2>2, <2>3
         DEF RuTells, RuForm, RuFields, RuUnderWay, RuResult, SourceIs, Running
    <2>5. RuChanges(d)
      BY <1>1, <2>2, <2>3 DEF RuChanges, RuFields
    <2>6. RuTells(d, rs, rel)
      BY <2>2, <2>4, <2>5 DEF RuTells
    <2> QED
      BY <1>4, <1>6, <2>6 DEF NextOfRules, d
  <1>7. CASE /\ ~Failed(a) /\ ~(k.op = "releaseFromSource" /\ k.request = "create")
             /\ k.request # "getRelease"
    <2> DEFINE d == Settle(k, a)
    <2>1. k.op \in Releasing => k.request # "create"
      BY <1>1, <1>7 DEF RuForm, Releasing
    <2>2. /\ k.op \in Releasing => a.ruleset \in k.during
          /\ k.op = "releaseFromSource" => SourceIs(k, a.ruleset, rs)
      BY <1>1, <1>7, <2>1, NoneIsNoError DEF RuAnswer, Releasing
    <2>3. /\ DOMAIN d = RuFields /\ d.phase = "settled" /\ d.result = a /\ d.attempts = 0
          /\ d.op = k.op /\ d.during = k.during /\ d.source = k.source /\ d.release = k.release
          /\ d.changed = k.changed /\ d.project = k.project
      BY <1>1 DEF RuForm, RuFields, Settle
    <2> HIDE DEF d
    <2>4. RuTells(d, rs, rel)
      BY <1>1, <1>7, <2>2, <2>3, AttemptsAssumption
         DEF RuTells, RuForm, RuChanges, RuUnderWay, RuResult, SourceIs, Running
    <2> QED
      BY <1>4, <1>7, <2>4 DEF NextOfRules, d
  <1>8. k.op = "releaseFromSource" => k.request # "getRelease"
    BY <1>1 DEF RuForm
  <1> QED
    BY <1>3, <1>5, <1>6, <1>7, <1>8

(* The server, which changes rulesets and releases.                         *)
LEMMA RuCreatesTells ==
    ASSUME RuInv, NEW c \in Clients, ServerCreates(c)
    PROVE  RuInv'
  <1> DEFINE k == ruCall[c]
             new == [source |-> k.source, exists |-> TRUE]
             rs == Append(rulesets, new)
             a == [ruleset |-> Len(rulesets) + 1]
  <1>1. RuTells(k, rulesets, release) /\ rulesets \in Seq(Ruleset)
    BY DEF RuInv, RuServer
  <1>2. /\ k.phase = "sent" /\ k.request = "create"
        /\ rulesets' = rs /\ UNCHANGED release
        /\ ruCall' = [ruCall EXCEPT ![c] = Changed(Answered(k, a))]
    BY DEF ServerCreates, RuSent
  <1>3. new \in Ruleset
    BY <1>1 DEF Ruleset, RuTells, RuForm
  <1>4. /\ rs \in Seq(Ruleset) /\ Len(rs) = Len(rulesets) + 1 /\ rs[Len(rulesets) + 1] = new
        /\ \A n \in 1..Len(rulesets) : n \in 1..Len(rs) /\ rs[n] = rulesets[n]
        /\ Len(rulesets) + 1 \in 1..Len(rs)
    <2> HIDE DEF new
    <2> QED
      BY <1>1, <1>3
  <1> HIDE DEF rs
  <1>5. \A d \in Clients : RuTells(ruCall[d], rs, release)
    BY <1>4, RuKeeps DEF RuInv
  <1>6. RuAnswer(k, a, rs)
    <2>1. ~Failed(a) /\ a.ruleset = Len(rulesets) + 1
      BY DEF Failed
    <2>2. SourceIs(k, a.ruleset, rs)
      BY <1>4, <2>1 DEF SourceIs
    <2> QED
      BY <1>2, <2>1, <2>2 DEF RuAnswer
  <1>7. RuTells(Changed(Answered(k, a)), rs, release)
    <2> HIDE DEF a
    <2> QED
      BY <1>2, <1>5, <1>6, RuAnsweredTells
  <1>8. RuServer'
    <2>1. \A r \in Releases : release[r] = 0 \/ (release[r] \in 1..Len(rs) /\ rs[release[r]].exists)
      BY <1>4 DEF RuInv, RuServer, Exists
    <2> QED
      BY <1>2, <1>4, <2>1 DEF RuInv, RuServer, Exists
  <1>9. DOMAIN ruCall = Clients
    BY DEF RuInv
  <1> HIDE DEF a
  <1> QED
    BY <1>2, <1>5, <1>7, <1>8, <1>9 DEF RuInv

LEMMA RuDeletesTells ==
    ASSUME RuInv, NEW c \in Clients, ServerDeletes(c)
    PROVE  RuInv'
  <1> DEFINE k == ruCall[c]
             n == k.ruleset
             a == [ruleset |-> n]
             rs == [rulesets EXCEPT ![n].exists = FALSE]
  <1>1. RuTells(k, rulesets, release) /\ k.phase = "sent" /\ k.request = "delete"
    BY DEF RuInv, ServerDeletes, RuSent
  <1>2. k.op \notin Releasing
    BY <1>1 DEF RuTells, RuForm, Releasing, Running
  <1>3. CASE Exists(n) /\ \A r \in Releases : release[r] # n
    <2>1. /\ rulesets' = rs /\ UNCHANGED release
          /\ ruCall' = [ruCall EXCEPT ![c] = Changed(Answered(k, a))]
      BY <1>3 DEF ServerDeletes
    <2>2. rulesets \in Seq(Ruleset) /\ n \in 1..Len(rulesets) /\ rulesets[n] \in Ruleset
      BY <1>3 DEF RuInv, RuServer, Exists
    <2>3. [rulesets[n] EXCEPT !.exists = FALSE] \in Ruleset
      BY <2>2 DEF Ruleset
    <2>4. /\ rs \in Seq(Ruleset) /\ Len(rs) = Len(rulesets)
          /\ \A i \in 1..Len(rulesets) :
                i \in 1..Len(rs) /\ rs[i].source = rulesets[i].source
                  /\ (i # n => rs[i] = rulesets[i])
      <3>1. rs = [rulesets EXCEPT ![n] = [rulesets[n] EXCEPT !.exists = FALSE]]
        OBVIOUS
      <3>2. [rulesets[n] EXCEPT !.exists = FALSE].source = rulesets[n].source
        BY <2>2 DEF Ruleset
      <3> QED
        BY <2>2, <2>3, <3>1, <3>2
    <2> HIDE DEF rs
    <2>5. \A d \in Clients : RuTells(ruCall[d], rs, release)
      BY <2>4, RuKeeps DEF RuInv
    <2>6. RuAnswer(k, a, rs)
      BY <1>2 DEF RuAnswer, Failed
    <2>7. RuTells(Changed(Answered(k, a)), rs, release)
      <3> HIDE DEF a
      <3> QED
        BY <1>1, <2>5, <2>6, RuAnsweredTells
    <2>8. RuServer'
      <3>1. \A r \in Releases : release[r] = 0 \/ (release[r] \in 1..Len(rs) /\ rs[release[r]].exists)
        BY <1>3, <2>4 DEF RuInv, RuServer, Exists
      <3> QED
        BY <2>1, <2>4, <3>1 DEF RuInv, RuServer, Exists
    <2>9. DOMAIN ruCall = Clients
      BY DEF RuInv
    <2> HIDE DEF a
    <2> QED
      BY <2>1, <2>5, <2>7, <2>8, <2>9 DEF RuInv
  <1>4. ASSUME NEW s \in Statuses, SetCall(c, Answered(k, [error |-> s]))
        PROVE  RuInv'
    <2>1. RuAnswer(k, [error |-> s], rulesets)
      BY DEF RuAnswer
    <2> QED
      BY <1>1, <1>4, <2>1, RuAnsweredTells, RuSetCall
  <1> QED
    BY <1>3, <1>4 DEF ServerDeletes, Statuses

(* What a release refers to now is seen by every call that is about it.     *)
LEMMA RuMoves ==
    ASSUME NEW k, NEW rs, NEW rel, RuTells(k, rs, rel), NEW r \in Releases, NEW n,
           DOMAIN rel = Releases, NEW d,
           \/ d = [k EXCEPT !.during = @ \cup {n}]
           \/ d = k /\ (k.release # r \/ Idle(k))
    PROVE  RuTells(d, rs, [rel EXCEPT ![r] = n])
  <1> DEFINE after == [rel EXCEPT ![r] = n]
  <1>1. /\ DOMAIN d = RuFields /\ \A f \in RuFields \ {"during"} : d[f] = k[f]
        /\ k.during \subseteq d.during
        /\ n \in d.during \/ k.release # r \/ Idle(k)
    BY DEF RuTells, RuForm, RuFields
  <1>2. k.release \in Releases /\ after[k.release] = IF k.release = r THEN n ELSE rel[k.release]
    BY DEF RuTells, RuForm
  <1>3. Idle(k) => k.phase \notin Running
    BY DEF Idle, Running
  <1> HIDE DEF after
  <1>4. RuForm(d) /\ RuChanges(d)
    BY <1>1 DEF RuTells, RuForm, RuChanges, RuFields, Misnamed
  <1>5. RuUnderWay(d, rs, after)
    BY <1>1, <1>2, <1>3 DEF RuTells, RuUnderWay, RuFields, SourceIs
  <1>6. d.phase = "answered" => RuAnswer(d, d.answer, rs)
    BY <1>1 DEF RuTells, RuAnswer, RuFields, SourceIs
  <1>7. RuResult(d, rs)
    BY <1>1 DEF RuTells, RuResult, RuFields, SourceIs
  <1>8. RuTells(d, rs, after)
    BY <1>4, <1>5, <1>6, <1>7 DEF RuTells
  <1> QED
    BY <1>8 DEF after

LEMMA RuReleasesTells ==
    ASSUME RuInv, NEW c \in Clients, ServerReleases(c)
    PROVE  RuInv'
  <1> DEFINE k == ruCall[c]
             r == k.release
             n == k.ruleset
             a == [ruleset |-> n]
             rel == [release EXCEPT ![r] = n]
             seen == [k EXCEPT !.during = @ \cup {n}]
  <1>1. /\ RuTells(k, rulesets, release) /\ k.phase = "sent" /\ k.request = "release"
        /\ r \in Releases /\ DOMAIN release = Releases
    BY DEF RuInv, RuServer, RuTells, RuForm, ServerReleases, RuSent
  <1>2. CASE Exists(n)
    <2>1. /\ release' = rel /\ UNCHANGED rulesets
          /\ ruCall' = [d \in Clients |->
                IF d = c THEN Changed(Answered(seen, a))
                ELSE IF ruCall[d].release = r /\ ~Idle(ruCall[d])
                THEN [ruCall[d] EXCEPT !.during = @ \cup {n}]
                ELSE ruCall[d]]
      BY <1>2 DEF ServerReleases
    <2>2. RuTells(seen, rulesets, rel)
      BY <1>1, RuMoves
    <2>3. /\ seen.phase = "sent" /\ seen.request = "release" /\ seen.ruleset = n
          /\ n \in seen.during
      BY <1>1 DEF RuTells, RuForm, RuFields
    <2>4. RuAnswer(seen, a, rulesets)
      <3>1. ~Failed(a) /\ a.ruleset = n
        BY DEF Failed
      <3>2. seen.op = "releaseFromSource" => SourceIs(seen, n, rulesets)
        BY <2>2, <2>3 DEF RuTells, RuUnderWay, Running
      <3> HIDE DEF seen
      <3> QED
        BY <2>3, <3>1, <3>2 DEF RuAnswer
    <2>5. RuTells(Changed(Answered(seen, a)), rulesets, rel)
      <3> HIDE DEF seen, a, rel
      <3> QED
        BY <2>2, <2>3, <2>4, RuAnsweredTells
    <2>6. ASSUME NEW d \in Clients, d # c
          PROVE  RuTells(ruCall'[d], rulesets, rel)
      <3>1. RuTells(ruCall[d], rulesets, release)
        BY DEF RuInv
      <3>2. \/ ruCall'[d] = [ruCall[d] EXCEPT !.during = @ \cup {n}]
            \/ ruCall'[d] = ruCall[d] /\ (ruCall[d].release # r \/ Idle(ruCall[d]))
        BY <2>1, <2>6
      <3> QED
        BY <1>1, <3>1, <3>2, RuMoves
    <2>7. RuServer'
      <3>1. rel \in [Releases -> Nat]
        BY <1>1, <1>2 DEF RuInv, RuServer, Exists
      <3>2. \A q \in Releases : rel[q] = 0 \/ Exists(rel[q])
        BY <1>1, <1>2 DEF RuInv, RuServer
      <3> QED
        BY <2>1, <3>1, <3>2 DEF RuInv, RuServer, Exists
    <2>8. DOMAIN ruCall' = Clients /\ ruCall'[c] = Changed(Answered(seen, a))
      BY <2>1
    <2> HIDE DEF seen, a, rel
    <2> QED
      BY <2>1, <2>5, <2>6, <2>7, <2>8 DEF RuInv
  <1>3. CASE ~Exists(n)
    <2>1. SetCall(c, Answered(k, [error |-> "NOT_FOUND"]))
      BY <1>3 DEF ServerReleases
    <2>2. RuAnswer(k, [error |-> "NOT_FOUND"], rulesets)
      BY DEF RuAnswer, Statuses
    <2> QED
      BY <1>1, <2>1, <2>2, RuAnsweredTells, RuSetCall
  <1> QED
    BY <1>2, <1>3

(* What the server shows or refuses.                                        *)
LEMMA RuShowsTells ==
    ASSUME RuInv, NEW c \in Clients, ServerRefusesRules(c) \/ ServerShows(c)
    PROVE  RuInv'
  <1> DEFINE k == ruCall[c]
  <1>1. RuTells(k, rulesets, release) /\ k.phase = "sent"
    BY DEF RuInv, ServerRefusesRules, ServerShows, RuSent
  <1>2. ASSUME NEW a, SetCall(c, Answered(k, a)), RuAnswer(k, a, rulesets)
        PROVE  RuInv'
    BY <1>1, <1>2, RuAnsweredTells, RuSetCall
  <1>3. \A s \in Statuses : RuAnswer(k, [error |-> s], rulesets)
    BY DEF RuAnswer
  <1>4. CASE ServerRefusesRules(c)
    BY <1>2, <1>3, <1>4 DEF ServerRefusesRules, Statuses
  <1>5. ASSUME NEW n, k.op \in Releasing => k.op # "releaseFromSource" /\ n \in k.during
        PROVE  RuAnswer(k, IF Exists(n) THEN [ruleset |-> n] ELSE [error |-> "NOT_FOUND"], rulesets)
    <2>1. ~Failed([ruleset |-> n]) /\ [ruleset |-> n].ruleset = n
      BY DEF Failed
    <2>2. CASE Exists(n)
      BY <1>5, <2>1, <2>2 DEF RuAnswer
    <2>3. CASE ~Exists(n)
      BY <1>3, <2>3 DEF Statuses
    <2> QED
      BY <2>2, <2>3
  <1>6. CASE RuSent(c, "getRelease") /\ ServerShows(c)
    <2>1. k.op \in Releasing => k.op # "releaseFromSource" /\ release[k.release] \in k.during
      BY <1>1, <1>6 DEF RuSent, RuTells, RuForm, RuUnderWay, Running
    <2>2. k.request = "getRelease"
      BY <1>6 DEF RuSent
    <2> QED
      BY <1>2, <1>5, <1>6, <2>1, <2>2 DEF ServerShows, RuSent
  <1>7. CASE RuSent(c, "get") /\ ServerShows(c)
    <2>1. k.op \in Releasing => k.op # "releaseFromSource" /\ k.ruleset \in k.during
      BY <1>1, <1>7 DEF RuSent, RuTells, RuForm, RuUnderWay, Running, Releasing
    <2>2. k.request = "get"
      BY <1>7 DEF RuSent
    <2> QED
      BY <1>2, <1>5, <1>7, <2>1, <2>2 DEF ServerShows, RuSent
  <1>8. CASE RuSent(c, "list") /\ ServerShows(c)
    <2> DEFINE a == [rulesets |-> {n \in 1..Len(rulesets) : Exists(n)}]
    <2>1. k.request = "list" /\ k.op \notin Releasing
      BY <1>1, <1>8 DEF RuSent, RuTells, RuForm, Running, Releasing
    <2>2. RuAnswer(k, a, rulesets)
      BY <2>1 DEF RuAnswer, Failed
    <2>3. SetCall(c, Answered(k, a))
      BY <1>8, <2>1 DEF ServerShows, RuSent
    <2> HIDE DEF a
    <2> QED
      BY <1>2, <2>2, <2>3
  <1> QED
    BY <1>4, <1>6, <1>7, <1>8 DEF ServerShows

LEMMA NextRuInv == RuInv /\ [Next]_vars => RuInv'
  <1> SUFFICES ASSUME RuInv, [Next]_vars PROVE RuInv'
    OBVIOUS
  <1>1. ASSUME NEW c \in Clients, RuDelivery(c) PROVE RuInv'
    <2>1. PICK d \in Deliveries(ruCall[c], "invalid-argument") :
             SetCall(c, IF d.phase = "sent" /\ Misnamed(d) THEN Refuse(d) ELSE d)
      BY <1>1 DEF RuDelivery
    <2>2. RuTells(IF d.phase = "sent" /\ Misnamed(d) THEN Refuse(d) ELSE d, rulesets, release)
      BY RuDeliveriesTell DEF RuInv
    <2> QED
      BY <2>1, <2>2, RuSetCall
  <1>2. ASSUME NEW c \in Clients, RuArrives(c) PROVE RuInv'
    <2>1. PICK form \in Forms : SetCall(c, NextOfRules(ruCall[c], form))
      BY <1>2 DEF RuArrives
    <2>2. RuTells(NextOfRules(ruCall[c], form), rulesets, release)
      BY <1>2, RuNextTells DEF RuInv, RuArrives
    <2> QED
      BY <2>1, <2>2, RuSetCall
  <1>3. CASE RuNext
    <2>1. ASSUME NEW c \in Clients,
                 \/ \E source \in Sources : ReleaseFromSource(c, "cloud.firestore", source, TRUE)
                 \/ \E n \in 1..MaxRulesets : ByName(c, "delete", n)
          PROVE  RuInv'
      BY <2>1, RuMethodsTell DEF Releases
    <2>2. CASE \E c \in Clients :
                 \/ \E source \in Sources : ReleaseFromSource(c, "cloud.firestore", source, TRUE)
                 \/ \E n \in 1..MaxRulesets : ByName(c, "delete", n)
                 \/ RuDelivery(c) \/ RuArrives(c)
                 \/ ServerRefusesRules(c) \/ ServerCreates(c) \/ ServerReleases(c)
                 \/ ServerDeletes(c) \/ ServerShows(c)
      BY <1>1, <1>2, <2>1, <2>2, RuCreatesTells, RuReleasesTells, RuDeletesTells, RuShowsTells
    <2>3. CASE \E c \in Thorough :
                 \/ \E r \in Releases, ok \in BOOLEAN :
                      \/ \E source \in Sources \cup {None} : ReleaseFromSource(c, r, source, ok)
                      \/ \E n \in 0..MaxRulesets : ReleaseRuleset(c, r, n, ok)
                      \/ GetRulesetForRelease(c, r, ok)
                 \/ \E n \in 0..MaxRulesets : ByName(c, "get", n)
                 \/ ByName(c, "delete", 0)
                 \/ \E source \in Sources \cup {None} : CreateRuleset(c, source)
                 \/ \E pageSize \in {0, 1, 100, 101}, ok \in BOOLEAN :
                      ListRulesetMetadata(c, pageSize, ok)
      BY <2>3, ThoroughAssumption, RuMethodsTell
    <2> QED
      BY <1>3, <2>2, <2>3 DEF RuNext
  <1>4. CASE UNCHANGED ruVars
    BY <1>4 DEF ruVars, RuInv, RuServer, Exists
  <1> QED
    BY <1>3, <1>4 DEF Next, vars

LEMMA InitRuInv == Init => RuInv
  <1> SUFFICES ASSUME RuInit PROVE RuInv
    BY DEF Init
  <1>1. RuServer
    BY DEF RuInit, RuServer
  <1>2. ~Failed(None)
    BY DEF Failed
  <1>3. RuTells(RuNoCall, rulesets, release)
    <2>1. DOMAIN RuNoCall = RuFields /\ RuNoCall.phase = "idle" /\ RuNoCall.attempts = 0
          /\ ~RuNoCall.changed
          /\ RuNoCall.result = None /\ RuNoCall.release \in Releases /\ RuNoCall.source = None
      BY DEF RuNoCall, RuFields, Releases
    <2> QED
      BY <1>2, <2>1, AttemptsAssumption
         DEF RuTells, RuForm, RuChanges, RuUnderWay, RuResult, Running
  <1> QED
    BY <1>1, <1>3 DEF RuInit, RuInv
-----------------------------------------------------------------------------
(* The three invariants hold in every state: each needs only itself and the *)
(* ones before it.                                                          *)
LEMMA AllInv == Spec => [](SeenInv /\ TellsInv /\ RuInv)
  <1> QED
    BY InitSeenInv, NextSeenInv, InitTellsInv, NextTellsInv, InitRuInv, NextRuInv, PTL DEF Spec

(* What a call has told its caller was true between the call and the        *)
(* answer: the template published has a content that the one given had, a   *)
(* plain object the one it had at the call, and the ruleset of a release    *)
(* was the one released, also when requests are sent again, when answers    *)
(* are lost, and when other clients publish and release meanwhile.          *)
THEOREM ResultsHeldCorrect == Spec => []ResultsHeld
  <1>1. SeenInv /\ TellsInv /\ RuInv => ResultsHeld
    <2> SUFFICES ASSUME SeenInv, TellsInv, RuInv PROVE ResultsHeld
      OBVIOUS
    <2>1. ASSUME NEW c \in Clients, rcCall[c].phase = "settled", rcCall[c].op = "publish",
                 IsTemplate(rcCall[c].result)
          PROVE  LET n == rcCall[c].result.etag.of
                     k == rcCall[c]
                 IN  /\ templates[n].by = c /\ templates[n].content \in k.contents
                     /\ k.given.form = "plain" => templates[n].content = k.given.content
      BY <2>1 DEF TellsInv, Tells, ResultTells, PublishedBy
    <2>2. ASSUME NEW c \in Clients, ruCall[c].phase = "settled", ~Failed(ruCall[c].result),
                 ruCall[c].op \in {"releaseFromSource", "release", "getForRelease"}
          PROVE  /\ ruCall[c].result.ruleset \in ruCall[c].during
                 /\ ruCall[c].op = "releaseFromSource" =>
                       rulesets[ruCall[c].result.ruleset].source = ruCall[c].source
      BY <2>2 DEF RuInv, RuTells, RuResult, Releasing, SourceIs
    <2> QED
      BY <2>1, <2>2 DEF ResultsHeld
  <1> QED
    BY <1>1, AllInv, PTL

(* A publish that is refused for its ETag was based on a template that is   *)
(* no longer the newest, whatever was sent again; and what is refused for   *)
(* its arguments, or for its project, has changed nothing.                  *)
THEOREM RefusalsHoldCorrect == Spec => []RefusalsHold
  <1>1. SeenInv /\ TellsInv /\ RuInv => RefusalsHold
    <2> SUFFICES ASSUME SeenInv, TellsInv, RuInv PROVE RefusalsHold
      OBVIOUS
    <2>1. ASSUME NEW c \in Clients, rcCall[c].phase = "settled", rcCall[c].op = "publish",
                 rcCall[c].result = Failure("failed-precondition", "server")
          PROVE  rcCall[c].given.saw < Newest
      <3>1. Outdated(rcCall[c], templates)
        BY <2>1 DEF TellsInv, Tells, ResultTells
      <3>2. Newest = Len(templates) /\ Newest \in Nat
        BY DEF SeenInv, TemplatesOK, Newest
      <3> QED
        BY <3>1, <3>2 DEF Outdated
    <2>2. ASSUME NEW c \in Clients, ruCall[c].phase = "settled", Failed(ruCall[c].result),
                 ruCall[c].result.by \in {"arguments", "project"}
          PROVE  ~ruCall[c].changed
      BY <2>2 DEF RuInv, RuTells, RuResult
    <2> QED
      BY <2>1, <2>2 DEF RefusalsHold
  <1> QED
    BY <1>1, AllInv, PTL

(* Every error is one of its service's or of the app, every template object  *)
(* shows a time in UTC or none and the ETag of a template there is, no request is sent   *)
(* more often than the HTTP client allows, and no release refers to a       *)
(* ruleset that was deleted.                                                *)
THEOREM PublishTypeCorrect == Spec => []PublishTypeOK
  <1>1. SeenInv /\ TellsInv /\ RuInv => PublishTypeOK
    <2> SUFFICES ASSUME SeenInv, TellsInv, RuInv PROVE PublishTypeOK
      OBVIOUS
    <2>1. ASSUME NEW c \in Clients
          PROVE  /\ Failed(rcCall[c].result) =>
                       rcCall[c].result.error \in RemoteConfigCodes \cup AppErrors
                 /\ rcCall[c].attempts \in 0..MaxAttempts
                 /\ held[c].time \in {"none", "utc"}
      BY DEF TellsInv, Tells, ResultTells
    <2>2. ASSUME NEW c \in Clients PROVE held[c].etag \in {ETag(n) : n \in 1..Newest}
      BY DEF SeenInv, HeldOK, HeldSeen, Seen
    <2>3. ASSUME NEW c \in Clients
          PROVE  /\ Failed(ruCall[c].result) =>
                       ruCall[c].result.error \in SecurityRulesCodes \cup AppErrors
                 /\ ruCall[c].attempts \in 0..MaxAttempts
      BY DEF RuInv, RuTells, RuResult, RuForm
    <2>4. \A r \in Releases : release[r] = 0 \/ Exists(release[r])
      BY DEF RuInv, RuServer
    <2> QED
      BY <2>1, <2>2, <2>3, <2>4 DEF PublishTypeOK
  <1> QED
    BY <1>1, AllInv, PTL
=============================================================================
