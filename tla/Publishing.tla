------------------------------ MODULE Publishing ------------------------------
(***************************************************************************)
(* Clients that publish: templates of remote config, or security rules.    *)
(* The two services share the calls but no state, and a behaviour is about *)
(* one of them.                                                            *)
(***************************************************************************)
EXTENDS RemoteConfig, SecurityRules

VARIABLE service

vars == <<service, rcVars, ruVars>>

Init == RcInit /\ RuInit /\ service \in {"remoteConfig", "securityRules"}

Next ==
    \/ service = "remoteConfig" /\ RcNext /\ UNCHANGED <<service, ruVars>>
    \/ service = "securityRules" /\ RuNext /\ UNCHANGED <<service, rcVars>>

Spec == Init /\ [][Next]_vars

-----------------------------------------------------------------------------
\* A template is never published over one that its publisher had not seen, unless
\* the publisher forces it: not when requests are sent again, not when the template
\* was validated, or read at a version, or went through JSON, before.
NoUnseenOverwrite ==
    \A n \in 2..Newest : ~templates[n].blind => templates[n].saw = n - 1

\* What a call has told its caller was true between the call and the answer.  A
\* template that was published has a content that the object given had since the call,
\* and when that was a plain object, the one it had at the call, however the caller
\* changed it since.  A ruleset that was released, or read from its release, was the
\* one that its release referred to, with the source given.
ResultsHeld ==
    /\ \A c \in Clients :
         rcCall[c].phase = "settled" /\ rcCall[c].op = "publish" /\ IsTemplate(rcCall[c].result) =>
            LET n == rcCall[c].result.etag.of
                k == rcCall[c]
            IN  /\ templates[n].by = c /\ templates[n].content \in k.contents
                /\ k.given.form = "plain" => templates[n].content = k.given.content
    /\ \A c \in Clients :
         ruCall[c].phase = "settled" /\ ~Failed(ruCall[c].result)
           /\ ruCall[c].op \in {"releaseFromSource", "release", "getForRelease"} =>
              /\ ruCall[c].result.ruleset \in ruCall[c].during
              /\ ruCall[c].op = "releaseFromSource" =>
                    rulesets[ruCall[c].result.ruleset].source = ruCall[c].source

\* deepCopy() "returns a deep copy of an object": what is published is the template as
\* it was at the call.  It is not, when the template is of the SDK's own class, as
\* every one that the SDK hands out is, and is changed before the request is sent.
PublishedAsGiven ==
    \A c \in Clients :
        rcCall[c].phase = "settled" /\ rcCall[c].op = "publish" /\ IsTemplate(rcCall[c].result) =>
            templates[rcCall[c].result.etag.of].content = rcCall[c].given.content

\* A refusal is for its reason.  A publish that is refused for its ETag was based on
\* a template that is no longer the newest; a call that is refused for its arguments,
\* or for its project, has created, released and deleted nothing.
RefusalsHold ==
    /\ \A c \in Clients :
         rcCall[c].phase = "settled" /\ rcCall[c].op = "publish"
           /\ rcCall[c].result = Failure("failed-precondition", "server") =>
              rcCall[c].given.saw < Newest
    /\ \A c \in Clients :
         ruCall[c].phase = "settled" /\ Failed(ruCall[c].result)
           /\ ruCall[c].result.by \in {"arguments", "project"} => ~ruCall[c].changed

\* Every error is one of its service's or one that is passed through, every template
\* that a client has shows a time in UTC or none, and a release refers to a ruleset
\* that exists.
PublishTypeOK ==
    /\ \A c \in Clients :
         /\ Failed(rcCall[c].result) => rcCall[c].result.error \in RemoteConfigCodes \cup AppErrors
         /\ Failed(ruCall[c].result) => ruCall[c].result.error \in SecurityRulesCodes \cup AppErrors
         /\ held[c].time \in {"none", "utc"} /\ held[c].etag \in {ETag(n) : n \in 1..Newest}
         /\ rcCall[c].attempts \in 0..MaxAttempts /\ ruCall[c].attempts \in 0..MaxAttempts
    /\ \A r \in Releases : release[r] = 0 \/ Exists(release[r])
=============================================================================
