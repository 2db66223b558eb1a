--------------------------- MODULE MessageRequests ----------------------------
(***************************************************************************)
(* validateMessage() of src/messaging/messaging-internal.ts and the        *)
(* validators of the older payloads in messaging.ts.  They change the      *)
(* object that they are given: names and values become those of the        *)
(* server.  A payload is a function from its parts to the form each is in. *)
(***************************************************************************)

\* none: left out; caller: as the SDK documents it; wire: as the server wants it;
\* both: a property under both names; bad: of the wrong type.
Forms == {"none", "caller", "wire", "both", "bad"}

\* What is only renamed, what is converted, and what is neither.
AndroidParts == {"ttl", "androidNames", "androidNotification", "lightSettings"}
ApnsParts == {"apsNames", "apsAlert", "apsSound", "apnsFcmOptions"}
Parts == AndroidParts \cup ApnsParts \cup {"data", "notification", "fcmOptions"}

-----------------------------------------------------------------------------
\* validateStringMap(), of data and of webpush; nothing is converted.
DataRefused(p) == p["data"] = "bad"

\* validateAndroidConfig(): the time to live is a number of milliseconds before,
\* and a string of seconds after, under the same name.
AndroidConfigRefused(p) == p["ttl"] \in {"wire", "bad"} \/ p["androidNames"] = "bad"

\* validateAndroidNotification(): times and vibrations are renamed as they are
\* converted; under the server's names they are not looked at.
AndroidNotificationRefused(p) == p["androidNotification"] = "bad"

\* validateLightSettings(), reached under the caller's name only.
LightSettingsRefused(p) == p["lightSettings"] = "bad"

\* validateAps(): properties of aps under both names are refused.
ApsRefused(p) == p["apsNames"] \in {"both", "bad"}

ApsSoundRefused(p) == p["apsSound"] = "bad"

ApsAlertRefused(p) == p["apsAlert"] = "bad"

\* validateApnsFcmOptions(): so is the image.
ApnsFcmOptionsRefused(p) == p["apnsFcmOptions"] \in {"both", "bad"}

\* validateNotification(): and here.
NotificationRefused(p) == p["notification"] \in {"both", "bad"}

\* validateFcmOptions(), validateAndroidFcmOptions().
FcmOptionsRefused(p) == p["fcmOptions"] = "bad"

\* validateMessage(): one target, and every part is valid.
ValidateMessage(target, p) ==
    /\ target
    /\ ~DataRefused(p)
    /\ ~AndroidConfigRefused(p) /\ ~AndroidNotificationRefused(p)
    /\ ~LightSettingsRefused(p)
    /\ ~ApsRefused(p) /\ ~ApsSoundRefused(p) /\ ~ApsAlertRefused(p)
    /\ ~ApnsFcmOptionsRefused(p) /\ ~NotificationRefused(p) /\ ~FcmOptionsRefused(p)

\* What it leaves in the message: renameProperties() moves what the caller named,
\* over what the server's name held.  The keys of data are the caller's own.
RenameProperties(form) == IF form \in {"caller", "both"} THEN "wire" ELSE form

ConvertMessage(p) ==
    [part \in DOMAIN p |-> IF part = "data" THEN p[part] ELSE RenameProperties(p[part])]

-----------------------------------------------------------------------------
\* validateMessagingPayload(), of the payloads of sendToDevice() and its kin: data or
\* a notification, and nothing else; of two names the caller's wins, here too.
LegacyParts == {"data", "notification"}

ValidateMessagingPayload(p) ==
    /\ \A part \in Parts \ (LegacyParts \cup {"fcmOptions"}) : p[part] = "none"
    /\ \E part \in LegacyParts : p[part] # "none"
    /\ \A part \in LegacyParts : p[part] # "bad"

\* validateMessagingOptions(), of the options, which "fcmOptions" stands for.
ValidateMessagingOptions(p) == p["fcmOptions"] # "bad"
=============================================================================
