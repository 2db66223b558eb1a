----------------------------- MODULE MCBulkCalls ------------------------------
(* Lists of up to three items; payloads with one part that is unusual; hash *)
(* options at the limits of what an algorithm takes.                        *)
EXTENDS BulkCalls

Usual == [p \in Messages!Parts |-> "caller"]
Legacies == [p \in Messages!Parts |->
               IF p \in Messages!LegacyParts \cup {"fcmOptions"} THEN "caller" ELSE "none"]
SomePayloads ==
    {[Usual EXCEPT ![p] = f] : p \in {"apsNames", "androidNames"},
                               f \in {"caller", "wire", "both", "bad"}}
    \cup {[Usual EXCEPT !["ttl"] = f] : f \in {"none", "wire", "bad"}}
    \cup {[Legacies EXCEPT !["data"] = f, !["notification"] = g] :
            f \in {"none", "caller"}, g \in {"none", "caller", "bad"}}
    \cup {[Legacies EXCEPT !["fcmOptions"] = "bad"]}

NoOptions == [algorithm |-> "none", key |-> FALSE, rounds |-> NaN, memoryCost |-> NaN,
              parallelization |-> NaN, blockSize |-> NaN, derivedKeyLength |-> NaN]
SomeHashOptions ==
    {NoOptions,
     [NoOptions EXCEPT !.algorithm = "SCRYPT", !.key = TRUE, !.rounds = 8, !.memoryCost = 14],
     [NoOptions EXCEPT !.algorithm = "SHA256", !.rounds = 0]}
=============================================================================
