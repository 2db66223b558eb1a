--------------------------- MODULE AbstractRequest ---------------------------
(***************************************************************************)
(* What a request promises to its caller, whatever happens on the way: it  *)
(* is attempted a limited number of times and never again once the caller  *)
(* has been told its outcome; any attempt may be carried out, at once,     *)
(* late or never; and the outcome tells no more than is true.              *)
(***************************************************************************)
EXTENDS Integers

CONSTANT MaxAttempts

VARIABLES
    attempts,   \* how many attempts have been made
    executed,   \* those that the server has carried out, numbered from 0
    outcome     \* what the caller has been told

vars == <<attempts, executed, outcome>>

Init ==
    /\ attempts = 0
    /\ executed = {}
    /\ outcome = "pending"

\* One more attempt, as long as somebody waits for it.
Attempt ==
    /\ outcome = "pending" /\ attempts < MaxAttempts
    /\ attempts' = attempts + 1
    /\ UNCHANGED <<executed, outcome>>

\* The server carries out an attempt that was made, perhaps after the caller has
\* been told that it failed, and perhaps after a later one.
Execute(n) ==
    /\ n \in 0 .. attempts - 1 /\ n \notin executed
    /\ executed' = executed \cup {n}
    /\ UNCHANGED <<attempts, outcome>>

\* The caller gets the answer to the last attempt, which was carried out.
Fulfil ==
    /\ outcome = "pending" /\ attempts > 0 /\ attempts - 1 \in executed
    /\ outcome' = "response"
    /\ UNCHANGED <<attempts, executed>>

\* The caller gets an error: the attempts were used up with one that has timed out;
\* no attempt was made, and none will be; or there was one that failed, of which the
\* caller does not know whether it was carried out.
Fail ==
    /\ outcome = "pending"
    /\ \/ outcome' = "timeout" /\ attempts = MaxAttempts
       \/ outcome' = "unsent" /\ attempts = 0
       \/ outcome' = "error" /\ attempts > 0
    /\ UNCHANGED <<attempts, executed>>

Next == Attempt \/ (\E n \in 0 .. MaxAttempts - 1 : Execute(n)) \/ Fulfil \/ Fail

Spec == Init /\ [][Next]_vars
=============================================================================
