-------------------------- MODULE AbstractOperation --------------------------
(***************************************************************************)
(* What a call that starts a long-running operation, or waits for one,     *)
(* promises to its caller: operations go from running to one result, and   *)
(* the call has one outcome, which tells the truth about an operation.     *)
(***************************************************************************)
CONSTANTS Operations, NoOperation

VARIABLES
    operation,  \* the operations, as the service knows them
    outcome     \* what the caller has been told

vars == <<operation, outcome>>

Finished == {"succeeded", "failed", "empty"}
Pending == [st |-> "pending", op |-> NoOperation]
Rejected(by) == [st |-> by, op |-> NoOperation]

Init ==
    /\ operation \in [Operations -> {"none", "running"} \cup Finished]
    /\ outcome = Pending

\* The service starts an operation, or finishes it, once and for all.
Advance(o) ==
    /\ operation[o] \in {"none", "running"}
    /\ \E s \in {"running"} \cup Finished : operation' = [operation EXCEPT ![o] = s]
    /\ UNCHANGED outcome

\* The caller gets the result of an operation that has succeeded.
Fulfil(o) ==
    /\ operation[o] = "succeeded"
    /\ outcome = Pending
    /\ outcome' = [st |-> "result", op |-> o]
    /\ UNCHANGED operation

\* The caller gets the resource as it is, though the operation has not ended.
FulfilEarly(o) ==
    /\ operation[o] # "none"
    /\ outcome = Pending
    /\ outcome' = [st |-> "current", op |-> o]
    /\ UNCHANGED operation

\* The caller gets the error of an operation that has failed.
FailWith(o) ==
    /\ operation[o] = "failed"
    /\ outcome = Pending
    /\ outcome' = [st |-> "operation", op |-> o]
    /\ UNCHANGED operation

\* Nothing is said of the operation: a request failed, an answer was not
\* understood, the time was up, or there was nothing to wait for.
GiveUp ==
    /\ outcome = Pending
    /\ \E by \in {"request", "answer", "deadline", "unlocked"} :
           outcome' = Rejected(by)
    /\ UNCHANGED operation

Next ==
    \/ \E o \in Operations : Advance(o) \/ Fulfil(o) \/ FulfilEarly(o) \/ FailWith(o)
    \/ GiveUp

Spec == Init /\ [][Next]_vars
=============================================================================
