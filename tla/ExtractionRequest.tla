------------------------- MODULE ExtractionRequest -------------------------
(***************************************************************************)
(* What an Extraction Request promises, however its deliveries, workers    *)
(* and attempts go: a bounded number of attempts, results kept at most     *)
(* once and only under the authority of the request, and an end that       *)
(* nothing reopens except another attempt of a failed one.                 *)
(* SourcePublication knows a request by the same states.                   *)
(***************************************************************************)
EXTENDS Naturals

CONSTANT MaxAttempts

VARIABLES state,      \* "open", "complete", "failed" or "cancelled"
          attempts,   \* attempts begun
          authorized, \* the request's assignment, version and revision hold
          kept        \* how often results were kept

request == <<state, attempts, authorized, kept>>

Init == state = "open" /\ attempts = 0 /\ authorized = TRUE /\ kept = 0

Attempt ==
    /\ state \in {"open", "failed"} /\ attempts < MaxAttempts
    /\ state' = "open" /\ attempts' = attempts + 1
    /\ UNCHANGED <<authorized, kept>>

\* results are kept; at least one attempt made them
Succeed ==
    /\ state = "open" /\ attempts > 0 /\ authorized
    /\ state' = "complete" /\ kept' = kept + 1
    /\ UNCHANGED <<attempts, authorized>>

Fail ==
    /\ state = "open" /\ attempts > 0
    /\ state' = "failed"
    /\ UNCHANGED <<attempts, authorized, kept>>

EndAuthority ==
    /\ authorized' = FALSE
    /\ UNCHANGED <<state, attempts, kept>>

\* by a worker, or together with the end of the authority
Cancel ==
    /\ state \in {"open", "failed"}
    /\ state' = "cancelled" /\ authorized' \in {authorized, FALSE}
    /\ UNCHANGED <<attempts, kept>>

Next == Attempt \/ Succeed \/ Fail \/ EndAuthority \/ Cancel

Spec == Init /\ [][Next]_request
=============================================================================
