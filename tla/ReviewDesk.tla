----------------------------- MODULE ReviewDesk -----------------------------
(***************************************************************************)
(* What the review of a Submission promises, without claims, expiry,       *)
(* transactions or sweeps (CONTEXT.md: a Review Claim is "a time-limited   *)
(* assignment giving one Operator responsibility for a Submission Review"; *)
(* submissions/services.py implements it).  A desk has at most one         *)
(* responsible Operator, who alone can decide the revision lying on it.    *)
(***************************************************************************)
EXTENDS Naturals

CONSTANTS Operators, Submitter, Nobody, MaxRevision

VARIABLES
    phase,     \* where the current revision is
    revision,  \* the current revision
    holder,    \* the Operator responsible for it, or Nobody
    verdicts   \* every decision made: about which revision, by whom, which

desk == <<phase, revision, holder, verdicts>>

Outcomes == {"changes_requested", "rejected", "published"}

Init == phase = "draft" /\ revision = 1 /\ holder = Nobody /\ verdicts = {}

Submit ==
    /\ phase = "draft" /\ phase' = "pending"
    /\ UNCHANGED <<revision, holder, verdicts>>

Revise ==
    /\ phase \in {"changes_requested", "published"} /\ phase' = "draft"
    /\ revision < MaxRevision /\ revision' = revision + 1
    /\ UNCHANGED <<holder, verdicts>>

\* Responsibility passes to o, from nobody or from an Operator who lost it.
Take(o) ==
    /\ phase = "pending" /\ o # Submitter
    /\ holder' = o
    /\ UNCHANGED <<phase, revision, verdicts>>

Leave ==
    /\ holder # Nobody /\ holder' = Nobody
    /\ UNCHANGED <<phase, revision, verdicts>>

Decide(outcome) ==
    /\ phase = "pending" /\ holder # Nobody
    /\ phase' = outcome
    /\ verdicts' = verdicts \cup
                     {[revision |-> revision, by |-> holder, outcome |-> outcome]}
    /\ holder' = Nobody
    /\ UNCHANGED revision

Next ==
    \/ Submit \/ Revise \/ Leave
    \/ \E o \in Operators : Take(o)
    \/ \E outcome \in Outcomes : Decide(outcome)

Spec == Init /\ [][Next]_desk
=============================================================================
