---------------------------- MODULE SourceRepairs ----------------------------
(* SourceCase with a history of the repairs that are waiting for the model:  *)
(* those during which the case was not always with the operator who asked    *)
(* for them.                                                                 *)
EXTENDS SourceCase

VARIABLE estranged

repairVars == <<vars, estranged>>

\* Whose case it is in the next state is what a transfer leaves behind.
Estrange ==
    estranged' = {p \in repairs' : p \in estranged \/ row'[p.case].responsible # p.by}

RepairsInit == Init /\ estranged = {}
RepairsNext == Next /\ Estrange
RepairsSpec == RepairsInit /\ [][RepairsNext]_repairVars

\* The model's answer becomes a version only if the operator who asked for it
\* has been responsible for the case ever since: not if it was with another
\* one meanwhile (docs/development.md: "responsibility_revision protects
\* transfers and in-flight profile repair").
RepairsKeepTheirReview ==
    [][\A p \in repairs \ repairs' : version' # version => p \notin estranged]_repairVars

\* Workers and repairs act on a case only as it is when they come to it.
WorkersKeepToTheCase == LateWorkersLeaveTheCase /\ RepairsKeepTheirReview
=============================================================================
