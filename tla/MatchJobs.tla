------------------------------ MODULE MatchJobs ------------------------------
(***************************************************************************)
(* How the suggestions are kept up beside the decisions about them: jobs   *)
(* for single Properties and the nights (MatchMaintenance), and operations *)
(* on the whole catalog (MatchOperation).  Each is modelled on state of    *)
(* its own, and any steps of the two may come between each other.          *)
(***************************************************************************)
EXTENDS MatchMaintenance, MatchOperation

JobsSpec == MaintenanceSpec /\ OperationSpec

\* Changes are followed up and nights work alone; operations reach everything
\* once and leave no group with a measurement of what it was before.
JobsAreSound ==
    /\ MaintenanceTypeOK /\ ChangesAreFollowedUp /\ ReconciledAlone
    /\ OperationTypeOK /\ OperationCovers /\ ConsistencyIsCurrent

\* Every change is compared and every operation ends, though messages, workers
\* and cache keys are lost and errors stop a chain.
JobsEnd == ChangesAreMeasured /\ OperationEnds
=============================================================================
