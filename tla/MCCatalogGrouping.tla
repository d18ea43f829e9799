----------------------------- MODULE MCCatalogGrouping -----------------------------
(* Three Properties and three Listings, the first an Operator's own.  The      *)
(* Listings begin apart, for merges, or two of them together, so that there is *)
(* something to partition; a behaviour keeps to one of three sets of limits.   *)
(* The jobs that have Properties compared again, and the operations on the     *)
(* whole catalog, are behaviours of their own: while one part runs the others  *)
(* rest.  An operation meets troubles, Properties that leave or a group that    *)
(* is changed; jobs either two changes of a Property without faults, or a      *)
(* fault.  Where favourites are saved one Operator decides.                    *)
EXTENDS CatalogGrouping, MatchJobs, TLC

CONSTANTS p1, p2, p3, l1, l2, l3, o1, o2, a1

Apart == l1 :> p1 @@ l2 :> p2 @@ l3 :> p3
Together == l1 :> p1 @@ l2 :> p1 @@ l3 :> p2
ApartOrTogether == {Apart, Together}
OwnedByOne == l1 :> o1 @@ l2 :> None @@ l3 :> None

VARIABLE bound  \* the part that runs and the limits this behaviour keeps to

Limits(part, of) ==
    [part |-> part, of |-> of, home |-> Apart, edits |-> 0, versions |-> 0, savers |-> {}]

Bounds == {[Limits("grouping", "scoring") EXCEPT !.versions = 1],
           [Limits("grouping", "favorites") EXCEPT !.savers = {a1}],
           [Limits("grouping", "partitions") EXCEPT !.home = Together, !.edits = 1],
           Limits("jobs", "changes"), Limits("jobs", "faults"),
           Limits("operation", "troubles"), Limits("operation", "leavers"), Limits("operation", "groups")}

Grouping ==
    /\ bound.part = "grouping" /\ Next
    /\ edits' <= bound.edits /\ scoring' <= bound.versions
    /\ \A a \in Account \ bound.savers : route'[a] = None
    /\ bound.savers # {} => \A c \in claims' : c.by = o1
    /\ UNCHANGED <<maintenanceVars, operationVars, bound>>

Jobs ==
    /\ bound.part = "jobs" /\ MaintenanceNext
    /\ IF bound.of = "changes" THEN faults' = 0 /\ identity'[2] = 0
                               ELSE identity'[1] + identity'[2] <= 1
    /\ UNCHANGED <<vars, operationVars, bound>>

Operations ==
    /\ bound.part = "operation" /\ OperationNext
    /\ bound.of # "troubles" => troubles' = 0
    /\ bound.of # "leavers" => eligible' = eligible
    /\ bound.of # "groups" => edit' = edit
    /\ UNCHANGED <<vars, maintenanceVars, bound>>

allVars == <<vars, maintenanceVars, operationVars, bound>>

(* MaintenanceFairness and OperationFairness of the part that runs.         *)
Fairness ==
    LET jobs == bound.part = "jobs"
        operation == bound.part = "operation"
    IN  /\ \A w \in Worker : /\ WF_maintenanceVars(jobs /\ Focused(w))
                             /\ WF_maintenanceVars(jobs /\ Nightly(w))
        /\ WF_maintenanceVars(jobs /\ AbandonedEnds)
        /\ WF_maintenanceVars(jobs /\ PageKeysEnd)
        /\ \A c \in Clerk : WF_operationVars(operation /\ Serve(c))
        /\ \A r \in Subject : WF_operationVars(operation /\ Commit(r))

MCInit ==
    /\ Init /\ bound \in Bounds /\ home = bound.home
    /\ MaintenanceInit /\ OperationInit

MCSpec == MCInit /\ [][Grouping \/ Jobs \/ Operations]_allVars /\ Fairness
=============================================================================
