--------------------------- MODULE MCSourceControl ---------------------------
(***************************************************************************)
(* SourceSchedule, SourceNotices and SourceBulk on small instances.  They  *)
(* share nothing but the lock of the Source, so each bound lets one of     *)
(* them run while the others rest in an initial state.                     *)
(***************************************************************************)
EXTENDS SourceSchedule, SourceNotices, SourceBulk

VARIABLE bound

Controlled == <<scheduleVars, noticeVars, bulkVars>>

(* schedule: one Source under two tasks, or two Sources that one task serves *)
(* one at a time.  notices: two tasks at once, or three runs.  bulk: a token *)
(* while the Source changes, a token for two pages, or two tokens for one.   *)
(* batch: lists opened before and after a page is extracted anew.            *)
Bounds ==
    {[part |-> "schedule", sources |-> 1, tasks |-> {"d1", "d2"}, time |-> 4,
      revisions |-> 2, changes |-> 1, killed |-> 1],
     [part |-> "schedule", sources |-> 2, tasks |-> {"d1"}, time |-> 3,
      revisions |-> 1, changes |-> 1, killed |-> 0],
     [part |-> "notices", runs |-> 2, tasks |-> {"d1", "d2"}],
     [part |-> "notices", runs |-> 3, tasks |-> {"d1"}],
     [part |-> "bulk", pages |-> {1}, tokens |-> {1}, desk |-> 2, rules |-> 2, versions |-> 2,
      leases |-> FALSE],
     [part |-> "bulk", pages |-> {1, 2}, tokens |-> {1}, desk |-> 0, rules |-> 1, versions |-> 1,
      leases |-> TRUE],
     [part |-> "bulk", pages |-> {1}, tokens |-> {1, 2}, desk |-> 0, rules |-> 1, versions |-> 1,
      leases |-> TRUE],
     [part |-> "batch", pages |-> {1, 2}, tokens |-> {}, desk |-> 0, rules |-> 1, versions |-> 2,
      leases |-> TRUE]}

WithinSchedule ==
    /\ time' <= bound.time /\ changes' <= bound.changes /\ killed' <= bound.killed
    /\ \A s \in Source : s > bound.sources
          => UNCHANGED <<schedule[s], operation[s]>> /\ \A f \in Form : form'[f].source # s
    /\ \A s \in Source : schedule'[s].revision <= bound.revisions
    /\ \A d \in Dispatcher \ bound.tasks : UNCHANGED task[d]

WithinNotices ==
    /\ \A d \in Deliverer \ bound.tasks : UNCHANGED delivery[d]
    /\ \A r \in Run : r > bound.runs => UNCHANGED health[r]

WithinBulk ==
    /\ \A p \in Page \ bound.pages : UNCHANGED page[p] /\ p \notin leased' \cup restricted'
    /\ \A t \in Token : token'[t] # Unused => /\ t \in bound.tokens
                                              /\ token'[t].pages \subseteq bound.pages
    /\ bound.leases \/ leased' = {}
    /\ steps'.desk <= bound.desk /\ steps'.rules <= bound.rules
    /\ \A p \in Page : page'[p].version <= bound.versions
    /\ bound.part = "bulk" => UNCHANGED shown

MCInit ==
    /\ bound \in Bounds
    /\ ScheduleInit /\ NoticesInit /\ BulkInit
    /\ bound.part # "schedule"
          => \A s \in Source : operation[s].ready /\ \A f \in Form : form[f].source = 1
    /\ bound.part = "schedule"
          => \A s \in Source : s > bound.sources
                => operation[s].ready /\ \A f \in Form : form[f].source # s
    /\ bound.part # "notices" => reachable
    /\ bound.part \in {"schedule", "notices"}
          => desk.responsible = 1 /\ \A p \in Page : page[p].state = "none"
    /\ bound.part \in {"bulk", "batch"}
          => \A p \in Page \ bound.pages : page[p].state = "none"

MCNext ==
    /\ UNCHANGED bound
    /\ \/ /\ bound.part = "schedule" /\ ScheduleNext /\ WithinSchedule
          /\ UNCHANGED <<noticeVars, bulkVars>>
       \/ /\ bound.part = "notices" /\ NoticesNext /\ WithinNotices
          /\ UNCHANGED <<scheduleVars, bulkVars>>
       \/ /\ bound.part \in {"bulk", "batch"} /\ BulkNext /\ WithinBulk
          /\ UNCHANGED <<scheduleVars, noticeVars>>

(* ScheduleFairness and NoticesFairness of the part that runs.              *)
Works(part, d) == bound.part = part /\ d \in bound.tasks

MCFairness ==
    /\ \A d \in Dispatcher :
          /\ WF_scheduleVars(Works("schedule", d) /\ StartTask(d))
          /\ \A s \in Source :
                WF_scheduleVars(Works("schedule", d) /\ (Skip(d, s) \/ Dispatch(d, s)))
    /\ WF_noticeVars(bound.part = "notices" /\ Midnight)
    /\ \A d \in Deliverer :
          /\ WF_noticeVars(Works("notices", d) /\ StartDelivery(d))
          /\ WF_noticeVars(Works("notices", d) /\ (Deliver(d) \/ RepeatedDate(d)))

MCSpec == MCInit /\ [][MCNext]_<<Controlled, bound>> /\ MCFairness

-----------------------------------------------------------------------------
\* Due Sources, summaries and failures all get their turn.
ControlGoesOn == DueGetsItsTurn /\ SummariesArrive /\ FailuresArrive
=============================================================================
