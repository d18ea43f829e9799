---------------------------- MODULE SourceNotices ----------------------------
(***************************************************************************)
(* What the responsible Operator of a Source is told about its extraction: *)
(* exception_notifications.py.  Completed runs record their health and     *)
(* count the pages that broke or recovered; a task, which Celery Beat      *)
(* starts every five minutes, sends one summary a day and the failure      *)
(* notices that found nobody when they arose.  Runs complete in any order; *)
(* they are numbered in the order (created_at, id, attempts) of their      *)
(* requests.  Completion and delivery hold the Source row.                 *)
(***************************************************************************)
EXTENDS Naturals, FiniteSets

CONSTANTS
    MaxRuns,      \* bound: runs of the Source, in the order of their requests
    MaxDays,      \* bound: days
    Deliverer,    \* tasks that may run at once
    MaxHandovers  \* bound: the Operator leaves or returns

ASSUME NoticesAssumption == MaxRuns \in Nat /\ MaxDays \in Nat \ {0} /\ MaxHandovers \in Nat

VARIABLES
    day,          \* timezone.localdate()
    reachable,    \* eligible_assignment: an Operator to tell, of an active assignment
    record,       \* SourceExceptionNotificationState
    summaries,    \* the dates of the SourceExceptionNotice summaries, a unique column
    delivery,     \* the tasks: 0, or the day they began on
    health,       \* the runs that recorded their health
    counted,      \* history: changes counted
    told,         \* history: changes that a summary told
    alerts,       \* history: failure notices since the Source began to fail
    handovers

noticeVars == <<day, reachable, record, summaries, delivery, health, counted, told,
                alerts, handovers>>

Run == 1..MaxRuns
Record == [pending : Nat, lastDay : 0..MaxDays, failing : BOOLEAN, notified : BOOLEAN,
           newest : 0..MaxRuns]

NoticesInit ==
    /\ day = 1
    /\ reachable \in BOOLEAN
    /\ record = [pending |-> 0, lastDay |-> 0, failing |-> FALSE, notified |-> FALSE,
                 newest |-> 0]
    /\ summaries = {}
    /\ delivery = [d \in Deliverer |-> 0]
    /\ health = [r \in Run |-> "none"]
    /\ counted = 0 /\ told = 0 /\ alerts = 0 /\ handovers = 0

-----------------------------------------------------------------------------
(* deliver_failure on a state of the record: a notice for an Operator who   *)
(* can be told, once while the Source keeps failing.                        *)

Alerting(state) == reachable /\ state.failing /\ ~state.notified

Alerted(state) == IF Alerting(state) THEN [state EXCEPT !.notified = TRUE] ELSE state

\* record_run_health up to its delivery
Healthy(state, r, ok) ==
    IF r <= state.newest THEN state
    ELSE [state EXCEPT !.newest = r, !.failing = ~ok, !.notified = @ /\ ~ok]

\* Mutant: what is waiting is replaced.
CountedAlone(state, n) == [state EXCEPT !.pending = n]

\* aggregate_changes
Counting(state, n) == [state EXCEPT !.pending = @ + n]

(* The completion of a run that fetched any page: n pages broke or          *)
(* recovered, and it is healthy when it gave anything usable.  A run older  *)
(* than the newest is ignored before its failure is considered.             *)
CompleteRun(r, ok, n) ==
    LET before == Counting(record, n)
        after == Healthy(before, r, ok)
        considered == after.newest = r
    IN  /\ health[r] = "none"
        /\ health' = [health EXCEPT ![r] = IF ok THEN "usable" ELSE "useless"]
        /\ record' = IF considered THEN Alerted(after) ELSE after
        /\ alerts' = (IF after.failing /\ ~record.failing THEN 0 ELSE alerts)
                        + (IF considered /\ Alerting(after) THEN 1 ELSE 0)
        /\ counted' = counted + n
        /\ UNCHANGED <<day, reachable, summaries, delivery, told, handovers>>

\* a run that fetched nothing says nothing about the Source's health
CompleteUnattempted(r, n) ==
    /\ health[r] = "none"
    /\ health' = [health EXCEPT ![r] = "unknown"]
    /\ record' = Counting(record, n)
    /\ counted' = counted + n
    /\ UNCHANGED <<day, reachable, summaries, delivery, told, alerts, handovers>>

\* responsibility changes hands, an Operator loses the capability, the
\* assignment ends or begins
Handover ==
    /\ handovers < MaxHandovers /\ handovers' = handovers + 1
    /\ reachable' = ~reachable
    /\ UNCHANGED <<day, record, summaries, delivery, health, counted, told, alerts>>

Midnight ==
    /\ day < MaxDays /\ day' = day + 1
    /\ UNCHANGED <<reachable, record, summaries, delivery, health, counted, told, alerts,
                   handovers>>

-----------------------------------------------------------------------------
(* deliver_summaries.                                                       *)

ListedIn(state) ==
    \/ state.lastDay < day /\ state.pending > 0
    \/ state.failing /\ ~state.notified

StartDelivery(d) ==
    /\ delivery[d] = 0 /\ ListedIn(record)
    /\ delivery' = [delivery EXCEPT ![d] = day]
    /\ UNCHANGED <<day, reachable, record, summaries, health, counted, told, alerts, handovers>>

\* `today` is the day on which the task began
SummaryDue(d) == reachable /\ record.pending > 0 /\ record.lastDay # delivery[d]

Summarized(state, d) == [state EXCEPT !.pending = 0, !.lastDay = delivery[d]]

(* A summary of a day that has one already ends the task with an error, and *)
(* the transaction takes back the failure notice too.                       *)
Deliver(d) ==
    /\ delivery[d] # 0
    /\ delivery' = [delivery EXCEPT ![d] = 0]
    /\ IF ~SummaryDue(d)
       THEN /\ record' = Alerted(record)
            /\ UNCHANGED <<summaries, told>>
       ELSE /\ delivery[d] \notin summaries
            /\ record' = Summarized(Alerted(record), d)
            /\ summaries' = summaries \cup {delivery[d]}
            /\ told' = told + record.pending
    /\ alerts' = alerts + (IF Alerting(record) THEN 1 ELSE 0)
    /\ UNCHANGED <<day, reachable, health, counted, handovers>>

RepeatedDate(d) ==
    /\ delivery[d] # 0 /\ SummaryDue(d) /\ delivery[d] \in summaries
    /\ delivery' = [delivery EXCEPT ![d] = 0]
    /\ UNCHANGED <<day, reachable, record, summaries, health, counted, told, alerts, handovers>>

NoticesNext ==
    \/ \E r \in Run, ok \in BOOLEAN, n \in 0..1 : CompleteRun(r, ok, n)
    \/ \E r \in Run, n \in 0..1 : CompleteUnattempted(r, n)
    \/ Handover
    \/ Midnight
    \/ \E d \in Deliverer : StartDelivery(d) \/ Deliver(d) \/ RepeatedDate(d)

(* Beat starts the task again, a task goes on, and days pass.               *)
NoticesFairness ==
    /\ WF_noticeVars(Midnight)
    /\ \A d \in Deliverer : /\ WF_noticeVars(StartDelivery(d))
                            /\ WF_noticeVars(Deliver(d) \/ RepeatedDate(d))

NoticesSpec == NoticesInit /\ [][NoticesNext]_noticeVars /\ NoticesFairness

-----------------------------------------------------------------------------
(* Properties.                                                              *)

\* Everything kept about the notices of a Source has its type.
NoticesTypeOK ==
    /\ day \in 1..MaxDays
    /\ record \in Record
    /\ summaries \subseteq 1..day
    /\ delivery \in [Deliverer -> 0..day]
    /\ health \in [Run -> {"none", "unknown", "usable", "useless"}]

\* Every page that broke or recovered is told in exactly one summary or waits
\* for the next one, whoever was there to be told in between.
EveryChangeIsToldOnce == counted = told + record.pending

\* The Source counts as failing when the newest of its completed runs gave
\* nothing usable, in whichever order the runs came to their end.
HealthIsOfTheNewestRun ==
    \A r \in Run :
       /\ health[r] \in {"usable", "useless"}
       /\ \A q \in Run : health[q] \in {"usable", "useless"} => q <= r
       => (record.failing <=> health[r] = "useless")

\* While a Source keeps failing its Operator is told once, however many of its
\* runs fail, however many tasks deliver and however often it changes hands.
FailureIsToldOnce == alerts <= 1

\* What was counted before the last day is told, unless there is nobody to tell.
SummariesArrive == (record.pending > 0 /\ day < MaxDays) ~> (record.pending = 0 \/ ~reachable)

\* A failure that arose while nobody could be told is told when somebody can.
FailuresArrive ==
    (record.failing /\ ~record.notified /\ day < MaxDays)
       ~> (~record.failing \/ record.notified \/ ~reachable)

\* An Operator hears of every change once and of nothing that is not so.
NoticesAreSound ==
    NoticesTypeOK /\ EveryChangeIsToldOnce /\ HealthIsOfTheNewestRun /\ FailureIsToldOnce
=============================================================================
