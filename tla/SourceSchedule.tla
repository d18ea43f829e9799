--------------------------- MODULE SourceSchedule ---------------------------
(***************************************************************************)
(* The recurring crawls of the external Sources: crawl_control.py and the  *)
(* schedule that source_state.py keeps on the Source row.  Celery Beat     *)
(* starts dispatch_scheduled_crawls every minute; nothing keeps two of     *)
(* these tasks apart, and each reads the time once, when it starts, lists  *)
(* the due Sources without a lock and serves them one transaction each.    *)
(*                                                                         *)
(* Time is counted in the hours of the schedule.  What submit_request does *)
(* with a crawl is in SourcePublication; from here it is accepted or not.  *)
(***************************************************************************)
EXTENDS Naturals, FiniteSets

CONSTANTS
    Source,       \* 1..n: the primary keys order Sources due at the same time
    Dispatcher,   \* tasks that may run at once
    Form,         \* forms of the schedule that Operators have open
    Interval,     \* the intervals offered, in hours
    BatchSize,    \* Sources that one task serves: 100 in the code
    MaxTime,      \* bound: the clock
    MaxRevision,  \* bound: crawl_schedule_revision
    MaxChanges,   \* bound: changes of a Source's state from elsewhere
    MaxKilled     \* bound: tasks killed at their time limit or with a worker

ASSUME ScheduleAssumption ==
    /\ Source \subseteq Nat /\ Interval \subseteq Nat \ {0} /\ BatchSize \in Nat \ {0}
    /\ MaxTime \in Nat \ {0} /\ MaxRevision \in Nat

VARIABLES
    time,         \* timezone.now()
    schedule,     \* the crawl columns of each Source
    operation,    \* what else decides whether a Source may be crawled
    task,         \* the dispatch tasks: their `now` and the Sources listed
    form,         \* the Source, revision and interval that a form shows
    crawls,       \* history: changes its value with each scheduled dispatch
    last,         \* history: the time of the latest one, or when it was set
    changes, killed

scheduleVars == <<time, schedule, operation, task, form, crawls, last, changes, killed>>

Schedule == [every : Interval \cup {0}, next : Nat, revision : 0..MaxRevision, error : BOOLEAN]

(* assigned: an assignment with an approved profile is active; ready: all   *)
(* else that control_crawl and submit_request ask for (a responsible        *)
(* Operator with the capability, the representative, the active version, no *)
(* exclusion of the website, an address that resolves).                     *)
Operation == [paused : BOOLEAN, assigned : BOOLEAN, ready : BOOLEAN]

Idle == [busy |-> FALSE, now |-> 0, todo |-> {}]

ScheduleInit ==
    /\ time = 1
    /\ schedule = [s \in Source |-> [every |-> 0, next |-> 0, revision |-> 0, error |-> FALSE]]
    /\ operation \in [Source -> {[paused |-> FALSE, assigned |-> TRUE, ready |-> r] :
                                    r \in BOOLEAN}]
    /\ task = [d \in Dispatcher |-> Idle]
    /\ form \in [Form -> {[source |-> s, revision |-> 0, every |-> 0] : s \in Source}]
    /\ crawls = [s \in Source |-> FALSE] /\ last = [s \in Source |-> 0]
    /\ changes = 0 /\ killed = 0

history == <<crawls, last>>
surroundings == <<operation, changes>>

-----------------------------------------------------------------------------
(* The responsible Operator.                                                *)

OpenForm(f, s) ==
    /\ form' = [form EXCEPT ![f] = [source |-> s, revision |-> schedule[s].revision,
                                    every |-> schedule[s].every]]
    /\ UNCHANGED <<time, schedule, task, history, surroundings, killed>>

\* set_crawl_schedule; no `next` is 0 here
WithInterval(s, every) ==
    [every |-> every, next |-> IF every = 0 THEN 0 ELSE time + every,
     revision |-> schedule[s].revision + 1, error |-> FALSE]

\* control_crawl with "schedule"
SetSchedule(f, every) ==
    LET s == form[f].source IN
    /\ operation[s].assigned
    /\ form[f].revision = schedule[s].revision
    /\ schedule[s].revision < MaxRevision
    /\ schedule' = [schedule EXCEPT ![s] = WithInterval(s, every)]
    /\ last' = [last EXCEPT ![s] = time]
    /\ UNCHANGED <<time, crawls, task, form, surroundings, killed>>

(* change_processing, a revocation or a later assignment, and whatever else *)
(* a crawl depends on change under the lock of the Source.                  *)
ChangeOperation(s) ==
    /\ changes < MaxChanges /\ changes' = changes + 1
    /\ \/ operation' = [operation EXCEPT ![s].paused = ~@]
       \/ operation' = [operation EXCEPT ![s].assigned = ~@]
       \/ operation' = [operation EXCEPT ![s].ready = ~@]
    /\ UNCHANGED <<time, schedule, task, form, history, killed>>

HourPasses ==
    /\ time < MaxTime /\ time' = time + 1
    /\ UNCHANGED <<schedule, task, form, history, surroundings, killed>>

-----------------------------------------------------------------------------
(* dispatch_due_crawls.                                                     *)

Scheduled(s, now) == schedule[s].every # 0 /\ schedule[s].next # 0 /\ schedule[s].next <= now

Listable == {s \in Source : /\ Scheduled(s, time)
                            /\ ~operation[s].paused /\ operation[s].assigned}

Before(s, t) == \/ schedule[s].next < schedule[t].next
                \/ schedule[s].next = schedule[t].next /\ s <= t

\* the first of a list of Sources in the order of next_crawl_at
First(S) == {s \in S : Cardinality({t \in S : Before(t, s)}) <= BatchSize}

StartTask(d) ==
    /\ ~task[d].busy /\ Listable # {}
    /\ task' = [task EXCEPT ![d] = [busy |-> TRUE, now |-> time, todo |-> First(Listable)]]
    /\ UNCHANGED <<time, schedule, form, history, surroundings, killed>>

\* the task of which Source s was the next, ended with the last one
Without(t, s) == IF t.todo = {s} THEN Idle ELSE [t EXCEPT !.todo = @ \ {s}]

Served(d, s) == task' = [task EXCEPT ![d] = Without(@, s)]

StillDue(d, s) == Scheduled(s, task[d].now) /\ ~operation[s].paused

\* another task, a pause or a new schedule came first
Skip(d, s) ==
    /\ s \in task[d].todo /\ ~StillDue(d, s)
    /\ Served(d, s)
    /\ UNCHANGED <<time, schedule, form, history, surroundings, killed>>

\* Mutant: the intervals that were missed are made up for.
IntervalLater(d, s, accepted) ==
    [schedule[s] EXCEPT !.next = @ + schedule[s].every, !.error = ~accepted]
\* Mutant: only an accepted crawl advances the schedule.
IfAccepted(d, s, accepted) ==
    [schedule[s] EXCEPT !.next = IF accepted THEN task[d].now + schedule[s].every ELSE @,
                        !.error = ~accepted]

\* record_crawl_outcome
Outcome(d, s, accepted) ==
    [schedule[s] EXCEPT !.next = task[d].now + schedule[s].every, !.error = ~accepted]

(* control_crawl with "run" for the responsible Operator, in a savepoint:   *)
(* one that is refused still counts as this interval's.                     *)
Dispatch(d, s) ==
    LET accepted == operation[s].assigned /\ operation[s].ready IN
    /\ s \in task[d].todo /\ StillDue(d, s)
    /\ schedule' = [schedule EXCEPT ![s] = Outcome(d, s, accepted)]
    /\ crawls' = [crawls EXCEPT ![s] = ~@]
    /\ last' = [last EXCEPT ![s] = task[d].now]
    /\ Served(d, s)
    /\ UNCHANGED <<time, form, surroundings, killed>>

Kill(d) ==
    /\ task[d].busy
    /\ killed < MaxKilled /\ killed' = killed + 1
    /\ task' = [task EXCEPT ![d] = Idle]
    /\ UNCHANGED <<time, schedule, form, history, surroundings>>

Serve == \E d \in Dispatcher, s \in Source : Skip(d, s) \/ Dispatch(d, s)

ScheduleNext ==
    \/ \E f \in Form, s \in Source : OpenForm(f, s)
    \/ \E f \in Form, every \in Interval \cup {0} : SetSchedule(f, every)
    \/ \E s \in Source : ChangeOperation(s)
    \/ HourPasses
    \/ \E d \in Dispatcher : StartTask(d) \/ Kill(d)
    \/ Serve

(* Beat starts the task again every minute and a task that was started goes *)
(* on to its next Source; the clock need not advance.                       *)
ScheduleFairness ==
    /\ \A d \in Dispatcher : WF_scheduleVars(StartTask(d))
    /\ \A d \in Dispatcher, s \in Source : WF_scheduleVars(Skip(d, s) \/ Dispatch(d, s))

ScheduleSpec == ScheduleInit /\ [][ScheduleNext]_scheduleVars /\ ScheduleFairness

-----------------------------------------------------------------------------
(* Properties.                                                              *)

\* Every column, task and form has its type, and a schedule that is off has no
\* next crawl.
ScheduleTypeOK ==
    /\ time \in 1..MaxTime
    /\ schedule \in [Source -> Schedule]
    /\ \A s \in Source : schedule[s].next # 0 => schedule[s].every # 0
    /\ operation \in [Source -> Operation]
    /\ \A d \in Dispatcher : /\ task[d].now \in 0..time
                             /\ task[d].todo \subseteq Source
                             /\ task[d].busy <=> task[d].todo # {}
    /\ form \in [Form -> [source : Source, revision : 0..MaxRevision,
                          every : Interval \cup {0}]]

\* A Source is crawled by its schedule a full interval after the crawl before
\* it, or after the schedule was set, as the tasks tell the time: however many
\* of them listed it at once, however late they come to it and however many
\* intervals were missed.
AnIntervalApart ==
    [][\A s \in Source :
          crawls'[s] # crawls[s]
             => last'[s] >= last[s] + schedule[s].every]_scheduleVars

\* A Source that is paused keeps its schedule, also from a task that had listed
\* it before the pause: it is due when processing resumes.
PauseKeepsTheSchedule ==
    [][\A s \in Source :
          operation[s].paused /\ schedule'[s] # schedule[s]
             => schedule'[s].revision # schedule[s].revision]_scheduleVars

\* A schedule is replaced only from a form that shows the one in force.
ReplacedAsSeen ==
    [][\A s \in Source :
          schedule'[s].every # schedule[s].every
             => \E f \in Form : form[f].source = s /\ form[f].every = schedule[s].every
                                /\ form[f].revision = schedule[s].revision]_scheduleVars

Due(s) == Scheduled(s, time) /\ ~operation[s].paused /\ operation[s].assigned

\* A due Source gets its turn though tasks serve only the first few and Sources
\* before it are refused every time.
DueGetsItsTurn == \A s \in Source : Due(s) ~> ~Due(s)

\* A schedule runs as it was set, pauses as it stands and is replaced as seen.
ScheduleHolds ==
    /\ []ScheduleTypeOK
    /\ AnIntervalApart /\ PauseKeepsTheSchedule /\ ReplacedAsSeen
=============================================================================
