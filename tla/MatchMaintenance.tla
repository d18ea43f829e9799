-------------------------- MODULE MatchMaintenance --------------------------
(***************************************************************************)
(* How Properties come to be compared again when what identifies them has  *)
(* changed (catalog/match_suggestion_signals.py, catalog/tasks.py).  After *)
(* the commit of a change a job is sent for its Property; a cache key      *)
(* keeps it to one job at a time, and a second key tells the one at work   *)
(* that there was another change.  Every night a chain of tasks goes       *)
(* through all Properties page by page, under a token in the cache.        *)
(*                                                                         *)
(* What a comparison does to the suggestions is in CatalogGrouping.  The   *)
(* nightly chain of the group measurements has the same code.              *)
(***************************************************************************)
EXTENDS Naturals, FiniteSets

CONSTANTS
    Target,       \* 1..n: Properties in the order of their primary keys
    PageSize,     \* Properties that one task of the chain goes through
    Hook,         \* requests whose on_commit hooks may run at once
    Worker,
    Token,        \* tokens of nights that may be about at once
    MaxIdentity,  \* bound: changes of a Property
    MaxQueued,    \* bound: jobs that wait for one Property
    MaxFaults     \* bound: lost processes, refusals, lapses, repetitions

ASSUME MaintenanceAssumption ==
    /\ Target \subseteq Nat \ {0} /\ 0 \notin Token
    /\ PageSize \in Nat \ {0} /\ MaxQueued \in Nat

VARIABLES
    identity,     \* what identifies each Property, by the number of its changes
    measured,     \* the identity that its suggestions were evaluated on
    hook,         \* on_commit hooks under way
    key, dirty,   \* the cache keys of the focused measurements
    queued,       \* jobs waiting for each Property
    worker,
    lock,         \* PROPERTY_MATCH_RECONCILIATION_LOCK: a token, or none
    page,         \* messages of the chain: token and cursor
    processing,   \* cache keys: pages at work
    completed,    \* cache keys: pages done
    missed,       \* history: Properties with a change that nothing follows up
    faults

focus == <<identity, hook, key, dirty, queued, missed>>
night == <<lock, page, processing, completed>>
maintenanceVars == <<focus, night, measured, worker, faults>>

NoToken == 0
NoHook == [target |-> 0, step |-> "none"]
Resting == [task |-> "none", step |-> "none", target |-> 0, seen |-> 0, token |-> NoToken,
            after |-> 0]

MaintenanceInit ==
    /\ identity = [p \in Target |-> 0] /\ measured = [p \in Target |-> 0]
    /\ hook = [h \in Hook |-> NoHook]
    /\ key = {} /\ dirty = {}
    /\ queued = [p \in Target |-> 0]
    /\ worker = [w \in Worker |-> Resting]
    /\ lock = NoToken /\ page = {} /\ processing = {} /\ completed = {}
    /\ missed = {} /\ faults = 0

Fault == faults < MaxFaults /\ faults' = faults + 1

-----------------------------------------------------------------------------
(* _dispatch_focused_measurement, by a hook or by the task that ends.       *)

Change(h, p) ==
    /\ hook[h] = NoHook /\ identity[p] < MaxIdentity
    /\ identity' = [identity EXCEPT ![p] = @ + 1]
    /\ hook' = [hook EXCEPT ![h] = [target |-> p, step |-> "add"]]
    /\ UNCHANGED <<measured, key, dirty, queued, worker, missed, night, faults>>

Sent(p) == /\ p \notin key /\ queued[p] < MaxQueued
           /\ key' = key \cup {p}
           /\ queued' = [queued EXCEPT ![p] = @ + 1]

HookSends(h) ==
    /\ hook[h].step = "add" /\ Sent(hook[h].target)
    /\ hook' = [hook EXCEPT ![h] = NoHook]
    /\ UNCHANGED <<identity, measured, dirty, worker, missed, night, faults>>

\* the broker refuses the job: the key is taken back
HookRefused(h) ==
    /\ hook[h].step = "add" /\ hook[h].target \notin key /\ Fault
    /\ hook' = [hook EXCEPT ![h] = NoHook]
    /\ missed' = missed \cup {hook[h].target}
    /\ UNCHANGED <<identity, measured, key, dirty, queued, worker, night>>

HookFindsKey(h) ==
    /\ hook[h].step = "add" /\ hook[h].target \in key
    /\ hook' = [hook EXCEPT ![h].step = "mark"]
    /\ UNCHANGED <<identity, measured, key, dirty, queued, worker, missed, night, faults>>

(* The key may be gone when the mark is left: then nobody looks at it until *)
(* the job of another change has ended.                                     *)
HookMarks(h) ==
    /\ hook[h].step = "mark"
    /\ dirty' = dirty \cup {hook[h].target}
    /\ missed' = IF hook[h].target \in key THEN missed ELSE missed \cup {hook[h].target}
    /\ hook' = [hook EXCEPT ![h] = NoHook]
    /\ UNCHANGED <<identity, measured, key, queued, worker, night, faults>>

\* the process ends between the commit and its hook, or with the key alone
HookLost(h) ==
    /\ hook[h] # NoHook /\ Fault
    /\ \/ key' = key
       \/ hook[h].step = "add" /\ key' = key \cup {hook[h].target}
    /\ missed' = missed \cup {hook[h].target}
    /\ hook' = [hook EXCEPT ![h] = NoHook]
    /\ UNCHANGED <<identity, measured, dirty, queued, worker, night>>

\* 35 minutes: the job waited for long, or there is none
KeyExpires(p) ==
    /\ p \in key \cup dirty /\ Fault
    /\ key' = key \ {p} /\ dirty' = dirty \ {p}
    /\ missed' = missed \cup {p}
    /\ UNCHANGED <<identity, measured, hook, queued, worker, night>>

-----------------------------------------------------------------------------
(* measure_property_match_candidates.                                       *)

Larger(a, b) == IF a > b THEN a ELSE b
Rest(w) == worker' = [worker EXCEPT ![w] = Resting]

\* the pairs are evaluated one by one, under their locks: the first of them
\* on what the Property is when the task begins
Begin(w) ==
    \E p \in Target :
       /\ worker[w] = Resting /\ queued[p] > 0
       /\ queued' = [queued EXCEPT ![p] = @ - 1]
       /\ worker' = [worker EXCEPT ![w] = [task |-> "focused", step |-> "measure", target |-> p,
                                           seen |-> identity[p], token |-> NoToken, after |-> 0]]
       /\ UNCHANGED <<identity, measured, hook, key, dirty, missed, night, faults>>

ReleaseThenLook == <<"release", "look">>

Doing(w, n) == worker[w].task = "focused" /\ worker[w].step = ReleaseThenLook[n]
After(n) == IF n = 1 THEN ReleaseThenLook[2] ELSE "again"

Evaluate(w) ==
    /\ worker[w].task = "focused" /\ worker[w].step = "measure"
    /\ measured' = [measured EXCEPT ![worker[w].target] = Larger(@, worker[w].seen)]
    /\ worker' = [worker EXCEPT ![w].step = ReleaseThenLook[1]]
    /\ UNCHANGED <<focus, night, faults>>

\* an exception: the task ends as after a measurement
FailFocused(w) ==
    /\ worker[w].task = "focused" /\ worker[w].step = "measure" /\ Fault
    /\ missed' = missed \cup {worker[w].target}
    /\ worker' = [worker EXCEPT ![w].step = ReleaseThenLook[1]]
    /\ UNCHANGED <<identity, measured, hook, key, dirty, queued, night>>

\* _finish_focused_measurement: the key is given back, and then the mark looked for
Release(w) ==
    LET n == IF Doing(w, 1) THEN 1 ELSE 2 IN
    /\ Doing(w, n) /\ ReleaseThenLook[n] = "release"
    /\ key' = key \ {worker[w].target}
    /\ worker' = [worker EXCEPT ![w].step = After(n)]
    /\ UNCHANGED <<identity, measured, hook, dirty, queued, missed, night, faults>>

Look(w) ==
    LET n == IF Doing(w, 1) THEN 1 ELSE 2 IN
    /\ Doing(w, n) /\ ReleaseThenLook[n] = "look"
    /\ dirty' = dirty \ {worker[w].target}
    /\ IF worker[w].target \in dirty \/ n = 1
       THEN worker' = [worker EXCEPT ![w].step = After(n)]
       ELSE Rest(w)
    /\ UNCHANGED <<identity, measured, hook, key, queued, missed, night, faults>>

\* the dispatch at the end: a job is sent, or another hook has sent one and
\* the mark is left for it
Again(w) ==
    LET p == worker[w].target IN
    /\ worker[w].task = "focused" /\ worker[w].step = "again"
    /\ \/ Sent(p) /\ dirty' = dirty
       \/ p \in key /\ dirty' = dirty \cup {p} /\ UNCHANGED <<key, queued>>
    /\ Rest(w)
    /\ UNCHANGED <<identity, measured, hook, missed, night, faults>>

Focused(w) == Begin(w) \/ Evaluate(w) \/ Release(w) \/ Look(w) \/ Again(w)

-----------------------------------------------------------------------------
(* reconcile_property_match_suggestions.                                    *)

AtNight(w, step) == worker[w].task = "nightly" /\ worker[w].step = step
OfToken(t) == {w \in Worker : worker[w].task = "nightly" /\ worker[w].token = t}
Unused(t) == OfToken(t) = {} /\ (\A m \in page : m.token # t)
             /\ \A m \in processing : m.token # t

At(w) == [token |-> worker[w].token, after |-> worker[w].after]
OnPage(w, m) ==
    worker' = [worker EXCEPT ![w] = [task |-> "nightly", step |-> "enter", target |-> 0,
                                     seen |-> 0, token |-> m.token, after |-> m.after]]

\* by Beat; while a chain holds the lock this ends at once
StartNight(w, t) ==
    /\ worker[w] = Resting /\ lock = NoToken /\ Unused(t)
    /\ lock' = t
    /\ completed' = {m \in completed : m.token # t}
    /\ OnPage(w, [token |-> t, after |-> 0])
    /\ UNCHANGED <<focus, measured, page, processing, faults>>

\* a message of a token that is no longer the lock's is stale
TakePage(w) ==
    \E m \in page :
       /\ worker[w] = Resting
       /\ page' = page \ {m}
       /\ IF lock = m.token THEN OnPage(w, m) ELSE UNCHANGED worker
       /\ UNCHANGED <<focus, measured, lock, processing, completed, faults>>

FirstDelivery(w) == At(w) \notin completed \cup processing

Enter(w) ==
    /\ AtNight(w, "enter")
    /\ IF FirstDelivery(w)
       THEN /\ processing' = processing \cup {At(w)}
            /\ worker' = [worker EXCEPT ![w].step = "fence", ![w].target = worker[w].after + 1]
       ELSE /\ Rest(w) /\ UNCHANGED processing
    /\ UNCHANGED <<focus, measured, lock, page, completed, faults>>

\* the first Properties after the cursor
OnThePage(w) == {p \in Target : p > worker[w].after /\ p <= worker[w].after + PageSize}

\* _renew_reconciliation_fence before each Property
Fence(w) ==
    /\ AtNight(w, "fence") /\ worker[w].target \in OnThePage(w)
    /\ IF lock = worker[w].token
       THEN worker' = [worker EXCEPT ![w].step = "measure", ![w].seen = identity[worker[w].target]]
       ELSE Rest(w)
    /\ UNCHANGED <<focus, measured, night, faults>>

MeasureAtNight(w) ==
    /\ AtNight(w, "measure")
    /\ measured' = [measured EXCEPT ![worker[w].target] = Larger(@, worker[w].seen)]
    /\ worker' = [worker EXCEPT ![w].step = "fence", ![w].target = @ + 1]
    /\ UNCHANGED <<focus, night, faults>>

IsFull(w) == Cardinality(OnThePage(w)) = PageSize

(* The end of a page; the broker may refuse the next one, which ends the    *)
(* chain with an error.                                                     *)
EndPage(w, refused) ==
    LET last == worker[w].target - 1 IN
    /\ AtNight(w, "fence") /\ worker[w].target \notin OnThePage(w)
    /\ Rest(w)
    /\ IF lock # worker[w].token
       THEN ~refused /\ UNCHANGED <<night, faults>>
       ELSE /\ completed' = completed \cup {At(w)}
            /\ processing' = processing \ {At(w)}
            /\ IF IsFull(w) /\ ~refused
               THEN /\ page' = page \cup {[token |-> worker[w].token, after |-> last]}
                    /\ UNCHANGED lock
               ELSE lock' = NoToken /\ UNCHANGED page
            /\ IF refused THEN IsFull(w) /\ Fault ELSE UNCHANGED faults
    /\ UNCHANGED <<focus, measured>>

\* an exception while a Property is measured
FailPage(w) ==
    /\ AtNight(w, "measure") /\ Fault
    /\ processing' = processing \ {At(w)}
    /\ lock' = IF lock = worker[w].token THEN NoToken ELSE lock
    /\ Rest(w)
    /\ UNCHANGED <<focus, measured, page, completed>>

Nightly(w) == \/ \E t \in Token : StartNight(w, t)
              \/ TakePage(w) \/ Enter(w) \/ Fence(w) \/ MeasureAtNight(w) \/ EndPage(w, FALSE)

-----------------------------------------------------------------------------
(* The worker is lost and its message given back; a page may also come      *)
(* twice.  The first message of a night has no token and is not resumed.    *)
LoseWorker(w) ==
    /\ worker[w] # Resting /\ Fault
    /\ \/ /\ worker[w].task = "focused" /\ queued[worker[w].target] < MaxQueued
          /\ queued' = [queued EXCEPT ![worker[w].target] = @ + 1]
          /\ UNCHANGED page
       \/ /\ worker[w].task = "nightly"
          /\ page' = IF worker[w].after = 0 THEN page ELSE page \cup {At(w)}
          /\ UNCHANGED queued
    /\ Rest(w)
    /\ UNCHANGED <<identity, measured, hook, key, dirty, missed, lock, processing, completed>>

RepeatPage(w) ==
    /\ worker[w].task = "nightly" /\ worker[w].after # 0 /\ Fault
    /\ page' = page \cup {At(w)}
    /\ UNCHANGED <<focus, measured, worker, lock, processing, completed>>

Lapse ==
    /\ lock' = NoToken
    /\ processing' = {m \in processing : m.token # lock}
    /\ UNCHANGED <<focus, measured, worker, page, completed>>

\* a message waited for more than 35 minutes, perhaps until it was taken
LockLapses ==
    /\ lock # NoToken /\ Fault
    /\ \A w \in OfToken(lock) : worker[w].step = "enter"
    /\ Lapse

\* nobody is left to renew the lock; the keys of pages that were lost go too
AbandonedEnds ==
    /\ OfToken(lock) = {} /\ \A m \in page : m.token # lock
    /\ lock # NoToken
    /\ Lapse /\ UNCHANGED faults

PageKeysEnd ==
    \E m \in processing :
       /\ m.token # lock /\ processing' = processing \ {m}
       /\ UNCHANGED <<focus, measured, worker, lock, page, completed, faults>>

MaintenanceNext ==
    \/ \E h \in Hook : \/ \E p \in Target : Change(h, p)
                       \/ HookSends(h) \/ HookRefused(h) \/ HookFindsKey(h) \/ HookMarks(h)
                       \/ HookLost(h)
    \/ \E p \in Target : KeyExpires(p)
    \/ \E w \in Worker : \/ Focused(w) \/ Nightly(w) \/ EndPage(w, TRUE) \/ FailPage(w) \/ FailFocused(w)
                         \/ LoseWorker(w) \/ RepeatPage(w)
    \/ LockLapses \/ AbandonedEnds \/ PageKeysEnd

(* Workers take messages and go on, Beat starts nights and keys expire;     *)
(* nothing is asked of the hooks or of the focused jobs' keys.              *)
MaintenanceFairness ==
    /\ \A w \in Worker : WF_maintenanceVars(Focused(w)) /\ WF_maintenanceVars(Nightly(w))
    /\ WF_maintenanceVars(AbandonedEnds) /\ WF_maintenanceVars(PageKeysEnd)

MaintenanceSpec ==
    MaintenanceInit /\ [][MaintenanceNext]_maintenanceVars /\ MaintenanceFairness

-----------------------------------------------------------------------------
(* Properties.                                                              *)

\* Messages, keys and workers have their types, and no comparison was made on
\* what a Property has not been yet.
MaintenanceTypeOK ==
    /\ \A p \in Target : measured[p] <= identity[p] /\ queued[p] \in 0..MaxQueued
    /\ key \cup dirty \subseteq Target
    /\ lock \in Token \cup {NoToken}
    /\ \A m \in page \cup processing \cup completed : m.token \in Token
    /\ \A w \in Worker : worker[w].task = "nightly" => worker[w].token \in Token

FollowsUp(p) ==
    \/ queued[p] > 0
    \/ \E h \in Hook : hook[h].target = p
    \/ \E w \in Worker :
          /\ worker[w].task = "focused" /\ worker[w].target = p
          /\ \/ worker[w].step = "measure" /\ worker[w].seen = identity[p]
             \/ worker[w].step = "again"
             \/ p \in dirty

\* While a Property waits to be compared again, a job, a hook or a task that
\* will see the mark is there to do so, however changes and measurements
\* overlap, unless a process or key was lost or the mark came after its reader.
ChangesAreFollowedUp == \A p \in Target \ missed : measured[p] # identity[p] => FollowsUp(p)

\* No two tasks of the nights go through Properties at the same time, although
\* pages come twice and locks lapse.
ReconciledAlone ==
    Cardinality({w \in Worker : AtNight(w, "measure")}) <= 1

\* Whatever was missed or lost, every change is compared in the end.
ChangesAreMeasured ==
    \A p \in Target : measured[p] # identity[p] ~> measured[p] = identity[p]
=============================================================================
