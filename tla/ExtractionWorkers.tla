------------------------- MODULE ExtractionWorkers -------------------------
(***************************************************************************)
(* How one Extraction Request gets done: run_extraction and its delivery,  *)
(* backend/apps/source_proposals/source_processing/extraction.py and       *)
(* extraction_delivery.py, the Celery task extract_source and the          *)
(* maintenance that sends lost continuations again.                        *)
(*                                                                         *)
(* A worker holds no lock while it fetches.  Its first transaction begins  *)
(* an attempt, its last one concludes it, and between the two anything may *)
(* happen: other deliveries, a recovery by another worker, a revocation,   *)
(* the loss of the worker.  A transaction writes only if the run still has *)
(* the attempt and generation that the worker began with.                  *)
(*                                                                         *)
(* Time is seen as far as RECOVERY_DELAY: run.recent says that started_at  *)
(* is less than that ago, and a message sent by retry (countdown 720) is   *)
(* not delivered while the attempt that it was sent about is recent.       *)
(***************************************************************************)
EXTENDS Naturals, FiniteSets

CONSTANTS
    Worker,
    MaxAttempts,    \* MAX_ATTEMPTS of run_extraction
    MaxRetries,     \* max_retries of extract_source
    MaxGenerations, \* bound: checkpoints of the run
    MaxCopies,      \* bound: copies of a message that delivery adds to
    MaxCrashes,     \* bound: workers lost
    MaxKills        \* bound: tasks ended by an exception or the hard limit

ASSUME AttemptsAssumption == MaxAttempts \in Nat \ {0}
ASSUME RetriesAssumption == MaxRetries \in Nat
ASSUME BoundsAssumption ==
    MaxGenerations \in Nat /\ MaxCopies \in Nat \ {0} /\ MaxCrashes \in Nat /\ MaxKills \in Nat

VARIABLES
    request,    \* ExtractionRequest.state
    pending,    \* ExtractionRequest.delivery_pending
    authorized, \* authorized(request)
    run,        \* the ExtractionRun
    queue,      \* the broker: how many copies of each message it has
    worker,     \* what each worker process is doing
    crashes, kills,
    kept        \* history: completion transactions that kept results

vars == <<request, pending, authorized, run, queue, worker, crashes, kills, kept>>
faults == <<crashes, kills>>

\* A delivery of extract_source: its generation, the retries so far, and the
\* attempt it is to wait for (0: none).
Message == [generation : 0..MaxGenerations, retries : 0..MaxRetries,
            after : 0..MaxAttempts]
RunRow == [state : {"none", "queued", "running", "complete", "failed", "cancelled"},
           attempts : 0..MaxAttempts, generation : 0..MaxGenerations,
           transient : BOOLEAN, recent : BOOLEAN]
Activity == [phase : {"idle", "working", "handoff", "returning"}, again : BOOLEAN,
             attempt : 0..MaxAttempts, message : Message]

First(g) == [generation |-> g, retries |-> 0, after |-> 0]
Idle == [phase |-> "idle", again |-> FALSE, attempt |-> 0, message |-> First(0)]

\* submit_request has committed.
Init ==
    /\ request = "queued" /\ pending = TRUE /\ authorized = TRUE
    /\ run = [state |-> "none", attempts |-> 0, generation |-> 0,
              transient |-> FALSE, recent |-> FALSE]
    /\ queue = [m \in Message |-> 0]
    /\ worker = [w \in Worker |-> Idle]
    /\ crashes = 0 /\ kills = 0 /\ kept = 0

Sent(m) == [queue EXCEPT ![m] = @ + 1]

-----------------------------------------------------------------------------
(* Delivery.                                                                *)

(* deliver_extraction_request, on commit of the request and every minute.   *)
(* The message may be sent and the process end before that is recorded.     *)
Deliver(recorded) ==
    /\ request = "queued" /\ pending
    /\ queue[First(run.generation)] < MaxCopies
    /\ queue' = Sent(First(run.generation))
    /\ pending' = ~recorded
    /\ UNCHANGED <<request, authorized, run, worker, faults, kept>>

\* Mutant: only what was never delivered is sent again.
RedeliverPending ==
    /\ request = "queued" /\ run.state = "queued" /\ pending
    /\ queue[First(run.generation)] < MaxCopies
    /\ queue' = Sent(First(run.generation))
    /\ UNCHANGED <<request, pending, authorized, run, worker, faults, kept>>

(* expire_reservations, every minute: a continuation whose checkpoint is    *)
(* committed is sent again, whether it was lost or not.                     *)
Redeliver ==
    /\ request = "queued" /\ run.state = "queued"
    /\ queue[First(run.generation)] < MaxCopies
    /\ queue' = Sent(First(run.generation))
    /\ UNCHANGED <<request, pending, authorized, run, worker, faults, kept>>

\* RECOVERY_DELAY after started_at
TimePasses ==
    /\ run.state = "running" /\ run.recent
    /\ run' = [run EXCEPT !.recent = FALSE]
    /\ UNCHANGED <<request, pending, authorized, queue, worker, faults, kept>>

-----------------------------------------------------------------------------
(* The first transaction of run_extraction.                                 *)

Waits(m) ==
    /\ run.state = "running" /\ run.recent
    /\ run.attempts = m.after /\ run.generation = m.generation

Take(w, m) ==
    /\ worker[w].phase = "idle" /\ queue[m] > 0 /\ ~Waits(m)
    /\ queue' = [queue EXCEPT ![m] = @ - 1]

Becomes(w, m, phase, again, attempt) ==
    worker' = [worker EXCEPT ![w] =
                  [phase |-> phase, again |-> again, attempt |-> attempt, message |-> m]]

Finished == request \in {"complete", "cancelled"}
GivenUp == run.state = "failed" /\ (run.attempts >= MaxAttempts \/ ~run.transient)

\* Nothing to do: the request is finished, the delivery is of another
\* generation, or the failed run is not to be tried again.
Dismiss(w, m) ==
    /\ Take(w, m)
    /\ Finished \/ run.generation # m.generation \/ GivenUp
    /\ Becomes(w, m, "returning", FALSE, run.attempts)
    /\ UNCHANGED <<request, pending, authorized, run, faults, kept>>

Mine(m) == ~Finished /\ run.generation = m.generation /\ ~GivenUp

\* Another worker may still be at it: the delivery is retried later.
FindBusy(w, m) ==
    /\ Take(w, m) /\ Mine(m)
    /\ run.state = "running" /\ run.recent
    /\ Becomes(w, m, "returning", TRUE, run.attempts)
    /\ UNCHANGED <<request, pending, authorized, run, faults, kept>>

\* The last attempt was interrupted.
GiveUp(w, m) ==
    /\ Take(w, m) /\ Mine(m)
    /\ run.state = "running" /\ ~run.recent /\ run.attempts >= MaxAttempts
    /\ run' = [run EXCEPT !.state = "failed", !.transient = TRUE]
    /\ request' = "failed"
    /\ Becomes(w, m, "returning", FALSE, run.attempts)
    /\ UNCHANGED <<pending, authorized, faults, kept>>

(* The attempt that begins: a continuation goes on with the attempt of its  *)
(* checkpoint, everything else is another one.                              *)
NextAttempt == run.attempts + (IF run.state = "queued" THEN 0 ELSE 1)

Begin(w, m) ==
    /\ Take(w, m) /\ Mine(m)
    /\ ~(run.state = "running" /\ run.recent)
    /\ run.state = "queued" \/ run.attempts < MaxAttempts
    /\ run' = [run EXCEPT !.state = "running", !.attempts = NextAttempt, !.recent = TRUE]
    /\ request' = "running"
    /\ Becomes(w, m, "working", FALSE, NextAttempt)
    /\ UNCHANGED <<pending, authorized, faults, kept>>

-----------------------------------------------------------------------------
(* The worker's later transactions and its return.                          *)

\* Mutant: the attempt is not compared.
FencedByState(w) == run.state = "running" /\ run.generation = worker[w].message.generation

\* The run is still the one that worker w began.
Holds(w) ==
    /\ run.state = "running"
    /\ run.attempts = worker[w].attempt
    /\ run.generation = worker[w].message.generation

Returns(w, again) == worker' = [worker EXCEPT ![w].phase = "returning", ![w].again = again]

(* The end of a time slice: progress is saved for the next generation, and  *)
(* the message that continues it is sent once that is committed.            *)
Checkpoint(w) ==
    /\ worker[w].phase = "working" /\ Holds(w) /\ authorized
    /\ run.generation < MaxGenerations
    /\ run' = [run EXCEPT !.state = "queued", !.generation = @ + 1]
    /\ request' = "queued"
    /\ worker' = [worker EXCEPT ![w].phase = "handoff"]
    /\ UNCHANGED <<pending, authorized, queue, faults, kept>>

SendContinuation(w) ==
    /\ worker[w].phase = "handoff"
    /\ queue' = Sent(First(worker[w].message.generation + 1))
    /\ Returns(w, FALSE)
    /\ UNCHANGED <<request, pending, authorized, run, faults, kept>>

\* The broker refuses it, and the task fails.
LoseContinuation(w) ==
    /\ worker[w].phase = "handoff"
    /\ worker' = [worker EXCEPT ![w] = Idle]
    /\ UNCHANGED <<request, pending, authorized, run, queue, faults, kept>>

\* Either transaction finds that the run is not the worker's any more.
FencedOff(w) ==
    /\ worker[w].phase = "working" /\ ~Holds(w)
    /\ Returns(w, FALSE)
    /\ UNCHANGED <<request, pending, authorized, run, queue, faults, kept>>

\* Mutant: what the worker saw of its authority before is trusted.
SucceedUnchecked(w) ==
    /\ worker[w].phase = "working" /\ Holds(w)
    /\ run' = [run EXCEPT !.state = "complete", !.transient = FALSE]
    /\ request' = "complete" /\ kept' = kept + 1
    /\ Returns(w, FALSE)
    /\ UNCHANGED <<pending, authorized, queue, faults>>

\* The completion transaction keeps the results.
Succeed(w) ==
    /\ worker[w].phase = "working" /\ Holds(w) /\ authorized
    /\ run' = [run EXCEPT !.state = "complete", !.transient = FALSE]
    /\ request' = "complete" /\ kept' = kept + 1
    /\ Returns(w, FALSE)
    /\ UNCHANGED <<pending, authorized, queue, faults>>

\* The completion transaction records a failure.
Fail(w, transient) ==
    /\ worker[w].phase = "working" /\ Holds(w) /\ authorized
    /\ run' = [run EXCEPT !.state = "failed", !.transient = transient]
    /\ request' = "failed"
    /\ Returns(w, transient /\ run.attempts < MaxAttempts)
    /\ UNCHANGED <<pending, authorized, queue, faults, kept>>

\* AuthorizationEnded, at any of its checks or for a page of another domain.
Cancel(w) ==
    /\ worker[w].phase = "working" /\ Holds(w)
    /\ run' = [run EXCEPT !.state = "cancelled", !.transient = FALSE]
    /\ request' = "cancelled"
    /\ Returns(w, FALSE)
    /\ UNCHANGED <<pending, authorized, queue, faults, kept>>

(* The task ends and its message is acknowledged; retry sends another one,  *)
(* or raises when the message has been retried often enough.                *)
Return(w) ==
    /\ worker[w].phase = "returning"
    /\ LET m == worker[w].message
       IN  queue' = IF worker[w].again /\ m.retries < MaxRetries
                    THEN Sent([m EXCEPT !.retries = @ + 1, !.after = worker[w].attempt])
                    ELSE queue
    /\ worker' = [worker EXCEPT ![w] = Idle]
    /\ UNCHANGED <<request, pending, authorized, run, faults, kept>>

-----------------------------------------------------------------------------
(* Faults, and the end of the request's authority.                          *)

\* The worker is lost: acks_late and reject_on_worker_lost give its message
\* back, with the retry it may have sent already.
Crash(w) ==
    /\ worker[w].phase # "idle" /\ crashes < MaxCrashes
    /\ LET m == worker[w].message
           again == [m EXCEPT !.retries = @ + 1, !.after = worker[w].attempt]
       IN  \/ queue' = Sent(m)
           \/ /\ worker[w].phase = "returning" /\ worker[w].again /\ m.retries < MaxRetries
              /\ queue' = [Sent(m) EXCEPT ![again] = @ + 1]
    /\ worker' = [worker EXCEPT ![w] = Idle]
    /\ crashes' = crashes + 1
    /\ UNCHANGED <<request, pending, authorized, run, kills, kept>>

\* The hard time limit, or an exception in a transaction outside the try: the
\* task has failed, and Celery acknowledges its message.
Kill(w) ==
    /\ worker[w].phase = "working" /\ kills < MaxKills
    /\ worker' = [worker EXCEPT ![w] = Idle]
    /\ kills' = kills + 1
    /\ UNCHANGED <<request, pending, authorized, run, queue, crashes, kept>>

\* The Source is paused or its profile replaced; the request stays.
EndAuthority ==
    /\ authorized
    /\ authorized' = FALSE
    /\ UNCHANGED <<request, pending, run, queue, worker, faults, kept>>

\* revoke_assignment
Revoke ==
    /\ ~Finished
    /\ authorized' = FALSE
    /\ request' = "cancelled"
    /\ run' = IF run.state \in {"queued", "running"}
              THEN [run EXCEPT !.state = "cancelled", !.transient = FALSE] ELSE run
    /\ UNCHANGED <<pending, queue, worker, faults, kept>>

Receive(w, m) == Dismiss(w, m) \/ FindBusy(w, m) \/ GiveUp(w, m) \/ Begin(w, m)

Conclude(w) ==
    \/ Checkpoint(w) \/ FencedOff(w) \/ Succeed(w) \/ Cancel(w)
    \/ \E transient \in BOOLEAN : Fail(w, transient)

Work(w) == Conclude(w) \/ SendContinuation(w) \/ LoseContinuation(w) \/ Return(w)

Next ==
    \/ Redeliver \/ TimePasses \/ EndAuthority \/ Revoke
    \/ \E recorded \in BOOLEAN : Deliver(recorded)
    \/ \E w \in Worker :
          \/ Work(w) \/ Crash(w) \/ Kill(w)
          \/ \E m \in Message : Receive(w, m)

Spec == Init /\ [][Next]_vars

(* Beat runs deliveries and maintenance every minute and the broker accepts *)
(* a message eventually; the workers take what is delivered, and a task     *)
(* ends, by the time limit if need be; time passes.                         *)
Fairness ==
    /\ WF_vars(Deliver(TRUE)) /\ WF_vars(Redeliver) /\ WF_vars(TimePasses)
    /\ WF_vars(\E w \in Worker, m \in Message : Receive(w, m))
    /\ \A w \in Worker : WF_vars(Work(w))

FairSpec == Spec /\ Fairness

-----------------------------------------------------------------------------
(* Properties.                                                              *)

\* Every row, message and worker has its type.
TypeOK ==
    /\ request \in {"queued", "running", "complete", "failed", "cancelled"}
    /\ pending \in BOOLEAN /\ authorized \in BOOLEAN
    /\ run \in RunRow
    /\ queue \in [Message -> Nat]
    /\ worker \in [Worker -> Activity]
    /\ crashes \in 0..MaxCrashes /\ kills \in 0..MaxKills /\ kept \in Nat

\* However often a message is delivered and whichever workers come back late,
\* only one of them can still write to the run.
OneHolder ==
    \A v, w \in Worker :
        /\ worker[v].phase = "working" /\ Holds(v)
        /\ worker[w].phase = "working" /\ Holds(w)
        => v = w

\* What a worker writes to the run, results, a failure or progress, comes from
\* the newest attempt: a worker that was given up for lost and comes back late
\* writes nothing while another is at work (docs/source-extraction.md: "an
\* attempt number fences late results from an older worker").
LateWorkersWriteNothing ==
    [][\A v, w \in Worker :
          /\ worker[w].phase = "working" /\ worker'[w].phase # "working" /\ run' # run
          /\ worker[v].phase = "working"
          /\ worker[v].message.generation = worker[w].message.generation
          => worker[v].attempt <= worker[w].attempt]_vars

\* The request, which guards every delivery, and the run, which fences every
\* worker, are saved one after the other and tell the same story.
RequestAgreesWithRun ==
    CASE request = "queued" -> run.state \in {"none", "queued"}
      [] request = "cancelled" -> run.state \in {"none", "failed", "cancelled"}
      [] OTHER -> run.state = request

\* A message of the run's generation is on its way or being worked on.
Underway ==
    \/ \E m \in Message : m.generation = run.generation /\ queue[m] > 0
    \/ \E w \in Worker :
          /\ worker[w].phase # "idle"
          /\ worker[w].message.generation = run.generation
          /\ \/ worker[w].phase = "working"
             \/ worker[w].again /\ worker[w].message.retries < MaxRetries

\* As long as no task has been ended without a result, no loss of workers,
\* messages or broker, with the retries limited, leaves a request that somebody
\* waits for and nothing will ever take up: it is to be delivered, or to be
\* continued by the maintenance, or a message is underway.
NeverStranded ==
    \/ kills > 0
    \/ Finished \/ GivenUp
    \/ request = "queued" /\ (pending \/ run.state = "queued")
    \/ Underway

\* The request as ExtractionRequest promises it: results kept once, under
\* authority, within the attempts, and nothing after the end.
Promise == INSTANCE ExtractionRequest WITH
    state <- IF request \in {"queued", "running"} THEN "open" ELSE request,
    attempts <- run.attempts
RequestKeepsPromise == Promise!Spec

\* Every request of which no task is ended without a result comes to its end,
\* through every recovery and continuation: complete, cancelled, or failed for
\* good.
Settles == <>(kills > 0) \/ <>[](Finished \/ GivenUp)

(* Messages, workers, request and run agree on who may write, and whoever is   *)
(* late writes nothing.                                                        *)
WorkersAgree ==
    /\ [](OneHolder /\ RequestAgreesWithRun /\ NeverStranded)
    /\ LateWorkersWriteNothing
=============================================================================
