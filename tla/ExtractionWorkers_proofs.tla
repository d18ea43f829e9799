---------------------- MODULE ExtractionWorkers_proofs ----------------------
(***************************************************************************)
(* Theorems about ExtractionWorkers for every number of workers, attempts, *)
(* retries, checkpoints, lost workers and ended tasks.                     *)
(***************************************************************************)
EXTENDS ExtractionWorkers, TLAPS

USE AttemptsAssumption, RetriesAssumption, BoundsAssumption

-----------------------------------------------------------------------------
(* Typing.                                                                 *)

LEMMA FirstType == ASSUME NEW g \in 0..MaxGenerations PROVE First(g) \in Message
BY DEF First, Message

LEMMA SentType ==
    ASSUME queue \in [Message -> Nat], NEW m
    PROVE  Sent(m) \in [Message -> Nat]
<1>1. CASE m \in Message
  <2>1. queue[m] + 1 \in Nat
    BY <1>1
  <2> QED
    BY <2>1 DEF Sent
<1>2. CASE m \notin Message
  BY <1>2 DEF Sent
<1> QED
  BY <1>1, <1>2

\* the message that retry sends
LEMMA AgainType ==
    ASSUME NEW m \in Message, m.retries < MaxRetries, NEW a \in 0..MaxAttempts
    PROVE  [m EXCEPT !.retries = @ + 1, !.after = a] \in Message
<1>1. m.retries + 1 \in 0..MaxRetries
  BY DEF Message
<1> QED
  BY <1>1 DEF Message

LEMMA TypeInit == Init => TypeOK
<1> SUFFICES ASSUME Init
             PROVE  TypeOK
  OBVIOUS
<1>1. run \in RunRow
  BY DEF Init, RunRow
<1>2. Idle \in Activity
  BY FirstType DEF Idle, Activity
<1> QED
  BY <1>1, <1>2 DEF Init, TypeOK

LEMMA ReceiveType ==
    ASSUME TypeOK, NEW w \in Worker, NEW m \in Message, Receive(w, m)
    PROVE  TypeOK'
<1> USE DEF TypeOK
<1>1. queue' \in [Message -> Nat]
  <2>1. Take(w, m)
    BY DEF Receive, Dismiss, FindBusy, GiveUp, Begin
  <2>2. queue[m] \in Nat /\ queue[m] > 0
    BY <2>1 DEF Take
  <2>3. queue[m] - 1 \in Nat
    BY <2>2
  <2> QED
    BY <2>1, <2>3 DEF Take
<1>2. run.attempts \in 0..MaxAttempts /\ (Begin(w, m) => NextAttempt \in 0..MaxAttempts)
  <2>1. run \in RunRow
    OBVIOUS
  <2>2. run.attempts \in 0..MaxAttempts
    BY <2>1 DEF RunRow
  <2>3. Begin(w, m) => run.state = "queued" \/ run.attempts < MaxAttempts
    BY DEF Begin
  <2> QED
    BY <2>2, <2>3 DEF NextAttempt
<1>3. run' \in RunRow
  <2>1. CASE UNCHANGED run
    BY <2>1
  <2>2. CASE GiveUp(w, m)
    BY <2>2 DEF GiveUp, RunRow
  <2>3. CASE Begin(w, m)
    <3> DEFINE n == NextAttempt
    <3>1. n \in 0..MaxAttempts /\ run' = [run EXCEPT !.state = "running", !.attempts = n, !.recent = TRUE]
      BY <1>2, <2>3 DEF Begin
    <3> HIDE DEF n
    <3> QED
      BY <3>1 DEF RunRow
  <2> QED
    BY <2>1, <2>2, <2>3 DEF Receive, Dismiss, FindBusy
<1>4. worker' \in [Worker -> Activity]
  <2>1. ASSUME NEW phase \in {"working", "returning"}, NEW again \in BOOLEAN,
               NEW a \in 0..MaxAttempts, Becomes(w, m, phase, again, a)
        PROVE  worker' \in [Worker -> Activity]
    BY <2>1 DEF Becomes, Activity
  <2> QED
    BY <1>2, <2>1 DEF Receive, Dismiss, FindBusy, GiveUp, Begin
<1> QED
  BY <1>1, <1>3, <1>4 DEF Receive, Dismiss, FindBusy, GiveUp, Begin, faults

LEMMA RunType ==
    ASSUME run \in RunRow, NEW transient \in BOOLEAN,
           NEW state \in {"queued", "running", "complete", "failed", "cancelled"}
    PROVE  [run EXCEPT !.state = state, !.transient = transient] \in RunRow
BY DEF RunRow

LEMMA ReturnsType ==
    ASSUME worker \in [Worker -> Activity], NEW w \in Worker, NEW again \in BOOLEAN,
           Returns(w, again)
    PROVE  worker' \in [Worker -> Activity]
<1>1. [worker[w] EXCEPT !.phase = "returning", !.again = again] \in Activity
  BY DEF Activity
<1>2. worker' = [worker EXCEPT ![w] = [worker[w] EXCEPT !.phase = "returning", !.again = again]]
  BY DEF Returns
<1> QED
  BY <1>1, <1>2

LEMMA IdleType ==
    ASSUME worker \in [Worker -> Activity], NEW w \in Worker
    PROVE  [worker EXCEPT ![w] = Idle] \in [Worker -> Activity]
BY FirstType DEF Idle, Activity

LEMMA WorkType ==
    ASSUME TypeOK, NEW w \in Worker, Work(w)
    PROVE  TypeOK'
<1> USE DEF TypeOK
<1>1. CASE Checkpoint(w)
  <2>1. run' \in RunRow
    <3>1. run' = [run EXCEPT !.state = "queued", !.generation = run.generation + 1]
      BY <1>1 DEF Checkpoint
    <3>2. run.generation + 1 \in 0..MaxGenerations
      BY <1>1 DEF Checkpoint, RunRow
    <3> QED
      BY <3>1, <3>2 DEF RunRow
  <2>2. [worker[w] EXCEPT !.phase = "handoff"] \in Activity
    BY DEF Activity
  <2>3. worker' = [worker EXCEPT ![w] = [worker[w] EXCEPT !.phase = "handoff"]]
    BY <1>1 DEF Checkpoint
  <2>4. worker' \in [Worker -> Activity]
    BY <2>2, <2>3
  <2> QED
    BY <1>1, <2>1, <2>4 DEF Checkpoint, faults
<1>2. CASE FencedOff(w)
  BY <1>2, ReturnsType DEF FencedOff, faults
<1>3. CASE Succeed(w)
  <2>1. run' \in RunRow /\ worker' \in [Worker -> Activity]
    BY <1>3, RunType, ReturnsType DEF Succeed
  <2> QED
    BY <1>3, <2>1 DEF Succeed, faults
<1>4. CASE Cancel(w)
  <2>1. run' \in RunRow /\ worker' \in [Worker -> Activity]
    BY <1>4, RunType, ReturnsType DEF Cancel
  <2> QED
    BY <1>4, <2>1 DEF Cancel, faults
<1>5. ASSUME NEW transient \in BOOLEAN, Fail(w, transient)
      PROVE  TypeOK'
  <2>1. (transient /\ run.attempts < MaxAttempts) \in BOOLEAN
    OBVIOUS
  <2>2. worker' \in [Worker -> Activity]
    BY <1>5, <2>1, ReturnsType DEF Fail
  <2>3. run' \in RunRow
    BY <1>5, RunType DEF Fail
  <2> QED
    BY <1>5, <2>2, <2>3 DEF Fail, faults
<1>6. CASE SendContinuation(w)
  <2>1. queue' \in [Message -> Nat]
    BY <1>6, SentType DEF SendContinuation
  <2> QED
    BY <1>6, <2>1, ReturnsType DEF SendContinuation, faults
<1>7. CASE LoseContinuation(w)
  BY <1>7, IdleType DEF LoseContinuation, faults
<1>8. CASE Return(w)
  <2>1. queue' \in [Message -> Nat]
    BY <1>8, SentType, AgainType DEF Return, Activity
  <2> QED
    BY <1>8, <2>1, IdleType DEF Return, faults
<1> QED
  BY <1>1, <1>2, <1>3, <1>4, <1>5, <1>6, <1>7, <1>8 DEF Work, Conclude

LEMMA TypeStep == TypeOK /\ [Next]_vars => TypeOK'
<1> SUFFICES ASSUME TypeOK, [Next]_vars
             PROVE  TypeOK'
  OBVIOUS
<1>1. ASSUME NEW recorded \in BOOLEAN, Deliver(recorded)
      PROVE  TypeOK'
  BY <1>1, SentType, FirstType DEF TypeOK, Deliver, RunRow, faults
<1>2. CASE Redeliver
  BY <1>2, SentType, FirstType DEF TypeOK, Redeliver, RunRow, faults
<1>3. CASE TimePasses \/ EndAuthority \/ Revoke
  <2>1. run' \in RunRow
    <3>1. CASE TimePasses
      BY <3>1 DEF TypeOK, TimePasses, RunRow
    <3> QED
      BY <1>3, <3>1, RunType DEF TypeOK, EndAuthority, Revoke
  <2> QED
    BY <1>3, <2>1 DEF TypeOK, TimePasses, EndAuthority, Revoke, faults
<1>4. ASSUME NEW w \in Worker, Crash(w)
      PROVE  TypeOK'
  <2> DEFINE m == worker[w].message
             again == [m EXCEPT !.retries = @ + 1, !.after = worker[w].attempt]
             sent == Sent(m)
  <2>1. m \in Message /\ worker[w].attempt \in 0..MaxAttempts
    BY DEF TypeOK, Activity
  <2>2. sent \in [Message -> Nat]
    BY <2>1, SentType DEF TypeOK
  <2>3. m.retries < MaxRetries => again \in Message
    BY <2>1, AgainType
  <2>4. queue' = sent \/ (m.retries < MaxRetries /\ queue' = [sent EXCEPT ![again] = sent[again] + 1])
    BY <1>4 DEF Crash
  <2>5. queue' \in [Message -> Nat]
    <3> HIDE DEF m, again, sent
    <3> QED
      BY <2>2, <2>3, <2>4
  <2> QED
    BY <1>4, <2>5, IdleType DEF TypeOK, Crash
<1>5. ASSUME NEW w \in Worker, Kill(w)
      PROVE  TypeOK'
  BY <1>5, IdleType DEF TypeOK, Kill
<1>6. CASE UNCHANGED vars
  BY <1>6 DEF TypeOK, vars, faults
<1> QED
  BY <1>1, <1>2, <1>3, <1>4, <1>5, <1>6, WorkType, ReceiveType DEF Next

\* Every row, message and worker keeps its type; in particular no attempt
\* begins beyond the limit.
THEOREM TypeCorrect == Spec => []TypeOK
<1>1. Init => TypeOK
  BY TypeInit
<1>2. TypeOK /\ [Next]_vars => TypeOK'
  BY TypeStep
<1> QED
  BY <1>1, <1>2, PTL DEF Spec

-----------------------------------------------------------------------------
(* The request and its run.                                                *)

LEMMA AgreesStep ==
    TypeOK /\ RequestAgreesWithRun /\ [Next]_vars => RequestAgreesWithRun'
<1> SUFFICES ASSUME TypeOK, RequestAgreesWithRun, [Next]_vars
             PROVE  RequestAgreesWithRun'
  OBVIOUS
<1>0. run \in RunRow
  BY DEF TypeOK
<1> USE <1>0 DEF RequestAgreesWithRun
<1>1. CASE UNCHANGED <<request, run>>
  BY <1>1
<1>2. CASE TimePasses
  BY <1>2 DEF TimePasses, RunRow
<1>3. CASE Revoke
  BY <1>3 DEF Revoke, RunRow, Finished, TypeOK
<1>4. ASSUME NEW w \in Worker, Work(w)
      PROVE  RequestAgreesWithRun'
  <2>1. CASE Checkpoint(w)
    BY <2>1 DEF Checkpoint, RunRow
  <2>2. CASE Succeed(w)
    BY <2>2 DEF Succeed, RunRow
  <2>3. CASE Cancel(w)
    BY <2>3 DEF Cancel, RunRow
  <2>4. ASSUME NEW transient \in BOOLEAN, Fail(w, transient)
        PROVE  RequestAgreesWithRun'
    BY <2>4 DEF Fail, RunRow
  <2> QED
    BY <1>1, <1>4, <2>1, <2>2, <2>3, <2>4
    DEF Work, Conclude, FencedOff, SendContinuation, LoseContinuation, Return
<1>5. ASSUME NEW w \in Worker, NEW m \in Message, Receive(w, m)
      PROVE  RequestAgreesWithRun'
  <2>1. CASE GiveUp(w, m)
    BY <2>1 DEF GiveUp, RunRow
  <2>2. CASE Begin(w, m)
    BY <2>2 DEF Begin, RunRow
  <2> QED
    BY <1>1, <1>5, <2>1, <2>2 DEF Receive, Dismiss, FindBusy
<1> QED
  BY <1>1, <1>2, <1>3, <1>4, <1>5
  DEF Next, Deliver, Redeliver, EndAuthority, Crash, Kill, vars

-----------------------------------------------------------------------------
(* Who may write.                                                          *)

Working(w) == worker[w].phase = "working"
SameAttempt(v, w) ==
    /\ worker[v].attempt = worker[w].attempt
    /\ worker[v].message.generation = worker[w].message.generation

\* No worker is ahead of the run, and while the run waits in the queue each is
\* of an earlier generation: so the attempt that begins next, with a number or
\* a generation of its own, is nobody else's.
HolderInv ==
    /\ TypeOK
    /\ run.state # "none" => run.attempts > 0
    /\ \A w \in Worker : Working(w) =>
          /\ worker[w].attempt > 0
          /\ worker[w].message.generation <= run.generation
          /\ worker[w].message.generation = run.generation =>
                worker[w].attempt <= run.attempts /\ run.state \notin {"none", "queued"}
    /\ \A v, w \in Worker : Working(v) /\ Working(w) /\ SameAttempt(v, w) => v = w

LEMMA HolderInit == Init => HolderInv
<1> SUFFICES ASSUME Init
             PROVE  HolderInv
  OBVIOUS
<1>1. \A w \in Worker : ~Working(w)
  BY DEF Init, Idle, Working
<1>2. run.state = "none"
  BY DEF Init
<1> QED
  BY <1>1, <1>2, TypeInit DEF HolderInv

\* Every step but a checkpoint and the beginning of an attempt: the workers at
\* work are among those there were, and the run is where it was.
LEMMA HolderKept ==
    ASSUME HolderInv, TypeOK',
           \A w \in Worker : Working(w)' => Working(w) /\ worker'[w] = worker[w],
           run'.attempts = run.attempts, run'.generation = run.generation,
           run'.state = run.state \/ run'.state \in {"running", "complete", "failed", "cancelled"},
           run.state = "none" => run'.state = "none"
    PROVE  HolderInv'
BY DEF HolderInv, Working, SameAttempt

LEMMA HolderStep == HolderInv /\ RequestAgreesWithRun /\ [Next]_vars => HolderInv'
<1> SUFFICES ASSUME HolderInv, RequestAgreesWithRun, [Next]_vars
             PROVE  HolderInv'
  OBVIOUS
<1>0. TypeOK /\ TypeOK' /\ run \in RunRow /\ worker \in [Worker -> Activity]
  BY TypeStep DEF HolderInv, TypeOK
<1> DEFINE Fewer == \A w \in Worker : Working(w)' => Working(w) /\ worker'[w] = worker[w]
<1>1. ASSUME NEW w \in Worker, worker'[w].phase # "working",
             \A v \in Worker : v # w => worker'[v] = worker[v]
      PROVE  Fewer
  BY <1>1 DEF Working
<1>2. CASE UNCHANGED <<run, worker>>
  BY <1>0, <1>2, HolderKept DEF Working
<1>3. CASE TimePasses
  <2>1. /\ run'.attempts = run.attempts /\ run'.generation = run.generation
        /\ run'.state = run.state /\ worker' = worker
    BY <1>0, <1>3 DEF TimePasses, RunRow
  <2> QED
    BY <1>0, <2>1, HolderKept DEF Working
<1>4. CASE Revoke
  <2>1. /\ run'.attempts = run.attempts /\ run'.generation = run.generation
        /\ run'.state = run.state \/ (run.state # "none" /\ run'.state = "cancelled")
        /\ worker' = worker
    BY <1>0, <1>4 DEF Revoke, RunRow
  <2> QED
    BY <1>0, <2>1, HolderKept DEF Working
<1>5. ASSUME NEW w \in Worker, Crash(w) \/ Kill(w)
      PROVE  HolderInv'
  <2>1. run' = run /\ worker' = [worker EXCEPT ![w] = Idle]
    BY <1>5 DEF Crash, Kill
  <2>2. Fewer
    BY <1>0, <1>1, <2>1 DEF Idle
  <2> QED
    BY <1>0, <2>1, <2>2, HolderKept
<1>6. ASSUME NEW w \in Worker, Work(w)
      PROVE  HolderInv'
  <2>1. /\ worker'[w].phase # "working"
        /\ \A v \in Worker : v # w => worker'[v] = worker[v]
    <3>1. CASE worker' = [worker EXCEPT ![w] = Idle]
      BY <1>0, <3>1 DEF Idle
    <3>2. CASE worker' = [worker EXCEPT ![w].phase = "handoff"]
      BY <1>0, <3>2 DEF Activity
    <3>3. ASSUME NEW again, Returns(w, again)
          PROVE  /\ worker'[w].phase # "working"
                 /\ \A v \in Worker : v # w => worker'[v] = worker[v]
      <4>1. worker' = [worker EXCEPT ![w] =
                          [worker[w] EXCEPT !.phase = "returning", !.again = again]]
        BY <3>3 DEF Returns
      <4>2. [worker[w] EXCEPT !.phase = "returning", !.again = again].phase = "returning"
        BY <1>0 DEF Activity
      <4> QED
        BY <1>0, <4>1, <4>2
    <3> QED
      BY <1>6, <3>1, <3>2, <3>3
      DEF Work, Conclude, Checkpoint, FencedOff, Succeed, Cancel, Fail,
          SendContinuation, LoseContinuation, Return
  <2>2. Fewer
    BY <1>1, <2>1
  <2>3. CASE Checkpoint(w)
    <3>1. /\ run'.attempts = run.attempts /\ run'.generation = run.generation + 1
          /\ run.state = "running"
      BY <1>0, <2>3 DEF Checkpoint, RunRow, Holds
    <3>2. run.generation \in Nat /\ run.attempts \in Nat
      BY <1>0 DEF RunRow
    <3>3. \A v \in Worker : worker[v].message.generation \in Nat
      BY <1>0 DEF Activity, Message
    <3> QED
      BY <1>0, <2>2, <3>1, <3>2, <3>3 DEF HolderInv, Working, SameAttempt
  <2>4. CASE ~Checkpoint(w)
    <3>1. /\ run'.attempts = run.attempts /\ run'.generation = run.generation
          /\ run'.state = run.state \/
                (run.state = "running" /\ run'.state \in {"complete", "failed", "cancelled"})
      BY <1>0, <1>6, <2>4
      DEF Work, Conclude, FencedOff, Succeed, Cancel, Fail, Holds, SendContinuation,
          LoseContinuation, Return, RunRow
    <3> QED
      BY <1>0, <2>2, <3>1, HolderKept
  <2> QED
    BY <2>3, <2>4
<1>7. ASSUME NEW w \in Worker, NEW m \in Message, Receive(w, m)
      PROVE  HolderInv'
  <2>1. CASE Begin(w, m)
    <3> DEFINE n == NextAttempt
    <3>1. /\ worker'[w].attempt = n /\ worker'[w].message = m
          /\ \A v \in Worker : v # w => worker'[v] = worker[v]
      BY <1>0, <2>1 DEF Begin, Becomes
    <3>2. run'.state = "running" /\ run'.attempts = n /\ run'.generation = run.generation
      BY <1>0, <2>1 DEF Begin, RunRow
    <3>3. m.generation = run.generation
      BY <2>1 DEF Begin, Mine
    <3>4. run.attempts \in Nat /\ run.generation \in Nat
      BY <1>0 DEF RunRow
    <3>5. n \in Nat /\ n > 0 /\ n >= run.attempts
          /\ (run.state # "queued" => n > run.attempts)
      BY <3>4 DEF NextAttempt, HolderInv
    <3>6. \A v \in Worker : worker[v].attempt \in Nat
      BY <1>0 DEF Activity
    <3>7. \A v \in Worker : v # w /\ Working(v)
             /\ worker[v].message.generation = run.generation => worker[v].attempt < n
      BY <3>4, <3>5, <3>6 DEF HolderInv
    <3> HIDE DEF n
    <3> QED
      BY <1>0, <3>1, <3>2, <3>3, <3>4, <3>5, <3>6, <3>7 DEF HolderInv, Working, SameAttempt
  <2>2. CASE ~Begin(w, m)
    <3>1. /\ worker'[w].phase # "working"
          /\ \A v \in Worker : v # w => worker'[v] = worker[v]
      BY <1>0, <1>7, <2>2 DEF Receive, Dismiss, FindBusy, GiveUp, Becomes
    <3>2. /\ run'.attempts = run.attempts /\ run'.generation = run.generation
          /\ run'.state = run.state \/ (run.state = "running" /\ run'.state = "failed")
      BY <1>0, <1>7, <2>2 DEF Receive, Dismiss, FindBusy, GiveUp, RunRow
    <3> QED
      BY <1>0, <1>1, <3>1, <3>2, HolderKept
  <2> QED
    BY <2>1, <2>2
<1> QED
  BY <1>2, <1>3, <1>4, <1>5, <1>6, <1>7 DEF Next, Deliver, Redeliver, EndAuthority, vars

\* The inductive invariant behind every guarantee about writers.
WriterInv == HolderInv /\ RequestAgreesWithRun

\* At any number of workers, deliveries and recoveries, the fences of attempt
\* and generation, with the request that guards deliveries, are kept up.
THEOREM WriterInvariant == Spec => []WriterInv
<1>1. Init => WriterInv
  BY HolderInit DEF WriterInv, Init, RequestAgreesWithRun
<1>2. WriterInv /\ [Next]_vars => WriterInv'
  BY HolderStep, AgreesStep DEF WriterInv, HolderInv
<1> QED
  BY <1>1, <1>2, PTL DEF Spec

LEMMA HoldersAgree == HolderInv => OneHolder
BY DEF HolderInv, OneHolder, Working, SameAttempt, Holds

\* Two workers never both believe that they may write to the run and are right.
THEOREM OneWorkerHolds == Spec => []OneHolder
<1>1. WriterInv => OneHolder
  BY HoldersAgree DEF WriterInv
<1> QED
  BY <1>1, WriterInvariant, PTL

\* The request and its run never tell different stories.
THEOREM RequestAndRunAgree == Spec => []RequestAgreesWithRun
<1>1. WriterInv => RequestAgreesWithRun
  BY DEF WriterInv
<1> QED
  BY <1>1, WriterInvariant, PTL

\* One step of LateWorkersWriteNothing.
NothingWrittenLate ==
    \A v, w \in Worker :
        /\ worker[w].phase = "working" /\ worker'[w].phase # "working" /\ run' # run
        /\ worker[v].phase = "working"
        /\ worker[v].message.generation = worker[w].message.generation
        => worker[v].attempt <= worker[w].attempt

LEMMA WritersAreNewest == HolderInv /\ [Next]_vars => [NothingWrittenLate]_vars
<1> SUFFICES ASSUME HolderInv, Next, NEW v \in Worker, NEW w \in Worker,
                    Working(w), ~Working(w)', run' # run, Working(v),
                    worker[v].message.generation = worker[w].message.generation
             PROVE  worker[v].attempt <= worker[w].attempt
  BY DEF NothingWrittenLate, Working
<1>0. worker \in [Worker -> Activity]
  BY DEF HolderInv, TypeOK
<1>1. worker'[w] # worker[w]
  BY DEF Working
<1>2. Holds(w)
  <2>1. ~Deliver(TRUE) /\ ~Deliver(FALSE) /\ ~Redeliver /\ ~TimePasses /\ ~EndAuthority /\ ~Revoke
    BY <1>1 DEF Deliver, Redeliver, TimePasses, EndAuthority, Revoke
  <2>2. ASSUME NEW u \in Worker, Crash(u) \/ Kill(u)
        PROVE  FALSE
    BY <2>2 DEF Crash, Kill
  <2>3. ASSUME NEW u \in Worker, NEW m \in Message, Receive(u, m)
        PROVE  FALSE
    <3>1. worker[u].phase = "idle" /\ \A x \in Worker : x # u => worker'[x] = worker[x]
      BY <1>0, <2>3 DEF Receive, Dismiss, FindBusy, GiveUp, Begin, Take, Becomes
    <3> QED
      BY <1>1, <3>1 DEF Working
  <2>4. ASSUME NEW u \in Worker, Work(u)
        PROVE  Holds(w)
    <3>1. Holds(u)
      BY <2>4 DEF Work, Conclude, Checkpoint, FencedOff, Succeed, Cancel, Fail,
                  SendContinuation, LoseContinuation, Return
    <3>2. \A x \in Worker : x # u => worker'[x] = worker[x]
      BY <1>0, <2>4 DEF Work, Conclude, Checkpoint, FencedOff, Succeed, Cancel, Fail, Returns,
                        SendContinuation, LoseContinuation, Return
    <3> QED
      BY <1>1, <3>1, <3>2
  <2>5. BOOLEAN = {TRUE, FALSE}
    OBVIOUS
  <2> QED
    BY <2>1, <2>2, <2>3, <2>4, <2>5 DEF Next
<1> QED
  BY <1>2 DEF HolderInv, Holds, Working

\* A worker that was given up for lost and comes back late writes nothing while
\* a newer attempt of the generation is at work.
THEOREM LateWorkersAreFenced == Spec => LateWorkersWriteNothing
<1>1. WriterInv /\ [Next]_vars => [NothingWrittenLate]_vars
  BY WritersAreNewest DEF WriterInv
<1>2. Spec => [][NothingWrittenLate]_vars
  BY <1>1, WriterInvariant, PTL DEF Spec
<1> QED
  BY <1>2 DEF LateWorkersWriteNothing, NothingWrittenLate

-----------------------------------------------------------------------------
(* ExtractionWorkers implements ExtractionRequest.                         *)

RequestState == IF request \in {"queued", "running"} THEN "open" ELSE request

LEMMA PromiseInit == Init => Promise!Init
BY DEF Init, Promise!Init

LEMMA PromiseStep == WriterInv /\ [Next]_vars => [Promise!Next]_Promise!request
<1> SUFFICES ASSUME WriterInv, [Next]_vars
             PROVE  [Promise!Next]_Promise!request
  OBVIOUS
<1>1. run \in RunRow /\ run.attempts \in Nat /\ MaxAttempts \in Nat \ {0}
      /\ request \in {"queued", "running", "complete", "failed", "cancelled"}
      /\ authorized \in BOOLEAN
  BY DEF WriterInv, HolderInv, TypeOK, RunRow
<1>2. RequestAgreesWithRun
  BY DEF WriterInv
<1>3. ASSUME RequestState' = RequestState, run'.attempts = run.attempts, kept' = kept,
             authorized' = authorized
      PROVE  [Promise!Next]_Promise!request
  BY <1>3 DEF Promise!request, RequestState
<1>4. CASE UNCHANGED <<request, run, kept, authorized>>
  BY <1>3, <1>4 DEF RequestState
<1>5. CASE TimePasses
  <2>1. run'.attempts = run.attempts
    BY <1>1, <1>5 DEF TimePasses, RunRow
  <2> QED
    BY <1>3, <1>5, <2>1 DEF TimePasses, RequestState
<1>6. CASE EndAuthority
  BY <1>6 DEF EndAuthority, Promise!Next, Promise!EndAuthority
<1>7. CASE Revoke
  <2>1. run'.attempts = run.attempts
    BY <1>1, <1>7 DEF Revoke, RunRow
  <2>2. RequestState \in {"open", "failed"} /\ RequestState' = "cancelled"
    BY <1>1, <1>7 DEF Revoke, RequestState, Finished
  <2>3. Promise!Cancel
    BY <1>7, <2>1, <2>2 DEF Revoke, Promise!Cancel, RequestState
  <2> QED
    BY <2>3 DEF Promise!Next
<1>8. ASSUME NEW w \in Worker, Work(w)
      PROVE  [Promise!Next]_Promise!request
  <2>1. Holds(w) => run.state = "running" /\ request = "running" /\ run.attempts > 0
    <3>1. run.state = "running" => request = "running"
      BY <1>1, <1>2 DEF RequestAgreesWithRun
    <3> QED
      BY <3>1 DEF Holds, WriterInv, HolderInv
  <2>2. CASE Checkpoint(w)
    <3>1. run'.attempts = run.attempts
      BY <1>1, <2>2 DEF Checkpoint, RunRow
    <3> QED
      BY <1>3, <2>1, <2>2, <3>1 DEF Checkpoint, RequestState
  <2>3. CASE Succeed(w)
    <3>1. run'.attempts = run.attempts
      BY <1>1, <2>3 DEF Succeed, RunRow
    <3>2. Promise!Succeed
      BY <2>1, <2>3, <3>1 DEF Succeed, Promise!Succeed
    <3> QED
      BY <3>2 DEF Promise!Next
  <2>4. CASE Cancel(w)
    <3>1. run'.attempts = run.attempts
      BY <1>1, <2>4 DEF Cancel, RunRow
    <3>2. Promise!Cancel
      BY <2>1, <2>4, <3>1 DEF Cancel, Promise!Cancel
    <3> QED
      BY <3>2 DEF Promise!Next
  <2>5. ASSUME NEW transient \in BOOLEAN, Fail(w, transient)
        PROVE  [Promise!Next]_Promise!request
    <3>1. run'.attempts = run.attempts
      BY <1>1, <2>5 DEF Fail, RunRow
    <3>2. Promise!Fail
      BY <2>1, <2>5, <3>1 DEF Fail, Promise!Fail
    <3> QED
      BY <3>2 DEF Promise!Next
  <2> QED
    BY <1>4, <1>8, <2>2, <2>3, <2>4, <2>5
    DEF Work, Conclude, FencedOff, SendContinuation, LoseContinuation, Return
<1>9. ASSUME NEW w \in Worker, NEW m \in Message, Receive(w, m)
      PROVE  [Promise!Next]_Promise!request
  <2>1. CASE GiveUp(w, m)
    <3>1. run'.attempts = run.attempts /\ run.attempts > 0
      BY <1>1, <2>1 DEF GiveUp, RunRow
    <3>2. request = "running"
      BY <1>1, <1>2, <2>1 DEF GiveUp, RequestAgreesWithRun
    <3>3. Promise!Fail
      BY <2>1, <3>1, <3>2 DEF GiveUp, Promise!Fail
    <3> QED
      BY <3>3 DEF Promise!Next
  <2>2. CASE Begin(w, m)
    <3>1. RequestState \in {"open", "failed"} /\ RequestState' = "open"
      BY <1>1, <2>2 DEF Begin, Mine, Finished, RequestState
    <3>2. run'.attempts = NextAttempt
      BY <1>1, <2>2 DEF Begin, RunRow
    <3>3. CASE run.state = "queued"
      <4>1. request = "queued"
        BY <1>1, <1>2, <2>2, <3>3 DEF RequestAgreesWithRun, Begin, Mine, Finished
      <4>2. run'.attempts = run.attempts
        BY <1>1, <3>2, <3>3 DEF NextAttempt
      <4> QED
        BY <1>3, <2>2, <3>1, <4>1, <4>2 DEF Begin, RequestState
    <3>4. CASE run.state # "queued"
      <4>1. run.attempts < MaxAttempts /\ run'.attempts = run.attempts + 1
        BY <1>1, <2>2, <3>2, <3>4 DEF Begin, NextAttempt
      <4>2. Promise!Attempt
        BY <2>2, <3>1, <4>1 DEF Begin, Promise!Attempt, RequestState
      <4> QED
        BY <4>2 DEF Promise!Next
    <3> QED
      BY <3>3, <3>4
  <2> QED
    BY <1>4, <1>9, <2>1, <2>2 DEF Receive, Dismiss, FindBusy
<1> QED
  BY <1>4, <1>5, <1>6, <1>7, <1>8, <1>9 DEF Next, Deliver, Redeliver, Crash, Kill, vars

\* The deliveries, attempts, recoveries and fences implement ExtractionRequest.
THEOREM WorkersKeepPromise == Spec => RequestKeepsPromise
<1>1. Init => Promise!Init
  BY PromiseInit
<1>2. WriterInv /\ [Next]_vars => [Promise!Next]_Promise!request
  BY PromiseStep
<1>3. Spec => Promise!Spec
  BY <1>1, <1>2, WriterInvariant, PTL DEF Spec, Promise!Spec
<1> QED
  BY <1>3 DEF RequestKeepsPromise

-----------------------------------------------------------------------------
(* Nothing is stranded while tasks are not ended behind the queue's back.   *)

\* What a message says of the attempts before it: one retry for each at most,
\* none while the run waits in the queue.
Sound(m) ==
    /\ m.retries <= m.after
    /\ m.generation <= run.generation
    /\ m.generation = run.generation =>
          m.after <= run.attempts /\ (run.state \in {"none", "queued"} => m.after = 0)

Retrying(w) == worker[w].phase = "returning" /\ worker[w].again

\* A worker with a message: its attempt is a later one than the message waited
\* for, so the retry it may send is sound as well.
Carries(w) ==
    /\ Sound(worker[w].message)
    /\ worker[w].phase = "handoff" => worker[w].message.generation < run.generation
    /\ Working(w) \/ Retrying(w) => worker[w].attempt > worker[w].message.after
    /\ Retrying(w) /\ worker[w].message.generation = run.generation =>
          worker[w].attempt <= run.attempts /\ run.state \notin {"none", "queued"}

DeliveryInv ==
    /\ \A m \in Message : queue[m] > 0 => Sound(m)
    /\ \A w \in Worker : worker[w].phase # "idle" => Carries(w)

\* How the run moves: on to the next generation, or without a way back into the
\* queue.
RunAdvances ==
    \/ run'.generation = run.generation + 1
    \/ /\ run'.generation = run.generation /\ run'.attempts >= run.attempts
       /\ run'.state \in {"none", "queued"} => run'.state = run.state

LEMMA RunStep == WriterInv /\ [Next]_vars => RunAdvances
<1> SUFFICES ASSUME WriterInv, [Next]_vars
             PROVE  RunAdvances
  OBVIOUS
<1>0. run \in RunRow /\ run.attempts \in Nat
  BY DEF WriterInv, HolderInv, TypeOK, RunRow
<1>1. CASE run' = run
  BY <1>0, <1>1 DEF RunAdvances
<1>2. CASE TimePasses \/ Revoke
  <2>1. /\ run'.generation = run.generation /\ run'.attempts = run.attempts
        /\ run'.state \in {run.state, "cancelled"}
    BY <1>0, <1>2 DEF TimePasses, Revoke, RunRow
  <2> QED
    BY <1>0, <2>1 DEF RunAdvances
<1>3. ASSUME NEW w \in Worker, Work(w), run' # run
      PROVE  RunAdvances
  <2>1. CASE Checkpoint(w)
    BY <1>0, <2>1 DEF Checkpoint, RunAdvances, RunRow
  <2>2. CASE Succeed(w) \/ Cancel(w) \/ \E transient \in BOOLEAN : Fail(w, transient)
    <3>1. ASSUME NEW state \in {"complete", "cancelled", "failed"}, NEW transient,
                 run' = [run EXCEPT !.state = state, !.transient = transient]
          PROVE  /\ run'.generation = run.generation /\ run'.attempts = run.attempts
                 /\ run'.state = state
      BY <1>0, <3>1 DEF RunRow
    <3>2. /\ run'.generation = run.generation /\ run'.attempts = run.attempts
          /\ run'.state \in {"complete", "cancelled", "failed"}
      BY <2>2, <3>1 DEF Succeed, Cancel, Fail
    <3> QED
      BY <1>0, <3>2 DEF RunAdvances
  <2> QED
    BY <1>3, <2>1, <2>2
    DEF Work, Conclude, FencedOff, SendContinuation, LoseContinuation, Return
<1>4. ASSUME NEW w \in Worker, NEW m \in Message, Receive(w, m), run' # run
      PROVE  RunAdvances
  <2>1. CASE GiveUp(w, m)
    BY <1>0, <2>1 DEF GiveUp, RunAdvances, RunRow
  <2>2. CASE Begin(w, m)
    <3> DEFINE n == NextAttempt
    <3>1. n >= run.attempts
      BY <1>0 DEF NextAttempt
    <3>2. run' = [run EXCEPT !.state = "running", !.attempts = n, !.recent = TRUE]
      BY <2>2 DEF Begin
    <3> HIDE DEF n
    <3> QED
      BY <1>0, <3>1, <3>2 DEF RunAdvances, RunRow
  <2> QED
    BY <1>4, <2>1, <2>2 DEF Receive, Dismiss, FindBusy
<1> QED
  BY <1>1, <1>2, <1>3, <1>4 DEF Next, Deliver, Redeliver, EndAuthority, Crash, Kill, vars

LEMMA SoundKept ==
    ASSUME TypeOK, TypeOK', RunAdvances, NEW m \in Message, Sound(m)
    PROVE  Sound(m)'
<1>1. /\ run.attempts \in Nat /\ run'.attempts \in Nat
      /\ run.generation \in Nat /\ run'.generation \in Nat
      /\ m.after \in Nat /\ m.retries \in Nat /\ m.generation \in Nat
  BY DEF TypeOK, RunRow, Message
<1> QED
  BY <1>1 DEF Sound, RunAdvances

LEMMA CarriesKept ==
    ASSUME TypeOK, TypeOK', RunAdvances, NEW w \in Worker, Carries(w), worker'[w] = worker[w]
    PROVE  Carries(w)'
<1> DEFINE m == worker[w].message
<1>1. m \in Message /\ worker[w].attempt \in Nat
  BY DEF TypeOK, Activity
<1>2. Sound(m)'
  BY <1>1, SoundKept DEF Carries
<1>3. /\ run.attempts \in Nat /\ run'.attempts \in Nat
      /\ run.generation \in Nat /\ run'.generation \in Nat /\ m.generation \in Nat
  BY <1>1 DEF TypeOK, RunRow, Message
<1>4. m.generation <= run.generation
  BY DEF Carries, Sound
<1>5. Working(w)' = Working(w) /\ Retrying(w)' = Retrying(w)
  BY DEF Working, Retrying
<1>6. Working(w) \/ Retrying(w) => worker[w].attempt > m.after
  BY DEF Carries
<1>7. worker[w].phase = "handoff" => m.generation < run'.generation
  BY <1>3 DEF Carries, RunAdvances
<1>8. Retrying(w) /\ m.generation = run'.generation =>
        worker[w].attempt <= run'.attempts /\ run'.state \notin {"none", "queued"}
  <2>1. CASE run'.generation = run.generation + 1
    BY <1>3, <1>4, <2>1
  <2>2. CASE run'.generation # run.generation + 1
    BY <1>1, <1>3, <2>2 DEF Carries, RunAdvances
  <2> QED
    BY <2>1, <2>2
<1> QED
  BY <1>2, <1>5, <1>6, <1>7, <1>8 DEF Carries

LEMMA FirstIsSound ==
    ASSUME TypeOK, NEW g \in 0..MaxGenerations, g <= run.generation
    PROVE  Sound(First(g))
<1>1. run.attempts \in Nat
  BY DEF TypeOK, RunRow
<1> QED
  BY <1>1 DEF Sound, First

\* the retry that worker w sends
Again(w) == [worker[w].message EXCEPT !.retries = @ + 1, !.after = worker[w].attempt]

LEMMA AgainIsSound ==
    ASSUME TypeOK, NEW w \in Worker, Carries(w), Retrying(w)
    PROVE  Sound(Again(w))
<1> DEFINE m == worker[w].message
           a == worker[w].attempt
<1>1. m \in Message /\ a \in Nat
  BY DEF TypeOK, Activity
<1>2. m.retries \in Nat /\ m.after \in Nat
  BY <1>1 DEF Message
<1>3. a > m.after /\ m.retries <= m.after /\ m.generation <= run.generation
  BY DEF Carries, Sound
<1>4. m.generation = run.generation => a <= run.attempts /\ run.state \notin {"none", "queued"}
  BY DEF Carries
<1>5. Again(w).retries = m.retries + 1 /\ Again(w).after = a /\ Again(w).generation = m.generation
  BY <1>1 DEF Again, Message
<1> HIDE DEF m, a
<1> QED
  BY <1>1, <1>2, <1>3, <1>4, <1>5 DEF Sound

\* A worker that has nothing to retry.
LEMMA IdleOrDone ==
    ASSUME TypeOK, TypeOK', RunAdvances, NEW w \in Worker, Carries(w),
           worker'[w].phase = "idle" \/
              (worker'[w].phase = "returning" /\ ~worker'[w].again
                 /\ worker'[w].message = worker[w].message)
    PROVE  worker'[w].phase # "idle" => Carries(w)'
<1>1. worker[w].message \in Message
  BY DEF TypeOK, Activity
<1>2. Sound(worker[w].message)'
        \/ worker'[w].phase = "idle"
  <2>1. CASE worker'[w].phase # "idle"
    <3> DEFINE m == worker[w].message
    <3>1. Sound(m)
      BY DEF Carries
    <3>2. m \in Message /\ worker'[w].message = m
      BY <1>1, <2>1
    <3> HIDE DEF m
    <3>3. \A x \in Message : Sound(x) => (/\ x.retries <= x.after
                                          /\ x.generation <= run'.generation
                                          /\ x.generation = run'.generation =>
                                               x.after <= run'.attempts
                                               /\ (run'.state \in {"none", "queued"} => x.after = 0))
      BY SoundKept DEF Sound
    <3> QED
      BY <3>1, <3>2, <3>3 DEF Sound
  <2> QED
    BY <2>1
<1> QED
  BY <1>2 DEF Carries, Working, Retrying

LEMMA DeliveryStep == WriterInv /\ DeliveryInv /\ [Next]_vars => DeliveryInv'
<1> SUFFICES ASSUME WriterInv, DeliveryInv, [Next]_vars
             PROVE  DeliveryInv'
  OBVIOUS
<1>1. TypeOK /\ TypeOK' /\ RunAdvances
  BY RunStep, TypeStep DEF WriterInv, HolderInv
<1>2. queue \in [Message -> Nat] /\ worker \in [Worker -> Activity] /\ run \in RunRow
  BY <1>1 DEF TypeOK
<1>3. \A w \in Worker : worker[w].message \in Message
  BY <1>2 DEF Activity
<1>4. ASSUME \A m \in Message : queue'[m] > 0 => queue[m] > 0 \/ Sound(m),
             \A w \in Worker : worker'[w].phase # "idle" =>
                 Carries(w)' \/ (worker'[w] = worker[w])
      PROVE  DeliveryInv'
  <2>1. \A m \in Message : queue'[m] > 0 => Sound(m)'
    BY <1>1, <1>4, SoundKept DEF DeliveryInv
  <2>2. \A w \in Worker : worker'[w].phase # "idle" => Carries(w)'
    BY <1>1, <1>4, CarriesKept DEF DeliveryInv
  <2> QED
    BY <2>1, <2>2 DEF DeliveryInv
<1>5. ASSUME NEW x, Sound(x)
      PROVE  \A m \in Message : Sent(x)[m] > 0 => queue[m] > 0 \/ Sound(m)
  BY <1>2, <1>5 DEF Sent
<1>6. CASE UNCHANGED <<queue, worker>>
  BY <1>4, <1>6
<1>7. ASSUME NEW recorded \in BOOLEAN, Deliver(recorded) \/ Redeliver
      PROVE  DeliveryInv'
  <2>1. Sound(First(run.generation))
    BY <1>1, <1>2, FirstIsSound DEF RunRow
  <2> QED
    BY <1>4, <1>5, <1>7, <2>1 DEF Deliver, Redeliver
<1>8. ASSUME NEW w \in Worker, Crash(w)
      PROVE  DeliveryInv'
  <2>1. worker' = [worker EXCEPT ![w] = Idle] /\ worker[w].phase # "idle"
    BY <1>8 DEF Crash
  <2>2. Carries(w)
    BY <2>1 DEF DeliveryInv
  <2>3. Sound(worker[w].message)
    BY <2>2 DEF Carries
  <2>4. CASE queue' = Sent(worker[w].message)
    BY <1>2, <1>4, <1>5, <2>1, <2>3, <2>4 DEF Idle
  <2>5. CASE Retrying(w) /\ queue' = [Sent(worker[w].message) EXCEPT ![Again(w)] = @ + 1]
    <3>1. Sound(Again(w))
      BY <1>1, <2>2, <2>5, AgainIsSound
    <3>2. Sent(worker[w].message) \in [Message -> Nat]
      BY <1>2, SentType
    <3>3. \A m \in Message : queue'[m] > 0 => queue[m] > 0 \/ Sound(m)
      BY <1>5, <2>3, <2>5, <3>1, <3>2
    <3> QED
      BY <1>2, <1>4, <2>1, <3>3 DEF Idle
  <2> QED
    BY <1>8, <2>4, <2>5 DEF Crash, Again, Retrying
<1>9. ASSUME NEW w \in Worker, Kill(w)
      PROVE  DeliveryInv'
  BY <1>2, <1>4, <1>9 DEF Kill, Idle
<1>10. ASSUME NEW w \in Worker, Work(w)
      PROVE  DeliveryInv'
  <2>1. Carries(w)
    BY <1>10 DEF DeliveryInv, Work, Conclude, Checkpoint, FencedOff, Succeed, Cancel, Fail,
                SendContinuation, LoseContinuation, Return
  <2>2. \A v \in Worker : v # w => worker'[v] = worker[v]
    BY <1>2, <1>10 DEF Work, Conclude, Checkpoint, FencedOff, Succeed, Cancel, Fail, Returns,
                      SendContinuation, LoseContinuation, Return
  <2>3. ASSUME NEW again, Returns(w, again)
        PROVE  /\ worker'[w].phase = "returning" /\ worker'[w].again = again
               /\ worker'[w].message = worker[w].message
               /\ worker'[w].attempt = worker[w].attempt
    <3> DEFINE r == [worker[w] EXCEPT !.phase = "returning", !.again = again]
    <3>1. worker'[w] = r
      BY <1>2, <2>3 DEF Returns
    <3>2. /\ r.phase = "returning" /\ r.again = again
          /\ r.message = worker[w].message /\ r.attempt = worker[w].attempt
      BY <1>2 DEF Activity
    <3> QED
      BY <3>1, <3>2
  <2>4. CASE Checkpoint(w)
    <3>1. worker' = [worker EXCEPT ![w].phase = "handoff"]
      BY <2>4 DEF Checkpoint
    <3>2. worker'[w].phase = "handoff" /\ worker'[w].message = worker[w].message
      BY <1>2, <3>1 DEF Activity
    <3>3. worker[w].message.generation < run'.generation
      BY <1>2, <2>4 DEF Checkpoint, Holds, RunRow
    <3>4. Sound(worker[w].message) /\ worker[w].message \in Message
      BY <1>3, <2>1 DEF Carries
    <3>5. run'.generation \in Nat /\ worker[w].message.generation \in Nat
      BY <1>1, <1>3 DEF TypeOK, RunRow, Message
    <3>6. Carries(w)'
      BY <3>2, <3>3, <3>4, <3>5 DEF Carries, Working, Retrying, Sound
    <3> QED
      BY <1>4, <2>2, <2>4, <3>6 DEF Checkpoint
  <2>5. CASE queue' = queue /\ Returns(w, FALSE)
    BY <1>1, <1>4, <2>1, <2>2, <2>3, <2>5, IdleOrDone
  <2>6. ASSUME NEW transient \in BOOLEAN, Fail(w, transient)
        PROVE  DeliveryInv'
    <3> DEFINE again == transient /\ run.attempts < MaxAttempts
    <3>1. Returns(w, again) /\ Working(w) /\ Holds(w) /\ queue' = queue
      BY <2>6 DEF Fail, Working
    <3> HIDE DEF again
    <3>2. run'.attempts = run.attempts /\ run'.generation = run.generation /\ run'.state = "failed"
      BY <1>2, <2>6 DEF Fail, RunRow
    <3>3. worker[w].attempt > worker[w].message.after /\ worker[w].attempt = run.attempts
      BY <2>1, <3>1 DEF Carries, Holds
    <3>4. Sound(worker[w].message) /\ run.attempts \in Nat
      BY <1>2, <2>1 DEF Carries, RunRow
    <3>5. Carries(w)'
      BY <2>3, <3>1, <3>2, <3>3, <3>4 DEF Carries, Working, Retrying, Sound
    <3> QED
      BY <1>4, <2>2, <3>1, <3>5
  <2>7. CASE SendContinuation(w)
    <3>1. Returns(w, FALSE) /\ queue' = Sent(First(worker[w].message.generation + 1))
          /\ worker[w].phase = "handoff"
      BY <2>7 DEF SendContinuation
    <3>2. Sound(First(worker[w].message.generation + 1))
      <4>1. worker[w].message.generation < run.generation
        BY <2>1, <3>1 DEF Carries
      <4>2. worker[w].message.generation \in Nat /\ run.generation \in 0..MaxGenerations
        BY <1>3, <1>2 DEF Message, RunRow
      <4> QED
        BY <1>1, <4>1, <4>2, FirstIsSound
    <3>3. Carries(w)'
      BY <1>1, <2>1, <2>3, <3>1, IdleOrDone
    <3> QED
      BY <1>4, <1>5, <2>2, <3>1, <3>2, <3>3
  <2>8. CASE LoseContinuation(w)
    BY <1>2, <1>4, <2>8 DEF LoseContinuation, Idle
  <2>9. CASE Return(w)
    <3>1. worker' = [worker EXCEPT ![w] = Idle]
          /\ (queue' = queue \/ (Retrying(w) /\ queue' = Sent(Again(w))))
      BY <2>9 DEF Return, Retrying, Again
    <3>2. Retrying(w) => Sound(Again(w))
      BY <1>1, <2>1, AgainIsSound
    <3> QED
      BY <1>2, <1>4, <1>5, <3>1, <3>2 DEF Idle
  <2> QED
    BY <1>10, <2>4, <2>5, <2>6, <2>7, <2>8, <2>9 DEF Work, Conclude, FencedOff, Succeed, Cancel
<1>11. ASSUME NEW w \in Worker, NEW m \in Message, Receive(w, m)
      PROVE  DeliveryInv'
  <2>1. queue[m] > 0 /\ ~Waits(m) /\ queue' = [queue EXCEPT ![m] = @ - 1]
    BY <1>11 DEF Receive, Dismiss, FindBusy, GiveUp, Begin, Take
  <2>2. Sound(m) /\ Sound(m)'
    BY <1>1, <2>1, SoundKept DEF DeliveryInv
  <2>3. \A x \in Message : queue'[x] > 0 => queue[x] > 0
    BY <1>2, <2>1
  <2>4. \A v \in Worker : v # w => worker'[v] = worker[v]
    BY <1>2, <1>11 DEF Receive, Dismiss, FindBusy, GiveUp, Begin, Becomes
  <2>5. /\ m.after \in Nat /\ run.attempts \in Nat /\ run'.attempts \in Nat
    BY <1>1 DEF TypeOK, RunRow, Message
  <2>6. CASE Becomes(w, m, "returning", FALSE, run.attempts)
    <3>1. worker'[w].phase = "returning" /\ ~worker'[w].again /\ worker'[w].message = m
      BY <1>2, <2>6 DEF Becomes
    <3>2. Carries(w)'
      BY <2>2, <3>1 DEF Carries, Working, Retrying, Sound
    <3> QED
      BY <1>4, <2>3, <2>4, <3>2
  <2>7. CASE FindBusy(w, m)
    <3>1. /\ worker'[w].phase = "returning" /\ worker'[w].message = m
          /\ worker'[w].attempt = run.attempts
      BY <1>2, <2>7 DEF FindBusy, Becomes
    <3>2. m.generation = run.generation /\ run.state = "running" /\ run.recent /\ run' = run
      BY <2>7 DEF FindBusy, Mine
    <3>3. run.attempts > m.after
      BY <2>1, <2>2, <2>5, <3>2 DEF Waits, Sound
    <3>4. Carries(w)'
      BY <2>2, <2>5, <3>1, <3>2, <3>3 DEF Carries, Working, Retrying, Sound
    <3> QED
      BY <1>4, <2>3, <2>4, <3>4
  <2>8. CASE Begin(w, m)
    <3> DEFINE n == NextAttempt
    <3>1. worker'[w].phase = "working" /\ worker'[w].message = m /\ worker'[w].attempt = n
      BY <1>2, <2>8 DEF Begin, Becomes
    <3>2. m.generation = run.generation
      BY <2>8 DEF Begin, Mine
    <3>3. n > m.after
      BY <2>2, <2>5, <3>2 DEF NextAttempt, Sound, WriterInv, HolderInv
    <3> HIDE DEF n
    <3>4. Carries(w)'
      BY <2>2, <3>1, <3>3 DEF Carries, Working, Retrying, Sound
    <3> QED
      BY <1>4, <2>3, <2>4, <3>4
  <2> QED
    BY <1>11, <2>6, <2>7, <2>8 DEF Receive, Dismiss, GiveUp
<1> QED
  BY <1>6, <1>7, <1>8, <1>9, <1>10, <1>11 DEF Next, TimePasses, EndAuthority, Revoke, vars

LEMMA DeliveryInit == Init => DeliveryInv
BY DEF Init, DeliveryInv, Idle

\* Whoever is still to end this: a message, the worker that may write, or a retry
\* about to be sent.  A worker that was overtaken does not count.
Covered ==
    \/ \E m \in Message : m.generation = run.generation /\ queue[m] > 0
    \/ \E w \in Worker : Working(w) /\ Holds(w)
    \/ \E w \in Worker : Retrying(w) /\ worker[w].message.generation = run.generation

Settled == Finished \/ GivenUp
CoverInv == Settled \/ (request = "queued" /\ (pending \/ run.state = "queued")) \/ Covered

LEMMA SettledStays == WriterInv /\ Settled /\ [Next]_vars => Settled'
<1> SUFFICES ASSUME WriterInv, Settled, [Next]_vars
             PROVE  Settled'
  OBVIOUS
<1>0. /\ run \in RunRow /\ RequestAgreesWithRun
      /\ request \in {"queued", "running", "complete", "failed", "cancelled"}
  BY DEF WriterInv, HolderInv, TypeOK
<1>1. run.state # "running"
  BY <1>0 DEF Settled, Finished, GivenUp, RequestAgreesWithRun
<1>2. CASE UNCHANGED <<request, run>>
  BY <1>2 DEF Settled, Finished, GivenUp
<1>3. CASE Revoke
  BY <1>3 DEF Revoke, Settled, Finished
<1>4. ASSUME NEW w \in Worker, Work(w)
      PROVE  Settled'
  BY <1>1, <1>2, <1>4 DEF Work, Conclude, Checkpoint, FencedOff, Succeed, Cancel, Fail, Holds,
                          SendContinuation, LoseContinuation, Return
<1>5. ASSUME NEW w \in Worker, NEW m \in Message, Receive(w, m)
      PROVE  Settled'
  BY <1>2, <1>5 DEF Receive, Dismiss, FindBusy, GiveUp, Begin, Mine, Settled
<1>6. ~TimePasses
  BY <1>1 DEF TimePasses
<1> QED
  BY <1>2, <1>3, <1>4, <1>5, <1>6
  DEF Next, Deliver, Redeliver, EndAuthority, Crash, Kill, vars

LEMMA CoverStep ==
    ASSUME kills' = 0, MaxAttempts <= MaxRetries,
           WriterInv, DeliveryInv, CoverInv, [Next]_vars
    PROVE  CoverInv'
<1>0. /\ TypeOK /\ run \in RunRow /\ RequestAgreesWithRun
      /\ queue \in [Message -> Nat] /\ worker \in [Worker -> Activity]
      /\ request \in {"queued", "running", "complete", "failed", "cancelled"}
  BY DEF WriterInv, HolderInv, TypeOK
<1>1. CASE Settled
  BY <1>1, SettledStays DEF CoverInv
<1> SUFFICES ASSUME ~Settled
             PROVE  CoverInv'
  BY <1>1
<1>2. ~Finished /\ ~GivenUp
  BY DEF Settled
<1>3. run.state = "running" => request = "running"
  BY <1>0, <1>2 DEF RequestAgreesWithRun, Finished
\* more messages, and the workers that counted go on
<1>4. ASSUME run'.state = run.state, run'.attempts = run.attempts,
             run'.generation = run.generation, request' = request,
             pending' = pending,
             \A m \in Message : queue[m] > 0 => queue'[m] > 0,
             \A v \in Worker : Working(v) /\ Holds(v) => worker'[v] = worker[v] \/ Covered',
             \A v \in Worker : Retrying(v) /\ worker[v].message.generation = run.generation =>
                 worker'[v] = worker[v] \/ Covered'
      PROVE  CoverInv'
  BY <1>2, <1>4 DEF CoverInv, Covered, Settled, Working, Retrying, Holds
<1>5. CASE UNCHANGED <<run, request, pending, queue, worker>>
  BY <1>4, <1>5
<1>6. CASE TimePasses
  <2>1. run'.state = run.state /\ run'.attempts = run.attempts /\ run'.generation = run.generation
    BY <1>0, <1>6 DEF TimePasses, RunRow
  <2> QED
    BY <1>4, <1>6, <2>1 DEF TimePasses
<1>7. CASE Revoke
  BY <1>7 DEF Revoke, CoverInv, Settled, Finished
<1>8. ASSUME NEW recorded \in BOOLEAN, Deliver(recorded) \/ Redeliver
      PROVE  CoverInv'
  <2>1. queue' = Sent(First(run.generation)) /\ run' = run
    BY <1>8 DEF Deliver, Redeliver
  <2>2. First(run.generation) \in Message /\ First(run.generation).generation = run.generation
    BY <1>0, FirstType DEF RunRow, First
  <2>3. queue'[First(run.generation)] > 0
    BY <1>0, <2>1, <2>2 DEF Sent
  <2> QED
    BY <2>1, <2>2, <2>3 DEF CoverInv, Covered
<1>9. ASSUME NEW m \in Message
      PROVE  Sent(m)[m] > 0 /\ \A x \in Message : queue[x] > 0 => Sent(m)[x] > 0
  BY <1>0 DEF Sent
<1>10. ASSUME NEW w \in Worker, Crash(w)
       PROVE  CoverInv'
  <2> DEFINE m == worker[w].message
             sent == Sent(m)
  <2>1. m \in Message
    BY <1>0 DEF Activity
  <2>2. sent \in [Message -> Nat]
    BY <1>0, SentType
  <2>3. \A x \in Message : sent[x] > 0 => queue'[x] > 0
    <3>1. queue' = sent \/ \E again : queue' = [sent EXCEPT ![again] = sent[again] + 1]
      BY <1>10 DEF Crash
    <3> HIDE DEF sent
    <3> QED
      BY <2>2, <3>1
  <2>4. queue'[m] > 0 /\ \A x \in Message : queue[x] > 0 => queue'[x] > 0
    BY <1>9, <2>1, <2>3
  <2>5. m.generation = run'.generation => Covered'
    BY <2>1, <2>4 DEF Covered
  <2>6. run' = run /\ request' = request /\ pending' = pending
        /\ \A v \in Worker : v # w => worker'[v] = worker[v]
    BY <1>0, <1>10 DEF Crash
  <2> QED
    BY <1>4, <2>4, <2>5, <2>6 DEF Holds
<1>11. ASSUME NEW w \in Worker, Kill(w)
       PROVE  CoverInv'
  BY <1>0, <1>11 DEF Kill, TypeOK
<1>12. ASSUME NEW w \in Worker, Work(w)
       PROVE  CoverInv'
  <2>1. \A v \in Worker : v # w => worker'[v] = worker[v]
    BY <1>0, <1>12 DEF Work, Conclude, Checkpoint, FencedOff, Succeed, Cancel, Fail, Returns,
                       SendContinuation, LoseContinuation, Return
  <2>2. CASE Checkpoint(w)
    <3>1. run'.state = "queued" /\ request' = "queued"
      BY <1>0, <2>2 DEF Checkpoint, RunRow
    <3> QED
      BY <3>1 DEF CoverInv
  <2>3. CASE FencedOff(w) \/ LoseContinuation(w)
    BY <1>4, <2>1, <2>3 DEF FencedOff, LoseContinuation, Working, Retrying
  <2>4. CASE Succeed(w) \/ Cancel(w)
    BY <2>4 DEF Succeed, Cancel, CoverInv, Settled, Finished
  <2>5. ASSUME NEW transient \in BOOLEAN, Fail(w, transient)
        PROVE  CoverInv'
    <3> DEFINE again == transient /\ run.attempts < MaxAttempts
               r == [worker[w] EXCEPT !.phase = "returning", !.again = again]
    <3>1. worker'[w] = r /\ Holds(w)
      BY <1>0, <2>5 DEF Fail, Returns
    <3>2. r.phase = "returning" /\ r.again = again /\ r.message = worker[w].message
      BY <1>0 DEF Activity
    <3>3. /\ run'.state = "failed" /\ run'.transient = transient
          /\ run'.attempts = run.attempts /\ run'.generation = run.generation
      BY <1>0, <2>5 DEF Fail, RunRow
    <3>4. CASE again
      <4>1. worker'[w].phase = "returning" /\ worker'[w].again = again
            /\ worker'[w].message = worker[w].message
        BY <3>1, <3>2
      <4>2. worker'[w].again
        BY ONLY <3>4, <4>1, Zenon
      <4>3. worker'[w].message.generation = run'.generation
        BY <3>1, <3>3, <4>1 DEF Holds
      <4>4. Retrying(w)'
        BY <4>1, <4>2 DEF Retrying
      <4> QED
        BY <4>3, <4>4 DEF CoverInv, Covered
    <3>5. CASE ~again
      <4>1. run.attempts \in Nat
        BY <1>0 DEF RunRow
      <4> QED
        BY <3>3, <3>5, <4>1 DEF CoverInv, Settled, GivenUp
    <3> QED
      BY <3>4, <3>5
  <2>6. CASE SendContinuation(w)
    <3>1. \A x \in Message : queue[x] > 0 => queue'[x] > 0
      BY <1>0, <2>6 DEF SendContinuation, Sent
    <3> QED
      BY <1>4, <2>1, <2>6, <3>1 DEF SendContinuation, Working, Retrying
  <2>7. CASE Return(w)
    <3> DEFINE m == worker[w].message
    <3>1. /\ worker[w].phase = "returning" /\ run' = run /\ request' = request
          /\ pending' = pending
          /\ queue' = IF Retrying(w) /\ m.retries < MaxRetries THEN Sent(Again(w)) ELSE queue
      BY <2>7 DEF Return, Retrying, Again
    <3>2. \A x \in Message : queue[x] > 0 => queue'[x] > 0
      BY <1>0, <3>1 DEF Sent
    <3>3. Retrying(w) /\ m.generation = run.generation => Covered'
      <4> SUFFICES ASSUME Retrying(w), m.generation = run.generation
                   PROVE  Covered'
        OBVIOUS
      <4>1. m \in Message /\ worker[w].attempt \in 0..MaxAttempts
        BY <1>0 DEF Activity
      <4>2. m.retries <= m.after /\ m.after < worker[w].attempt
        BY <3>1 DEF DeliveryInv, Carries, Sound
      <4>3. m.retries \in Nat /\ m.after \in Nat
        BY <4>1 DEF Message
      <4>4. m.retries < MaxRetries
        BY <4>1, <4>2, <4>3
      <4>5. Again(w) \in Message /\ Again(w).generation = m.generation
        <5>1. Again(w) \in Message
          BY <4>1, <4>4, AgainType DEF Again
        <5> QED
          BY <4>1, <5>1 DEF Again, Message
      <4>6. queue'[Again(w)] > 0
        BY <1>9, <3>1, <4>4, <4>5
      <4> QED
        BY <3>1, <4>5, <4>6 DEF Covered
    <3> QED
      BY <1>4, <2>1, <3>1, <3>2, <3>3 DEF Working
  <2> QED
    BY <1>12, <2>2, <2>3, <2>4, <2>5, <2>6, <2>7 DEF Work, Conclude
<1>13. ASSUME NEW w \in Worker, NEW m \in Message, Receive(w, m)
       PROVE  CoverInv'
  <2>1. worker[w].phase = "idle" /\ queue' = [queue EXCEPT ![m] = @ - 1]
    BY <1>13 DEF Receive, Dismiss, FindBusy, GiveUp, Begin, Take
  <2>2. \A x \in Message : x # m /\ queue[x] > 0 => queue'[x] > 0
    BY <1>0, <2>1
  <2>3. \A v \in Worker : v # w => worker'[v] = worker[v]
    BY <1>0, <1>13 DEF Receive, Dismiss, FindBusy, GiveUp, Begin, Becomes
  <2>4. CASE Dismiss(w, m)
    <3>1. m.generation # run.generation /\ run' = run /\ request' = request /\ pending' = pending
      BY <1>2, <2>4 DEF Dismiss
    <3> QED
      BY <2>1, <2>2, <2>3, <3>1 DEF CoverInv, Covered, Settled, Working, Retrying, Holds,
                                    Finished, GivenUp
  <2>5. CASE FindBusy(w, m)
    <3>1. worker'[w].phase = "returning" /\ worker'[w].again /\ worker'[w].message = m
      BY <1>0, <2>5 DEF FindBusy, Becomes
    <3>2. m.generation = run'.generation
      BY <2>5 DEF FindBusy, Mine
    <3> QED
      BY <3>1, <3>2 DEF CoverInv, Covered, Retrying
  <2>6. CASE GiveUp(w, m)
    <3>1. run'.state = "failed" /\ run'.attempts >= MaxAttempts
      BY <1>0, <2>6 DEF GiveUp, RunRow
    <3> QED
      BY <3>1 DEF CoverInv, Settled, GivenUp
  <2>7. CASE Begin(w, m)
    <3>1. worker'[w].phase = "working" /\ worker'[w].message = m /\ worker'[w].attempt = NextAttempt
      BY <1>0, <2>7 DEF Begin, Becomes
    <3>2. /\ run'.state = "running" /\ run'.attempts = NextAttempt
          /\ run'.generation = run.generation /\ m.generation = run.generation
      BY <1>0, <2>7 DEF Begin, Mine, RunRow
    <3> QED
      BY <3>1, <3>2 DEF CoverInv, Covered, Working, Holds
  <2> QED
    BY <1>13, <2>4, <2>5, <2>6, <2>7 DEF Receive
<1>14. CASE EndAuthority
  BY <1>5, <1>14 DEF EndAuthority
<1> QED
  BY <1>5, <1>6, <1>7, <1>8, <1>10, <1>11, <1>12, <1>13, <1>14 DEF Next, vars

LEMMA CoveredIsUnderway ==
    ASSUME MaxAttempts <= MaxRetries, TypeOK, DeliveryInv, CoverInv
    PROVE  NeverStranded
<1>1. ASSUME NEW w \in Worker, Retrying(w)
      PROVE  worker[w].message.retries < MaxRetries
  <2> DEFINE m == worker[w].message
  <2>1. m \in Message /\ worker[w].attempt \in 0..MaxAttempts
    BY DEF TypeOK, Activity
  <2>2. m.retries <= m.after /\ m.after < worker[w].attempt
    BY <1>1 DEF DeliveryInv, Carries, Sound, Retrying
  <2>3. m.retries \in Nat /\ m.after \in Nat
    BY <2>1 DEF Message
  <2> QED
    BY <2>1, <2>2, <2>3
<1> QED
  BY <1>1 DEF CoverInv, Settled, Covered, NeverStranded, Underway, Working, Retrying, Holds

\* kills never goes down.
LEMMA KillsStay ==
    ASSUME TypeOK, [Next]_vars, kills' = 0
    PROVE  kills = 0
<1>1. kills \in Nat
  BY BoundsAssumption DEF TypeOK
<1>2. CASE \E w \in Worker : Kill(w)
  <2>1. kills' = kills + 1
    BY <1>2 DEF Kill
  <2> QED
    BY <1>1, <2>1
<1>3. ASSUME NEW w \in Worker, Work(w) \/ Crash(w) \/ (\E m \in Message : Receive(w, m))
      PROVE  kills' = kills
  <2>1. CASE Work(w)
    BY <2>1 DEF Work, Conclude, Checkpoint, FencedOff, Succeed, Cancel, Fail,
       SendContinuation, LoseContinuation, Return, faults
  <2>2. CASE Crash(w)
    BY <2>2 DEF Crash
  <2>3. ASSUME NEW m \in Message, Receive(w, m)
        PROVE  kills' = kills
    BY <2>3 DEF Receive, Dismiss, FindBusy, GiveUp, Begin, faults
  <2> QED
    BY <1>3, <2>1, <2>2, <2>3
<1>4. CASE \/ Redeliver \/ TimePasses \/ EndAuthority \/ Revoke
           \/ \E recorded \in BOOLEAN : Deliver(recorded)
  BY <1>4 DEF Redeliver, TimePasses, EndAuthority, Revoke, Deliver, faults
<1>5. CASE UNCHANGED vars
  BY <1>5 DEF vars
<1> QED
  BY <1>2, <1>3, <1>4, <1>5 DEF Next

\* If a message may be retried as often as there are attempts, then as long as
\* no task ends behind the queue's back no loss of workers, continuations or
\* deliveries, in any number, strands a request.
THEOREM NothingIsStranded ==
    MaxAttempts <= MaxRetries => (Spec => []NeverStranded)
<1> SUFFICES ASSUME MaxAttempts <= MaxRetries
             PROVE  Spec => []NeverStranded
  OBVIOUS
<1> DEFINE Cover == kills = 0 => CoverInv
           Inv == WriterInv /\ DeliveryInv /\ Cover
<1>1. Init => DeliveryInv /\ Cover
  BY DeliveryInit DEF Init, CoverInv
<1>2. Inv /\ [Next]_vars => DeliveryInv' /\ Cover'
  BY DeliveryStep, CoverStep, KillsStay DEF WriterInv, HolderInv
<1>3. Inv => NeverStranded
  <2>1. kills \in Nat \/ ~WriterInv
    BY DEF WriterInv, HolderInv, TypeOK
  <2> QED
    BY <2>1, CoveredIsUnderway DEF WriterInv, HolderInv, NeverStranded
<1>4. Spec => [](DeliveryInv /\ Cover)
  BY <1>1, <1>2, WriterInvariant, PTL DEF Spec
<1> QED
  BY <1>3, <1>4, WriterInvariant, PTL

\* If a message may be retried as often as there are attempts: one worker
\* holds a request, request and run agree, nothing is stranded, and whoever
\* lost the lease writes nothing.
THEOREM WorkersStayAgreed ==
    MaxAttempts <= MaxRetries => (Spec => WorkersAgree)
<1> SUFFICES ASSUME MaxAttempts <= MaxRetries
             PROVE  Spec => WorkersAgree
  OBVIOUS
<1>1. Spec => []NeverStranded
  BY NothingIsStranded
<1> QED
  BY <1>1, OneWorkerHolds, RequestAndRunAgree, LateWorkersAreFenced, PTL DEF WorkersAgree

=============================================================================
