------------------------ MODULE SourceControl_proofs ------------------------
(***************************************************************************)
(* What the Operator of a Source relies on: notices, the schedule,         *)
(* decisions in bulk, and the crawl of the Source with its fetcher.  They  *)
(* share no variable, so each is proved of its own specification, for any  *)
(* number of runs, days, tasks, Sources, forms, pages, Operators and       *)
(* previews, and for any web site, limits, threads and browsers.           *)
(***************************************************************************)
EXTENDS SourceNotices, SourceSchedule, SourceBulk, SourceCrawl, FiniteSetTheorems, WellFoundedInduction, TLAPS

-----------------------------------------------------------------------------
(* Notices.                                                                 *)

\* A run that said something about the health of the Source.
Considered(r) == health[r] \in {"usable", "useless"}

(* The inductive invariant: the newest run of the record is the newest one  *)
(* that was considered, and the only alert there may be is the one that the *)
(* record remembers while the Source keeps failing.                         *)
NoticesInv ==
    /\ NoticesTypeOK
    /\ EveryChangeIsToldOnce /\ counted \in Nat /\ told \in Nat
    /\ \A r \in Run : Considered(r) => r <= record.newest
    /\ record.newest # 0 => /\ Considered(record.newest)
                            /\ record.failing <=> health[record.newest] = "useless"
    /\ record.newest = 0 => ~record.failing
    /\ record.notified => record.failing
    /\ alerts \in {0, 1}
    /\ record.failing /\ ~record.notified => alerts = 0

LEMMA NoticesStart == NoticesInit => NoticesInv
BY NoticesAssumption
DEF NoticesAssumption, NoticesInit, NoticesInv, NoticesTypeOK, EveryChangeIsToldOnce, Record, Run,
    Considered

\* Counting changes what is pending and nothing else.
LEMMA CountingFields ==
  ASSUME NEW s \in Record, NEW n \in Nat
  PROVE  /\ Counting(s, n) \in Record
         /\ Counting(s, n).pending = s.pending + n /\ Counting(s, n).newest = s.newest
         /\ Counting(s, n).failing = s.failing /\ Counting(s, n).notified = s.notified
BY DEF Counting, Record

\* Alerting changes whether the Operator was told and nothing else.
LEMMA AlertedFields ==
  ASSUME NEW s \in Record
  PROVE  /\ Alerted(s) \in Record
         /\ Alerted(s).pending = s.pending /\ Alerted(s).newest = s.newest
         /\ Alerted(s).failing = s.failing
         /\ Alerted(s).notified <=> s.notified \/ Alerting(s)
<1>1. CASE Alerting(s)
  BY <1>1 DEF Alerted, Record
<1>2. CASE ~Alerting(s)
  BY <1>2 DEF Alerted
<1> QED
  BY <1>1, <1>2

\* A newer run decides on the health; whoever was told stays told while it is bad.
LEMMA HealthyFields ==
  ASSUME NEW s \in Record, NEW r \in Run, NEW ok \in BOOLEAN
  PROVE  /\ r <= s.newest => Healthy(s, r, ok) = s
         /\ r > s.newest => /\ Healthy(s, r, ok) \in Record
                            /\ Healthy(s, r, ok).pending = s.pending
                            /\ Healthy(s, r, ok).newest = r
                            /\ Healthy(s, r, ok).failing <=> ~ok
                            /\ Healthy(s, r, ok).notified <=> s.notified /\ ~ok
<1>1. r \in Nat /\ s.newest \in Nat /\ r \in 0..MaxRuns
  BY NoticesAssumption DEF NoticesAssumption, Record, Run
<1>2. CASE r <= s.newest
  BY <1>1, <1>2 DEF Healthy
<1>3. CASE r > s.newest
  <2>1. ~(r <= s.newest)
    BY <1>1, <1>3
  <2> QED
    BY <1>1, <1>3, <2>1 DEF Healthy, Record
<1> QED
  BY <1>1, <1>2, <1>3

\* A summary leaves nothing pending.
LEMMA SummarizedFields ==
  ASSUME NEW s \in Record, NEW d, delivery[d] \in 0..MaxDays
  PROVE  /\ Summarized(s, d) \in Record
         /\ Summarized(s, d).pending = 0 /\ Summarized(s, d).newest = s.newest
         /\ Summarized(s, d).failing = s.failing /\ Summarized(s, d).notified = s.notified
BY DEF Summarized, Record

\* The completion of a run keeps the invariant, whichever runs came before.
LEMMA CompletionKeepsNotices ==
  ASSUME NoticesInv, NEW r \in Run, NEW ok \in BOOLEAN, NEW n \in 0..1, CompleteRun(r, ok, n)
  PROVE  NoticesInv'
<1> USE NoticesAssumption DEF NoticesAssumption
<1> DEFINE before == Counting(record, n)
           after == Healthy(before, r, ok)
<1>1. record \in Record /\ health \in [Run -> {"none", "unknown", "usable", "useless"}]
  BY DEF NoticesInv, NoticesTypeOK
<1>2. n \in Nat /\ record.pending \in Nat /\ record.newest \in 0..MaxRuns
  BY <1>1 DEF Record
<1>3. r \in 1..MaxRuns /\ r # record.newest /\ health[r] = "none"
  BY DEF CompleteRun, NoticesInv, Considered, Run
<1>4. /\ health' \in [Run -> {"none", "unknown", "usable", "useless"}]
      /\ health'[r] = (IF ok THEN "usable" ELSE "useless")
      /\ \A q \in Run : q # r => health'[q] = health[q]
  BY <1>1 DEF CompleteRun
<1>5. UNCHANGED <<day, reachable, summaries, delivery, told>> /\ counted' = counted + n
  BY DEF CompleteRun
<1>6. /\ before \in Record /\ before.pending = record.pending + n
      /\ before.newest = record.newest /\ before.failing = record.failing
      /\ before.notified = record.notified
  BY <1>1, <1>2, CountingFields
<1> HIDE DEF before
<1>7. CASE r < record.newest
  <2>1. after = before /\ after.newest # r
    BY <1>2, <1>3, <1>6, <1>7, HealthyFields
  <2>2. record' = before
    BY <2>1 DEF CompleteRun, before
  <2>3. alerts' = alerts + 0 /\ alerts \in {0, 1}
    BY <2>1, <1>6 DEF CompleteRun, before, NoticesInv
  <2>4. NoticesTypeOK' /\ EveryChangeIsToldOnce' /\ counted' \in Nat /\ told' \in Nat
    BY <1>2, <1>4, <1>5, <1>6, <2>2 DEF NoticesInv, NoticesTypeOK, EveryChangeIsToldOnce
  <2>5. \A q \in Run : Considered(q)' => q <= record'.newest
    BY <1>2, <1>3, <1>4, <1>6, <1>7, <2>2 DEF NoticesInv, Considered, Run
  <2>6. /\ record'.newest # 0 => /\ Considered(record.newest)'
                                 /\ record'.failing <=> health'[record'.newest] = "useless"
        /\ record'.newest = 0 => ~record'.failing
    <3>1. record.newest # 0 => record.newest \in Run /\ record.newest # r
      BY <1>2, <1>3 DEF Run
    <3>2. record.newest # 0 => health'[record.newest] = health[record.newest]
      BY <3>1, <1>4
    <3> QED
      BY <1>6, <2>2, <3>2 DEF NoticesInv, Considered
  <2> QED
    BY <1>6, <2>2, <2>3, <2>4, <2>5, <2>6 DEF NoticesInv
<1>8. CASE r > record.newest
  <2>1. /\ after \in Record /\ after.pending = record.pending + n /\ after.newest = r
        /\ after.failing <=> ~ok
        /\ after.notified <=> record.notified /\ ~ok
    BY <1>6, <1>8, HealthyFields
  <2>2. record' = Alerted(after)
        /\ alerts' = (IF after.failing /\ ~record.failing THEN 0 ELSE alerts)
                       + (IF Alerting(after) THEN 1 ELSE 0)
    BY <2>1 DEF CompleteRun, before
  <2> HIDE DEF after
  <2>3. /\ record' \in Record /\ record'.newest = r /\ record'.pending = record.pending + n
        /\ record'.failing <=> ~ok
        /\ record'.notified <=> (record.notified /\ ~ok) \/ Alerting(after)
    BY <2>1, <2>2, AlertedFields
  <2>4. /\ alerts' \in {0, 1}
        /\ record'.failing /\ ~record'.notified => alerts' = 0
        /\ record'.notified => record'.failing
    <3>1. Alerting(after) => ~ok /\ ~record.notified
      BY <2>1 DEF Alerting
    <3>2. alerts \in {0, 1} /\ (record.failing /\ ~record.notified => alerts = 0)
      BY DEF NoticesInv
    <3> QED
      BY <2>1, <2>2, <2>3, <3>1, <3>2
  <2>5. NoticesTypeOK' /\ EveryChangeIsToldOnce' /\ counted' \in Nat /\ told' \in Nat
    BY <1>2, <1>4, <1>5, <2>3 DEF NoticesInv, NoticesTypeOK, EveryChangeIsToldOnce
  <2>6. \A q \in Run : Considered(q)' => q <= record'.newest
    BY <1>2, <1>3, <1>4, <1>8, <2>3 DEF NoticesInv, Considered, Run
  <2>7. /\ record'.newest # 0 /\ Considered(record.newest)'
        /\ record'.failing <=> health'[record'.newest] = "useless"
    BY <1>3, <1>4, <2>3 DEF Considered
  <2> QED
    BY <2>4, <2>5, <2>6, <2>7 DEF NoticesInv
<1> QED
  BY <1>2, <1>3, <1>7, <1>8

\* A delivery keeps the invariant: what it tells is no longer pending.
LEMMA DeliveryKeepsNotices ==
  ASSUME NoticesInv, NEW d \in Deliverer, Deliver(d)
  PROVE  NoticesInv'
<1> USE NoticesAssumption DEF NoticesAssumption
<1>1. /\ record \in Record /\ summaries \subseteq 1..day /\ day \in 1..MaxDays
      /\ delivery \in [Deliverer -> 0..day] /\ delivery[d] \in 1..day
  BY DEF NoticesInv, NoticesTypeOK, Deliver
<1>2. delivery' \in [Deliverer -> 0..day] /\ UNCHANGED <<day, reachable, health, counted>>
  BY <1>1 DEF Deliver
<1> DEFINE sent == Alerted(record)
<1>3. /\ sent \in Record /\ sent.pending = record.pending /\ sent.newest = record.newest
      /\ sent.failing = record.failing
      /\ sent.notified <=> record.notified \/ Alerting(record)
  BY <1>1, AlertedFields
<1>4. /\ alerts' \in {0, 1}
      /\ sent.failing /\ ~sent.notified => alerts' = 0
      /\ sent.notified => sent.failing
  <2>1. alerts' = alerts + (IF Alerting(record) THEN 1 ELSE 0)
    BY DEF Deliver
  <2>2. Alerting(record) => record.failing /\ ~record.notified
    BY DEF Alerting
  <2> QED
    BY <1>3, <2>1, <2>2 DEF NoticesInv
<1>5. ASSUME record' \in Record, record'.newest = record.newest,
             record'.failing = record.failing, record'.notified = sent.notified,
             summaries' \subseteq 1..day, told' \in Nat, counted = told' + record'.pending
      PROVE  NoticesInv'
  <2>1. NoticesTypeOK' /\ EveryChangeIsToldOnce' /\ counted' \in Nat /\ told' \in Nat
    BY <1>1, <1>2, <1>5 DEF NoticesInv, NoticesTypeOK, EveryChangeIsToldOnce
  <2> QED
    BY <1>2, <1>3, <1>4, <1>5, <2>1 DEF NoticesInv, Considered
<1> HIDE DEF sent
<1>6. CASE ~SummaryDue(d)
  <2>1. record' = sent /\ UNCHANGED <<summaries, told>>
    BY <1>6 DEF Deliver, sent
  <2> QED
    BY <1>1, <1>3, <1>5, <2>1 DEF NoticesInv, EveryChangeIsToldOnce
<1>7. CASE SummaryDue(d)
  <2>1. /\ record' = Summarized(sent, d) /\ told' = told + record.pending
        /\ summaries' = summaries \cup {delivery[d]}
    BY <1>7 DEF Deliver, sent
  <2>2. delivery[d] \in 0..MaxDays
    BY <1>1
  <2>3. /\ record' \in Record /\ record'.pending = 0 /\ record'.newest = record.newest
        /\ record'.failing = record.failing /\ record'.notified = sent.notified
    BY <1>3, <2>1, <2>2, SummarizedFields
  <2>4. summaries' \subseteq 1..day
    BY <1>1, <2>1
  <2>5. told \in Nat /\ record.pending \in Nat /\ counted = told + record.pending
    BY <1>1 DEF Record, NoticesInv, EveryChangeIsToldOnce
  <2> QED
    BY <1>5, <2>1, <2>3, <2>4, <2>5
<1> QED
  BY <1>6, <1>7

LEMMA NoticesStep == NoticesInv /\ [NoticesNext]_noticeVars => NoticesInv'
<1> SUFFICES ASSUME NoticesInv, [NoticesNext]_noticeVars PROVE NoticesInv'
  OBVIOUS
<1> USE NoticesAssumption DEF NoticesAssumption
<1>1. ASSUME NEW r \in Run, NEW ok \in BOOLEAN, NEW n \in 0..1, CompleteRun(r, ok, n)
      PROVE  NoticesInv'
  BY <1>1, CompletionKeepsNotices
<1>2. ASSUME NEW r \in Run, NEW n \in 0..1, CompleteUnattempted(r, n)
      PROVE  NoticesInv'
  <2>1. record \in Record /\ health \in [Run -> {"none", "unknown", "usable", "useless"}]
    BY DEF NoticesInv, NoticesTypeOK
  <2>2. /\ record' \in Record /\ record'.pending = record.pending + n
        /\ record'.newest = record.newest /\ record'.failing = record.failing
        /\ record'.notified = record.notified /\ record.pending \in Nat
    <3>1. n \in Nat /\ record' = Counting(record, n) /\ record.pending \in Nat
      BY <1>2, <2>1 DEF CompleteUnattempted, Record
    <3> QED
      BY <2>1, <3>1, CountingFields
  <2>3. /\ health' \in [Run -> {"none", "unknown", "usable", "useless"}]
        /\ \A q \in Run : Considered(q)' <=> Considered(q)
        /\ \A q \in Run : health'[q] = "useless" <=> health[q] = "useless"
    BY <1>2, <2>1 DEF CompleteUnattempted, Considered
  <2>4. record.newest = 0 \/ record.newest \in Run
    BY <2>1 DEF Record, Run
  <2>5. UNCHANGED <<day, summaries, delivery, told, alerts>> /\ counted' = counted + n
    BY <1>2 DEF CompleteUnattempted
  <2>6. NoticesTypeOK' /\ EveryChangeIsToldOnce' /\ counted' \in Nat /\ told' \in Nat
    BY <2>2, <2>3, <2>5 DEF NoticesInv, NoticesTypeOK, EveryChangeIsToldOnce
  <2>7. record'.newest # 0 => /\ Considered(record.newest)'
                              /\ record'.failing <=> health'[record'.newest] = "useless"
    BY <2>2, <2>3, <2>4 DEF NoticesInv, Considered
  <2> QED
    BY <2>2, <2>3, <2>5, <2>6, <2>7 DEF NoticesInv
<1>3. CASE Handover \/ UNCHANGED noticeVars
  BY <1>3 DEF Handover, noticeVars, NoticesInv, NoticesTypeOK, EveryChangeIsToldOnce, Considered
<1>4. CASE Midnight
  <2>1. day' \in 1..MaxDays /\ 1..day \subseteq 1..day' /\ 0..day \subseteq 0..day'
    BY <1>4 DEF Midnight, NoticesInv, NoticesTypeOK
  <2> QED
    BY <1>4, <2>1 DEF Midnight, NoticesInv, NoticesTypeOK, EveryChangeIsToldOnce, Considered
<1>5. ASSUME NEW d \in Deliverer, StartDelivery(d) \/ RepeatedDate(d)
      PROVE  NoticesInv'
  <2>1. day \in Nat /\ delivery \in [Deliverer -> 0..day]
    BY DEF NoticesInv, NoticesTypeOK
  <2>2. delivery' \in [Deliverer -> 0..day]
    BY <1>5, <2>1 DEF StartDelivery, RepeatedDate
  <2>3. UNCHANGED <<day, record, summaries, health, counted, told, alerts>>
    BY <1>5 DEF StartDelivery, RepeatedDate
  <2> QED
    BY <2>2, <2>3 DEF NoticesInv, NoticesTypeOK, EveryChangeIsToldOnce, Considered
<1>6. ASSUME NEW d \in Deliverer, Deliver(d)
      PROVE  NoticesInv'
  BY <1>6, DeliveryKeepsNotices
<1> QED
  BY <1>1, <1>2, <1>3, <1>4, <1>5, <1>6 DEF NoticesNext

\* Whatever runs complete in whichever order, however often the Source changes
\* hands and however many tasks deliver: every change is told once, the record
\* shows the health of the newest run, and a failure is told once.
THEOREM NoticesStand == NoticesSpec => []NoticesAreSound
<1>1. NoticesInv => NoticesAreSound
  <2>1. NoticesInv => HealthIsOfTheNewestRun
    <3> SUFFICES ASSUME NoticesInv, NEW r \in Run, Considered(r),
                        \A q \in Run : Considered(q) => q <= r
                 PROVE  record.failing <=> health[r] = "useless"
      BY DEF HealthIsOfTheNewestRun, Considered
    <3>1. record.newest \in 0..MaxRuns /\ r \in 1..MaxRuns /\ r <= record.newest
      BY DEF NoticesInv, NoticesTypeOK, Record, Run
    <3>2. record.newest \in Run
      BY <3>1, NoticesAssumption DEF Run, NoticesAssumption
    <3>3. record.newest # 0 /\ Considered(record.newest)
      BY <3>1, NoticesAssumption DEF NoticesInv, NoticesAssumption
    <3>4. r = record.newest
      BY <3>1, <3>2, <3>3, NoticesAssumption DEF NoticesAssumption
    <3> QED
      BY <3>3, <3>4 DEF NoticesInv
  <2> QED
    BY <2>1 DEF NoticesInv, NoticesAreSound, FailureIsToldOnce
<1> QED
  BY <1>1, NoticesStart, NoticesStep, PTL DEF NoticesSpec
-----------------------------------------------------------------------------
(* The schedule.                                                            *)

\* A set of numbers that is not empty has a least one.
LEMMA LeastNumber ==
  ASSUME NEW S, S \subseteq Nat, S # {}
  PROVE  \E n \in S : \A m \in S : n <= m
<1> DEFINE Less == {ss \in Nat \X Nat : ss[1] < ss[2]}
<1>0. IsWellFoundedOn(Less, Nat)
  BY NatLessThanWellFounded, Zenon DEF OpToRel
<1>1. PICK n \in S : \A m \in S : ~ (<<m, n>> \in Less)
  <2> HIDE DEF Less
  <2> QED
    BY <1>0, WFMin
<1>2. ASSUME NEW m \in S PROVE n <= m
  <2>1. n \in Nat /\ m \in Nat
    OBVIOUS
  <2>2. ~ (m < n)
    BY <1>1, <2>1
  <2> QED
    BY <2>1, <2>2
<1> QED
  BY <1>2

\* A task that finds a Source due takes one on at least.
LEMMA FirstIsNotEmpty ==
  ASSUME NEW S, S \subseteq Source, S # {}, schedule \in [Source -> Schedule]
  PROVE  First(S) # {}
<1> USE ScheduleAssumption DEF ScheduleAssumption
<1> DEFINE Times == {schedule[s].next : s \in S}
<1>1. \A s \in S : schedule[s].next \in Nat /\ s \in Nat
  BY DEF Schedule
<1>2. PICK n \in Times : \A m \in Times : n <= m
  <2>1. Times \subseteq Nat /\ Times # {}
    BY <1>1
  <2> HIDE DEF Times
  <2> QED
    BY <2>1, LeastNumber
<1> DEFINE Earliest == {s \in S : schedule[s].next = n}
<1>3. PICK s \in Earliest : \A t \in Earliest : s <= t
  <2>1. Earliest \subseteq Nat /\ Earliest # {}
    BY <1>1, <1>2
  <2> HIDE DEF Earliest
  <2> QED
    BY <2>1, LeastNumber
<1>4. {t \in S : Before(t, s)} = {s}
  <2>1. s \in S /\ Before(s, s)
    BY <1>1, <1>3 DEF Before
  <2>2. ASSUME NEW t \in S, Before(t, s) PROVE t = s
    <3>1. schedule[s].next <= schedule[t].next
      BY <1>2, <1>3, <2>1
    <3>2. schedule[t].next = schedule[s].next /\ t <= s
      BY <1>1, <2>1, <2>2, <3>1 DEF Before
    <3>3. s <= t
      BY <1>3, <3>2
    <3> QED
      BY <1>1, <2>1, <3>2, <3>3
  <2> QED
    BY <2>1, <2>2
<1>5. Cardinality({t \in S : Before(t, s)}) = 1
  BY <1>4, FS_Singleton
<1> QED
  BY <1>3, <1>5 DEF First

(* The inductive invariant: the next crawl lies an interval after the last   *)
(* one, and a form that shows the revision in force shows its interval.      *)
ScheduleInv ==
    /\ ScheduleTypeOK
    /\ task \in [Dispatcher -> [busy : BOOLEAN, now : Nat, todo : SUBSET Source]]
    /\ crawls \in [Source -> BOOLEAN] /\ last \in [Source -> Nat]
    /\ \A s \in Source : schedule[s].next # 0 => last[s] + schedule[s].every <= schedule[s].next
    /\ \A f \in Form : /\ form[f].revision <= schedule[form[f].source].revision
                       /\ form[f].revision = schedule[form[f].source].revision
                            => form[f].every = schedule[form[f].source].every

\* Tasks as the invariant has them.
TasksAre(tasks, now) ==
    /\ tasks \in [Dispatcher -> [busy : BOOLEAN, now : Nat, todo : SUBSET Source]]
    /\ \A d \in Dispatcher : /\ tasks[d].now \in 0..now
                             /\ tasks[d].todo \subseteq Source
                             /\ tasks[d].busy <=> tasks[d].todo # {}

\* The types that the steps need.
LEMMA ScheduleTypes ==
  ScheduleInv =>
     /\ time \in 1..MaxTime /\ time \in Nat
     /\ schedule \in [Source -> Schedule] /\ operation \in [Source -> Operation]
     /\ TasksAre(task, time)
     /\ form \in [Form -> [source : Source, revision : 0..MaxRevision, every : Interval \cup {0}]]
     /\ crawls \in [Source -> BOOLEAN] /\ last \in [Source -> Nat]
BY ScheduleAssumption DEF ScheduleAssumption, ScheduleInv, ScheduleTypeOK, TasksAre

\* The columns of a Source are numbers.
LEMMA ColumnTypes ==
  ScheduleInv => \A s \in Source : /\ schedule[s] \in Schedule
                                   /\ schedule[s].every \in Nat /\ schedule[s].next \in Nat
                                   /\ schedule[s].revision \in Nat
<1> SUFFICES ASSUME ScheduleInv, NEW s \in Source
             PROVE  /\ schedule[s] \in Schedule
                    /\ schedule[s].every \in Nat /\ schedule[s].next \in Nat
                    /\ schedule[s].revision \in Nat
  OBVIOUS
<1>1. schedule[s] \in Schedule
  BY ScheduleTypes
<1>2. Interval \cup {0} \subseteq Nat /\ 0..MaxRevision \subseteq Nat
  BY ScheduleAssumption DEF ScheduleAssumption
<1> QED
  BY <1>1, <1>2 DEF Schedule

LEMMA ScheduleStart == ScheduleInit => ScheduleInv
<1> SUFFICES ASSUME ScheduleInit PROVE ScheduleInv
  OBVIOUS
<1> USE ScheduleAssumption DEF ScheduleAssumption
<1>1. /\ time \in 1..MaxTime /\ schedule \in [Source -> Schedule]
      /\ \A s \in Source : schedule[s].next = 0 /\ schedule[s].every = 0 /\ schedule[s].revision = 0
  BY DEF ScheduleInit, Schedule
<1>2. operation \in [Source -> Operation]
  <2>1. \A r \in BOOLEAN : [paused |-> FALSE, assigned |-> TRUE, ready |-> r] \in Operation
    BY DEF Operation
  <2> QED
    BY <2>1 DEF ScheduleInit
<1>5. \A f \in Form : \E s \in Source : form[f] = [source |-> s, revision |-> 0, every |-> 0]
  BY DEF ScheduleInit
<1>6. /\ form \in [Form -> [source : Source, revision : 0..MaxRevision, every : Interval \cup {0}]]
      /\ \A f \in Form : form[f].revision = 0 /\ form[f].every = 0 /\ form[f].source \in Source
  <2>1. \A s \in Source : [source |-> s, revision |-> 0, every |-> 0] \in
                          [source : Source, revision : 0..MaxRevision, every : Interval \cup {0}]
    OBVIOUS
  <2>2. form \in [Form -> {[source |-> s, revision |-> 0, every |-> 0] : s \in Source}]
    BY DEF ScheduleInit
  <2>3. form \in [Form -> [source : Source, revision : 0..MaxRevision, every : Interval \cup {0}]]
    BY <2>1, <2>2
  <2> QED
    BY <1>5, <2>3
<1>3. /\ task \in [Dispatcher -> [busy : BOOLEAN, now : Nat, todo : SUBSET Source]]
      /\ \A d \in Dispatcher : task[d].busy = FALSE /\ task[d].now = 0 /\ task[d].todo = {}
  BY DEF ScheduleInit, Idle
<1>4. /\ crawls \in [Source -> BOOLEAN] /\ last \in [Source -> Nat]
      /\ \A s \in Source : last[s] = 0
  BY DEF ScheduleInit
<1>7. ScheduleTypeOK
  BY <1>1, <1>2, <1>3, <1>6 DEF ScheduleTypeOK
<1>8. ASSUME NEW f \in Form
      PROVE  /\ form[f].revision <= schedule[form[f].source].revision
             /\ form[f].every = schedule[form[f].source].every
  <2>1. form[f].revision = 0 /\ form[f].every = 0 /\ form[f].source \in Source
    BY <1>6
  <2>2. schedule[form[f].source].revision = 0 /\ schedule[form[f].source].every = 0
    BY <1>1, <2>1
  <2> QED
    BY <2>1, <2>2
<1> QED
  BY <1>1, <1>3, <1>4, <1>7, <1>8 DEF ScheduleInv

\* Serving a Source takes it off the list of its task.
LEMMA ServedKeepsTasks ==
  ASSUME ScheduleInv, NEW d \in Dispatcher, NEW s \in task[d].todo, Served(d, s)
  PROVE  TasksAre(task', time)
<1> DEFINE Task == [busy : BOOLEAN, now : Nat, todo : SUBSET Source]
<1>1. /\ task \in [Dispatcher -> Task] /\ time \in Nat
      /\ \A e \in Dispatcher : /\ task[e].now \in 0..time
                               /\ task[e].todo \subseteq Source
                               /\ task[e].busy <=> task[e].todo # {}
  BY ScheduleTypes DEF TasksAre
<1>2. Idle \in Task /\ Idle.now = 0 /\ Idle.todo = {} /\ ~Idle.busy
  BY DEF Idle
<1> DEFINE left == Without(task[d], s)
<1>3. left \in Task /\ left.now \in 0..time /\ (left.busy <=> left.todo # {})
  <2>1. CASE task[d].todo = {s}
    BY <1>1, <1>2, <2>1 DEF Without
  <2>2. CASE task[d].todo # {s}
    <3>1. left = [task[d] EXCEPT !.todo = @ \ {s}]
      BY <2>2 DEF Without
    <3>2. /\ left \in Task /\ left.now = task[d].now /\ left.busy = task[d].busy
          /\ left.todo = task[d].todo \ {s}
      BY <1>1, <3>1
    <3>3. left.todo # {} /\ task[d].busy
      BY <1>1, <2>2, <3>2
    <3> QED
      BY <1>1, <3>2, <3>3
  <2> QED
    BY <2>1, <2>2
<1>4. task' = [task EXCEPT ![d] = left]
  BY DEF Served
<1> HIDE DEF left
<1> QED
  BY <1>1, <1>3, <1>4 DEF TasksAre

\* What is set on a Source's row: the revision grows, or it and the interval stay.
LEMMA RowKeepsSchedule ==
  ASSUME ScheduleInv, NEW s \in Source, NEW row \in Schedule, NEW t \in Nat,
         schedule' = [schedule EXCEPT ![s] = row], last' = [last EXCEPT ![s] = t],
         row.next # 0 => row.every # 0 /\ t + row.every <= row.next,
         \/ row.revision = schedule[s].revision + 1
         \/ row.revision = schedule[s].revision /\ row.every = schedule[s].every,
         crawls' \in [Source -> BOOLEAN],
         UNCHANGED <<time, operation, form>>,
         TasksAre(task', time)
  PROVE  ScheduleInv'
<1> USE ScheduleAssumption DEF ScheduleAssumption
<1>1. /\ schedule \in [Source -> Schedule] /\ last \in [Source -> Nat]
      /\ form \in [Form -> [source : Source, revision : 0..MaxRevision, every : Interval \cup {0}]]
  BY ScheduleTypes
<1>2. /\ schedule' \in [Source -> Schedule] /\ last' \in [Source -> Nat]
      /\ schedule'[s] = row /\ last'[s] = t
      /\ \A r \in Source : r # s => schedule'[r] = schedule[r] /\ last'[r] = last[r]
  BY <1>1
<1>3. ScheduleTypeOK'
  BY <1>2 DEF ScheduleInv, ScheduleTypeOK, TasksAre
<1>4. \A r \in Source : schedule'[r].next # 0 => last'[r] + schedule'[r].every <= schedule'[r].next
  BY <1>2 DEF ScheduleInv
<1>5. ASSUME NEW f \in Form
      PROVE  /\ form[f].revision <= schedule'[form[f].source].revision
             /\ form[f].revision = schedule'[form[f].source].revision
                  => form[f].every = schedule'[form[f].source].every
  <2>1. form[f].source \in Source /\ form[f].revision \in Nat /\ schedule[s].revision \in Nat
    BY <1>1, ColumnTypes
  <2>2. /\ form[f].revision <= schedule[form[f].source].revision
        /\ form[f].revision = schedule[form[f].source].revision
             => form[f].every = schedule[form[f].source].every
    BY DEF ScheduleInv
  <2>3. CASE form[f].source # s
    BY <1>2, <2>1, <2>2, <2>3
  <2>4. CASE form[f].source = s
    BY <1>2, <2>1, <2>2, <2>4
  <2> QED
    BY <2>3, <2>4
<1> QED
  BY <1>2, <1>3, <1>4, <1>5 DEF ScheduleInv, TasksAre

LEMMA SetKeepsSchedule ==
  ASSUME ScheduleInv, NEW f \in Form, NEW every \in Interval \cup {0}, SetSchedule(f, every)
  PROVE  ScheduleInv'
<1> USE ScheduleAssumption DEF ScheduleAssumption
<1> DEFINE s == form[f].source
           row == WithInterval(s, every)
<1>1. s \in Source /\ time \in Nat /\ every \in Nat
  BY ScheduleTypes
<1>2. schedule[s].revision \in Nat /\ schedule[s].revision + 1 \in 0..MaxRevision
  <2>1. schedule[s].revision \in Nat /\ schedule[s].revision < MaxRevision
    BY <1>1, ColumnTypes DEF SetSchedule
  <2> QED
    BY <2>1
<1>3. /\ row \in Schedule /\ row.revision = schedule[s].revision + 1 /\ row.every = every
      /\ row.next = IF every = 0 THEN 0 ELSE time + every
  BY <1>1, <1>2 DEF WithInterval, Schedule
<1>4. row.next # 0 => row.every # 0 /\ time + row.every <= row.next
  BY <1>1, <1>3
<1>5. /\ schedule' = [schedule EXCEPT ![s] = row] /\ last' = [last EXCEPT ![s] = time]
      /\ UNCHANGED <<time, operation, form, task, crawls>>
  BY DEF SetSchedule, surroundings
<1>6. crawls' \in [Source -> BOOLEAN] /\ TasksAre(task', time)
  BY <1>5, ScheduleTypes DEF TasksAre
<1> HIDE DEF s, row
<1> QED
  BY <1>1, <1>3, <1>4, <1>5, <1>6, RowKeepsSchedule

\* The task leaves the next crawl an interval after the time it goes by.
LEMMA OutcomeFields ==
  ASSUME ScheduleInv, NEW d \in Dispatcher, NEW s \in Source, NEW accepted \in BOOLEAN
  PROVE  /\ Outcome(d, s, accepted) \in Schedule
         /\ Outcome(d, s, accepted).next = task[d].now + schedule[s].every
         /\ Outcome(d, s, accepted).every = schedule[s].every
         /\ Outcome(d, s, accepted).revision = schedule[s].revision
<1>1. schedule[s] \in Schedule /\ task[d].now \in Nat /\ schedule[s].every \in Nat
  BY ScheduleTypes, ColumnTypes DEF TasksAre
<1>2. task[d].now + schedule[s].every \in Nat
  BY <1>1
<1> QED
  BY <1>1, <1>2 DEF Outcome, Schedule

LEMMA DispatchKeepsSchedule ==
  ASSUME ScheduleInv, NEW d \in Dispatcher, NEW s \in Source, Dispatch(d, s)
  PROVE  ScheduleInv'
<1> DEFINE accepted == operation[s].assigned /\ operation[s].ready
           row == Outcome(d, s, accepted)
<1>1. accepted \in BOOLEAN
  OBVIOUS
<1>2. /\ schedule' = [schedule EXCEPT ![s] = row] /\ last' = [last EXCEPT ![s] = task[d].now]
      /\ crawls' = [crawls EXCEPT ![s] = ~@]
      /\ UNCHANGED <<time, operation, form>>
      /\ s \in task[d].todo /\ Served(d, s) /\ schedule[s].every # 0
  BY DEF Dispatch, StillDue, Scheduled, surroundings
<1>3. /\ row \in Schedule /\ row.next = task[d].now + schedule[s].every
      /\ row.every = schedule[s].every /\ row.revision = schedule[s].revision
  BY <1>1, OutcomeFields
<1>4. task[d].now \in Nat /\ schedule[s].every \in Nat /\ crawls' \in [Source -> BOOLEAN]
  BY <1>2, ScheduleTypes, ColumnTypes DEF TasksAre
<1> HIDE DEF row
<1>5. row.next # 0 => row.every # 0 /\ task[d].now + row.every <= row.next
  BY <1>2, <1>3, <1>4
<1> QED
  BY <1>2, <1>3, <1>4, <1>5, ServedKeepsTasks, RowKeepsSchedule

LEMMA ScheduleStep == ScheduleInv /\ [ScheduleNext]_scheduleVars => ScheduleInv'
<1> SUFFICES ASSUME ScheduleInv, [ScheduleNext]_scheduleVars PROVE ScheduleInv'
  OBVIOUS
<1> USE ScheduleAssumption DEF ScheduleAssumption
<1> DEFINE Task == [busy : BOOLEAN, now : Nat, todo : SUBSET Source]
           Forms == [source : Source, revision : 0..MaxRevision, every : Interval \cup {0}]
<1>0. /\ time \in 1..MaxTime /\ time \in Nat
      /\ task \in [Dispatcher -> Task] /\ form \in [Form -> Forms]
      /\ schedule \in [Source -> Schedule] /\ operation \in [Source -> Operation]
  BY ScheduleTypes DEF TasksAre
<1>1. ASSUME NEW f \in Form, NEW s \in Source, OpenForm(f, s)
      PROVE  ScheduleInv'
  <2> DEFINE new == [source |-> s, revision |-> schedule[s].revision, every |-> schedule[s].every]
  <2>1. form' = [form EXCEPT ![f] = new] /\ new \in Forms
    <3>1. schedule[s] \in Schedule
      BY <1>0
    <3> QED
      BY <1>1, <3>1 DEF OpenForm, Schedule
  <2>2. UNCHANGED <<time, schedule, task, crawls, last, operation>>
    BY <1>1 DEF OpenForm, history, surroundings
  <2>3. form' \in [Form -> Forms]
    BY <1>0, <2>1
  <2>4. ASSUME NEW g \in Form
        PROVE  /\ form'[g].revision <= schedule[form'[g].source].revision
               /\ form'[g].revision = schedule[form'[g].source].revision
                    => form'[g].every = schedule[form'[g].source].every
    <3>1. CASE g = f
      <4>1. form'[g] = new /\ schedule[s].revision \in Nat
        BY <1>0, <2>1, <3>1, ColumnTypes
      <4> QED
        BY <4>1
    <3>2. CASE g # f
      BY <1>0, <2>1, <3>2 DEF ScheduleInv
    <3> QED
      BY <3>1, <3>2
  <2> QED
    BY <2>2, <2>3, <2>4 DEF ScheduleInv, ScheduleTypeOK
<1>2. ASSUME NEW f \in Form, NEW every \in Interval \cup {0}, SetSchedule(f, every)
      PROVE  ScheduleInv'
  BY <1>2, SetKeepsSchedule
<1>3. ASSUME NEW s \in Source, ChangeOperation(s)
      PROVE  ScheduleInv'
  <2>1. operation' \in [Source -> Operation]
    <3>1. operation[s] \in Operation
      BY <1>0
    <3>2. \E new \in Operation : operation' = [operation EXCEPT ![s] = new]
      <4>1. /\ [operation[s] EXCEPT !.paused = ~@] \in Operation
            /\ [operation[s] EXCEPT !.assigned = ~@] \in Operation
            /\ [operation[s] EXCEPT !.ready = ~@] \in Operation
        BY <3>1 DEF Operation
      <4> QED
        BY <1>3, <4>1 DEF ChangeOperation
    <3> QED
      BY <1>0, <3>2
  <2> QED
    BY <1>3, <2>1 DEF ChangeOperation, history, ScheduleInv, ScheduleTypeOK
<1>4. CASE HourPasses
  <2>1. time' \in 1..MaxTime /\ 0..time \subseteq 0..time'
    BY <1>0, <1>4 DEF HourPasses
  <2> QED
    BY <1>4, <2>1 DEF HourPasses, history, surroundings, ScheduleInv, ScheduleTypeOK
<1>5. ASSUME NEW d \in Dispatcher, StartTask(d) \/ Kill(d)
      PROVE  ScheduleInv'
  <2>1. UNCHANGED <<time, schedule, form, crawls, last, operation>>
    BY <1>5 DEF StartTask, Kill, history, surroundings
  <2>2. \E new \in Task : /\ task' = [task EXCEPT ![d] = new]
                          /\ new.now \in 0..time /\ (new.busy <=> new.todo # {})
    <3>1. CASE StartTask(d)
      <4>1. Listable \subseteq Source /\ Listable # {} /\ First(Listable) \subseteq Listable
        BY <3>1 DEF StartTask, Listable, First
      <4>2. First(Listable) # {}
        BY <1>0, <4>1, FirstIsNotEmpty
      <4>3. time \in Nat /\ time \in 0..time
        BY <1>0
      <4> QED
        <5> DEFINE new == [busy |-> TRUE, now |-> time, todo |-> First(Listable)]
        <5>1. task' = [task EXCEPT ![d] = new]
          BY <3>1 DEF StartTask
        <5>2. new \in Task /\ new.now \in 0..time /\ (new.busy <=> new.todo # {})
          BY <4>1, <4>2, <4>3
        <5> QED
          BY <5>1, <5>2
    <3>2. CASE Kill(d)
      <4>1. Idle \in Task /\ Idle.now \in 0..time /\ Idle.todo = {} /\ ~Idle.busy
        BY <1>0 DEF Idle
      <4> QED
        BY <3>2, <4>1 DEF Kill
    <3> QED
      BY <1>5, <3>1, <3>2
  <2>3. TasksAre(task', time)
    BY <1>0, <2>2, ScheduleTypes DEF TasksAre
  <2> QED
    BY <2>1, <2>3 DEF ScheduleInv, ScheduleTypeOK, TasksAre
<1>6. ASSUME NEW d \in Dispatcher, NEW s \in Source, Skip(d, s)
      PROVE  ScheduleInv'
  <2>1. UNCHANGED <<time, schedule, form, crawls, last, operation>>
        /\ s \in task[d].todo /\ Served(d, s)
    BY <1>6 DEF Skip, history, surroundings
  <2>2. TasksAre(task', time)
    BY <2>1, ServedKeepsTasks
  <2> QED
    BY <2>1, <2>2 DEF ScheduleInv, ScheduleTypeOK, TasksAre
<1>7. ASSUME NEW d \in Dispatcher, NEW s \in Source, Dispatch(d, s)
      PROVE  ScheduleInv'
  BY <1>7, DispatchKeepsSchedule
<1>8. CASE UNCHANGED scheduleVars
  BY <1>8 DEF scheduleVars, ScheduleInv, ScheduleTypeOK
<1> QED
  BY <1>1, <1>2, <1>3, <1>4, <1>5, <1>6, <1>7, <1>8 DEF ScheduleNext, Serve

\* What a step may do to the schedule and the crawls of a Source.
LEMMA ScheduleChanges ==
  ASSUME ScheduleInv, [ScheduleNext]_scheduleVars, NEW s \in Source
  PROVE  /\ crawls'[s] # crawls[s] => last'[s] >= last[s] + schedule[s].every
         /\ operation[s].paused /\ schedule'[s] # schedule[s]
              => schedule'[s].revision # schedule[s].revision
         /\ schedule'[s].every # schedule[s].every
              => \E f \in Form : /\ form[f].source = s /\ form[f].every = schedule[s].every
                                 /\ form[f].revision = schedule[s].revision
<1> USE ScheduleAssumption DEF ScheduleAssumption
<1>0. /\ schedule \in [Source -> Schedule] /\ schedule[s].revision \in Nat
      /\ schedule[s].every \in Nat /\ schedule[s].next \in Nat
      /\ last \in [Source -> Nat] /\ crawls \in [Source -> BOOLEAN]
      /\ \A d \in Dispatcher : task[d].now \in Nat
  BY ScheduleTypes, ColumnTypes DEF TasksAre
<1>1. ASSUME NEW f \in Form, NEW every \in Interval \cup {0}, SetSchedule(f, every)
      PROVE  /\ UNCHANGED crawls
             /\ schedule'[s] # schedule[s] =>
                   /\ schedule'[s].revision = schedule[s].revision + 1
                   /\ form[f].source = s /\ form[f].revision = schedule[s].revision
                   /\ form[f].every = schedule[s].every
  <2>1. /\ form[f].revision = schedule[form[f].source].revision /\ UNCHANGED crawls
        /\ schedule' = [schedule EXCEPT ![form[f].source] = WithInterval(form[f].source, every)]
    BY <1>1 DEF SetSchedule
  <2>2. form[f].every = schedule[form[f].source].every
    BY <2>1 DEF ScheduleInv
  <2>3. schedule'[s] # schedule[s] =>
          form[f].source = s /\ schedule'[s] = WithInterval(s, every)
    BY <1>0, <2>1
  <2>4. WithInterval(s, every).revision = schedule[s].revision + 1
    BY DEF WithInterval
  <2> QED
    BY <2>1, <2>2, <2>3, <2>4
<1>2. ASSUME NEW d \in Dispatcher, NEW t \in Source, Dispatch(d, t)
      PROVE  /\ crawls'[s] # crawls[s] => last'[s] >= last[s] + schedule[s].every
             /\ schedule'[s] # schedule[s] => ~operation[s].paused
             /\ schedule'[s].every = schedule[s].every
  <2> DEFINE accepted == operation[t].assigned /\ operation[t].ready
  <2>1. /\ schedule' = [schedule EXCEPT ![t] = Outcome(d, t, accepted)]
        /\ crawls' = [crawls EXCEPT ![t] = ~@] /\ last' = [last EXCEPT ![t] = task[d].now]
        /\ ~operation[t].paused
        /\ schedule[t].next # 0 /\ schedule[t].next <= task[d].now
    BY <1>2 DEF Dispatch, StillDue, Scheduled
  <2>2. accepted \in BOOLEAN
    OBVIOUS
  <2>3. Outcome(d, t, accepted).every = schedule[t].every
    BY <2>2, OutcomeFields
  <2> HIDE DEF accepted
  <2>4. CASE s = t
    <3>1. last[s] + schedule[s].every <= schedule[s].next
      BY <2>1, <2>4 DEF ScheduleInv
    <3>2. last'[s] = task[d].now /\ schedule[s].next <= task[d].now
      BY <1>0, <2>1, <2>4
    <3> QED
      BY <1>0, <2>1, <2>3, <2>4, <3>1, <3>2
  <2>5. CASE s # t
    BY <1>0, <2>1, <2>5
  <2> QED
    BY <2>4, <2>5
<1>3. CASE UNCHANGED <<schedule, crawls>>
  BY <1>3
<1>4. CASE \E f \in Form, every \in Interval \cup {0} : SetSchedule(f, every)
  BY <1>0, <1>1, <1>4
<1>5. CASE \E d \in Dispatcher, t \in Source : Dispatch(d, t)
  BY <1>2, <1>5
<1> QED
  BY <1>3, <1>4, <1>5
  DEF ScheduleNext, scheduleVars, Serve, OpenForm, ChangeOperation, HourPasses, StartTask, Kill,
      Skip, history

\* However many tasks list a Source, however late they come to it and whatever
\* changes meanwhile: its crawls lie an interval apart, a pause keeps its
\* schedule, and the schedule is replaced only as its Operator saw it.
THEOREM ScheduleStands == ScheduleSpec => ScheduleHolds
<1> DEFINE Apart == \A s \in Source :
              crawls'[s] # crawls[s] => last'[s] >= last[s] + schedule[s].every
           Kept == \A s \in Source :
              operation[s].paused /\ schedule'[s] # schedule[s]
                 => schedule'[s].revision # schedule[s].revision
           Seen == \A s \in Source :
              schedule'[s].every # schedule[s].every
                 => \E f \in Form : form[f].source = s /\ form[f].every = schedule[s].every
                                    /\ form[f].revision = schedule[s].revision
<1>1. ScheduleSpec => []ScheduleInv
  BY ScheduleStart, ScheduleStep, PTL DEF ScheduleSpec
<1>2. ScheduleInv /\ [ScheduleNext]_scheduleVars =>
         [Apart]_scheduleVars /\ [Kept]_scheduleVars /\ [Seen]_scheduleVars
  BY ScheduleChanges
<1>3. ScheduleInv => ScheduleTypeOK
  BY DEF ScheduleInv
<1> QED
  BY <1>1, <1>2, <1>3, PTL
  DEF ScheduleSpec, ScheduleHolds, AnIntervalApart, PauseKeepsTheSchedule, ReplacedAsSeen
-----------------------------------------------------------------------------
(* Decisions in bulk.                                                       *)

\* A result gives way to a later one of its page, or to the decision on it.
Superseded(a, b) ==
    \/ a.version < b.version
    \/ /\ a.version = b.version /\ a.state = "pending"
       /\ b.state \in {"published", "rejected"}
Onward(a, b) == a = b \/ Superseded(a, b)

\* Nothing takes back a transfer, a grant or a change of the mode.
NotBehind(a, b) == a.transfers <= b.transfers /\ a.grant <= b.grant /\ a.mode <= b.mode
Ahead(a, b) == NotBehind(a, b) /\ (a.transfers < b.transfers \/ a.grant < b.grant \/ a.mode < b.mode)

\* A preview as it is signed, about results and a desk that were there.
IsPreview(x) ==
    /\ x = [actor |-> x.actor, action |-> x.action, pages |-> x.pages, digest |-> x.digest,
            expired |-> x.expired]
    /\ x.actor \in Operator /\ x.action \in Action /\ x.pages \subseteq Page
    /\ x.digest.desk \in Desk
    /\ \A p \in x.pages : x.digest.items[p].result \in Result

\* What a preview showed is as it was, or was overtaken for good.
Current(x) ==
    /\ NotBehind(x.digest.desk, desk)
    /\ \A p \in x.pages : Onward(x.digest.items[p].result, page[p])
Overtaken(x) ==
    \/ Ahead(x.digest.desk, desk)
    \/ \E p \in x.pages : Superseded(x.digest.items[p].result, page[p])

\* A decision made in a batch, of a result that nothing can be decided on again.
Settled(e) ==
    /\ e[1] \in Page /\ e[2] \in Nat
    /\ \/ e[2] < page[e[1]].version
       \/ e[2] = page[e[1]].version /\ page[e[1]].state \in {"published", "rejected"}

(* The inductive invariant: what touches a preview overtakes its digest, and *)
(* what a batch decided is settled.                                          *)
PreviewInv ==
    /\ token = [t \in Token |-> token[t]]
    /\ \A t \in Issued : IsPreview(token[t]) /\ Current(token[t])
    /\ stale \subseteq Issued
    /\ \A t \in stale : Overtaken(token[t])
BatchInv ==
    /\ BatchesAreTold
    /\ \A e \in decided : Settled(e)
RowsInv ==
    /\ desk \in Desk /\ page \in [Page -> Result]
    /\ restricted \subseteq Page /\ leased \subseteq Page
    /\ \A p \in leased : page[p].state = "pending"
    /\ shown \in [Operator -> Shown]
    /\ applied \in [Token -> {0, 1}]
BulkInv == RowsInv /\ PreviewInv /\ BatchInv

LEMMA OnwardIsTransitive ==
  ASSUME NEW a \in Result, NEW b \in Result, NEW c \in Result
  PROVE  /\ Onward(a, b) /\ Onward(b, c) => Onward(a, c)
         /\ Superseded(a, b) /\ Onward(b, c) => Superseded(a, c)
         /\ Onward(a, b) /\ Superseded(b, c) => Superseded(a, c)
<1>1. a.version \in Nat /\ b.version \in Nat /\ c.version \in Nat
  BY BulkAssumption DEF BulkAssumption, Result
<1> QED
  BY <1>1 DEF Onward, Superseded

LEMMA AheadIsTransitive ==
  ASSUME NEW a \in Desk, NEW b \in Desk, NEW c \in Desk
  PROVE  /\ NotBehind(a, b) /\ NotBehind(b, c) => NotBehind(a, c)
         /\ Ahead(a, b) /\ NotBehind(b, c) => Ahead(a, c)
         /\ NotBehind(a, b) /\ Ahead(b, c) => Ahead(a, c)
<1>1. /\ a.transfers \in Nat /\ b.transfers \in Nat /\ c.transfers \in Nat
      /\ a.grant \in Nat /\ b.grant \in Nat /\ c.grant \in Nat
      /\ a.mode \in Nat /\ b.mode \in Nat /\ c.mode \in Nat
  BY DEF Desk
<1> QED
  BY <1>1 DEF NotBehind, Ahead

\* An issued token is one that holds a preview.
LEMMA PreviewIsIssued ==
  ASSUME NEW x, IsPreview(x) PROVE x # Unused
BY BulkAssumption DEF BulkAssumption, IsPreview, Unused

LEMMA BulkStart == BulkInit => BulkInv
<1> SUFFICES ASSUME BulkInit PROVE BulkInv
  OBVIOUS
<1>1. desk \in Desk
  BY DEF BulkInit, Desk
<1>2. page \in [Page -> Result]
  <2>1. 1 \in 0..MaxVersion
    BY BulkAssumption DEF BulkAssumption
  <2>2. \A s \in {"none", "pending"} :
           [version |-> 1, state |-> s, valid |-> TRUE, grant |-> 0] \in Result
    BY <2>1 DEF Result
  <2> QED
    BY <2>2 DEF BulkInit
<1>3. shown \in [Operator -> Shown] /\ applied \in [Token -> {0, 1}]
  BY BulkAssumption DEF BulkInit, Shown, BulkAssumption
<1>4. RowsInv
  BY <1>1, <1>2, <1>3 DEF RowsInv, BulkInit
<1>5. Issued = {} /\ token = [t \in Token |-> token[t]] /\ stale = {}
  BY DEF BulkInit, Issued
<1>6. BatchInv
  BY DEF BulkInit, BatchInv, BatchesAreTold
<1> QED
  BY <1>4, <1>5, <1>6 DEF BulkInv, PreviewInv

\* While no token changes, previews stay current, and those that become stale
\* are overtaken by what changed.
LEMMA PreviewsKept ==
  ASSUME BulkInv, page' \in [Page -> Result], desk' \in Desk, UNCHANGED token,
         \A p \in Page : Onward(page[p], page'[p]),
         NotBehind(desk, desk'),
         stale' \subseteq Issued,
         \A t \in stale' : \/ t \in stale
                           \/ Ahead(desk, desk')
                           \/ \E p \in token[t].pages : Superseded(page[p], page'[p])
  PROVE  PreviewInv'
<1>1. Issued' = Issued /\ token' = token
  BY DEF Issued
<1>2. ASSUME NEW t \in Issued
      PROVE  /\ IsPreview(token[t]) /\ token[t].digest.desk \in Desk
             /\ NotBehind(token[t].digest.desk, desk)
             /\ \A p \in token[t].pages :
                   /\ p \in Page
                   /\ token[t].digest.items[p].result \in Result
                   /\ page[p] \in Result /\ page'[p] \in Result
                   /\ Onward(token[t].digest.items[p].result, page[p])
                   /\ Onward(page[p], page'[p])
  BY DEF BulkInv, RowsInv, PreviewInv, IsPreview, Current
<1>3. desk \in Desk
  BY DEF BulkInv, RowsInv
<1>4. ASSUME NEW t \in Issued
      PROVE  IsPreview(token'[t]) /\ Current(token[t])'
  BY <1>1, <1>2, <1>3, OnwardIsTransitive, AheadIsTransitive DEF Current
<1>5. ASSUME NEW t \in stale'
      PROVE  Overtaken(token[t])'
  <2>0. t \in Issued
    OBVIOUS
  <2>1. CASE t \in stale
    <3>1. Overtaken(token[t])
      BY <2>1 DEF BulkInv, PreviewInv
    <3> QED
      BY <1>1, <1>2, <1>3, <2>0, <3>1, OnwardIsTransitive, AheadIsTransitive DEF Overtaken
  <2>2. CASE Ahead(desk, desk')
    BY <1>1, <1>2, <1>3, <2>0, <2>2, AheadIsTransitive DEF Overtaken
  <2>3. CASE \E p \in token[t].pages : Superseded(page[p], page'[p])
    BY <1>1, <1>2, <2>0, <2>3, OnwardIsTransitive DEF Overtaken
  <2> QED
    BY <2>1, <2>2, <2>3
<1> QED
  BY <1>1, <1>4, <1>5 DEF PreviewInv, BulkInv

\* Pages that go onward leave what batches decided settled.
LEMMA SettledStays ==
  ASSUME BulkInv, page' \in [Page -> Result], \A p \in Page : Onward(page[p], page'[p]),
         NEW e, Settled(e)
  PROVE  Settled(e)'
<1>1. /\ e[1] \in Page /\ e[2] \in Nat
      /\ page[e[1]].version \in Nat /\ page'[e[1]].version \in Nat
  BY BulkAssumption DEF BulkAssumption, BulkInv, RowsInv, Settled, Result
<1>2. Onward(page[e[1]], page'[e[1]])
  BY <1>1
<1> QED
  BY <1>1, <1>2 DEF Settled, Onward, Superseded

LEMMA BatchesKept ==
  ASSUME BulkInv, page' \in [Page -> Result], \A p \in Page : Onward(page[p], page'[p]),
         UNCHANGED <<decided, notified>>
  PROVE  BatchInv'
BY SettledStays DEF BulkInv, BatchInv, BatchesAreTold

LEMMA DeskKeepsBulk ==
  ASSUME BulkInv, NEW d \in Desk, ChangeDesk(d), Ahead(desk, d),
         UNCHANGED <<page, restricted, token, applied, shown, decided, notified>>,
         leased' \subseteq leased
  PROVE  BulkInv'
<1>1. desk' = d /\ stale' = stale \cup Issued /\ NotBehind(desk, desk')
  BY DEF ChangeDesk, Ahead
<1>2. /\ page' \in [Page -> Result] /\ \A p \in Page : Onward(page[p], page'[p])
      /\ stale' \subseteq Issued
  BY <1>1 DEF BulkInv, RowsInv, PreviewInv, Onward
<1>3. PreviewInv'
  BY <1>1, <1>2, PreviewsKept
<1>4. BatchInv'
  BY <1>2, BatchesKept
<1>5. RowsInv'
  BY <1>1 DEF BulkInv, RowsInv
<1> QED
  BY <1>3, <1>4, <1>5 DEF BulkInv

\* Steps that change no result, token or history.
LEMMA AsideKeepsBulk ==
  ASSUME BulkInv, UNCHANGED <<desk, page, token, applied, decided, notified, stale>>,
         restricted' \subseteq Page, leased' \subseteq Page,
         \A p \in leased' : page[p].state = "pending",
         shown' \in [Operator -> Shown]
  PROVE  BulkInv'
<1>1. /\ page' \in [Page -> Result] /\ \A p \in Page : Onward(page[p], page'[p])
      /\ desk' \in Desk /\ stale' \subseteq Issued /\ desk' = desk /\ stale' = stale
  BY DEF BulkInv, RowsInv, PreviewInv, Onward
<1>2. NotBehind(desk, desk')
  BY <1>1 DEF NotBehind, Desk
<1>3. PreviewInv'
  BY <1>1, <1>2, PreviewsKept
<1>4. BatchInv'
  BY <1>1, BatchesKept
<1>5. RowsInv'
  BY <1>1 DEF BulkInv, RowsInv
<1> QED
  BY <1>3, <1>4, <1>5 DEF BulkInv

\* Results that change: every preview about one of them becomes stale.
LEMMA ResultsKeepBulk ==
  ASSUME BulkInv, NEW S \in SUBSET Page, page' \in [Page -> Result],
         \A p \in Page \ S : page'[p] = page[p],
         \A p \in S : Superseded(page[p], page'[p]),
         leased' = leased \ S, stale' = stale \cup About(S),
         restricted' \subseteq Page, applied' \in [Token -> {0, 1}],
         UNCHANGED <<desk, token, shown>>
  PROVE  RowsInv' /\ PreviewInv' /\ \A p \in Page : Onward(page[p], page'[p])
<1>1. \A p \in Page : Onward(page[p], page'[p])
  BY DEF Onward
<1>2. desk' \in Desk /\ desk' = desk
  BY DEF BulkInv, RowsInv
<1>3. NotBehind(desk, desk')
  BY <1>2 DEF NotBehind, Desk
<1>4. stale' \subseteq Issued
  BY DEF About, BulkInv, PreviewInv
<1>5. \A t \in stale' : t \in stale \/ \E p \in token[t].pages : Superseded(page[p], page'[p])
  BY DEF About
<1>6. PreviewInv'
  BY <1>1, <1>2, <1>3, <1>4, <1>5, PreviewsKept
<1>7. RowsInv'
  BY <1>2 DEF BulkInv, RowsInv
<1> QED
  BY <1>1, <1>6, <1>7

LEMMA ExtractKeepsBulk ==
  ASSUME BulkInv, NEW p \in Page, NEW state \in {"none", "pending"}, NEW valid \in BOOLEAN,
         Extract(p, state, valid)
  PROVE  BulkInv'
<1> DEFINE new == [version |-> page[p].version + 1, state |-> state, valid |-> valid,
                   grant |-> desk.grant]
<1>1. page[p] \in Result /\ desk \in Desk /\ page \in [Page -> Result]
  BY DEF BulkInv, RowsInv
<1>2. page[p].version \in Nat /\ page[p].version + 1 \in 0..MaxVersion
  BY <1>1, BulkAssumption DEF Extract, Result, BulkAssumption
<1>3. new \in Result /\ Superseded(page[p], new)
  BY <1>1, <1>2 DEF Result, Desk, Superseded
<1>4. page' = [page EXCEPT ![p] = new]
  BY DEF Extract
<1> HIDE DEF new
<1>5. /\ {p} \in SUBSET Page /\ page' \in [Page -> Result]
      /\ \A q \in Page \ {p} : page'[q] = page[q]
      /\ \A q \in {p} : Superseded(page[q], page'[q])
  BY <1>1, <1>3, <1>4
<1>6. /\ leased' = leased \ {p} /\ stale' = stale \cup About({p})
      /\ UNCHANGED <<desk, restricted, token, applied, shown, decided, notified>>
  BY DEF Extract
<1>7. restricted' \subseteq Page /\ applied' \in [Token -> {0, 1}]
  BY <1>6 DEF BulkInv, RowsInv
<1>8. RowsInv' /\ PreviewInv' /\ \A q \in Page : Onward(page[q], page'[q])
  BY <1>5, <1>6, <1>7, ResultsKeepBulk
<1> QED
  BY <1>5, <1>6, <1>8, BatchesKept DEF BulkInv

\* A decision on a waiting result supersedes it.
LEMMA DecisionSupersedes ==
  ASSUME BulkInv, NEW p \in Page, Waiting(p), NEW state \in {"published", "rejected"}
  PROVE  /\ [page[p] EXCEPT !.state = state] \in Result
         /\ [page[p] EXCEPT !.state = state].version = page[p].version
         /\ [page[p] EXCEPT !.state = state].state = state
         /\ Superseded(page[p], [page[p] EXCEPT !.state = state])
<1>1. page[p] \in Result
  BY DEF BulkInv, RowsInv
<1> QED
  BY <1>1 DEF Result, Superseded, Waiting

LEMMA PreviewKeepsBulk ==
  ASSUME BulkInv, NEW t \in Token, NEW o \in Operator, NEW action \in Action,
         NEW S \in SUBSET Page, Preview(t, o, action, S)
  PROVE  BulkInv'
<1> DEFINE new == [actor |-> o, action |-> action, pages |-> S, digest |-> Digest(S, action),
                   expired |-> FALSE]
<1>1. token' = [token EXCEPT ![t] = new] /\ t \notin Issued
      /\ UNCHANGED <<desk, page, restricted, leased, applied, shown, decided, notified, stale>>
  BY DEF Preview, Issued
<1>2. desk \in Desk /\ page \in [Page -> Result]
  BY DEF BulkInv, RowsInv
<1>3. Digest(S, action).desk = desk
      /\ \A p \in S : Digest(S, action).items[p].result = page[p]
  BY DEF Digest
<1>4. IsPreview(new)
  BY <1>2, <1>3 DEF IsPreview
<1>5. Current(new)
  <2>1. NotBehind(desk, desk)
    BY <1>2 DEF NotBehind, Desk
  <2> QED
    BY <1>3, <2>1 DEF Current, Onward
<1> HIDE DEF new
<1>6. /\ token' = [s \in Token |-> token'[s]] /\ token'[t] = new
      /\ \A s \in Token : s # t => token'[s] = token[s]
  BY <1>1 DEF BulkInv, PreviewInv
<1>7. \A s \in Issued' : (s = t) \/ (s \in Issued /\ token'[s] = token[s])
  BY <1>6 DEF Issued
<1>8. Issued \subseteq Issued' /\ \A s \in Issued : token'[s] = token[s]
  BY <1>1, <1>6 DEF Issued
<1>9. \A s \in Issued' : IsPreview(token'[s]) /\ Current(token[s])'
  BY <1>1, <1>4, <1>5, <1>6, <1>7 DEF BulkInv, PreviewInv, Current
<1>10. \A s \in stale : Overtaken(token[s])'
  BY <1>1, <1>8 DEF BulkInv, PreviewInv, Overtaken
<1>11. PreviewInv'
  BY <1>1, <1>6, <1>8, <1>9, <1>10 DEF BulkInv, PreviewInv
<1> QED
  BY <1>1, <1>11 DEF BulkInv, RowsInv, BatchInv, BatchesAreTold, Settled

\* The desk after each of its changes, field by field.
LEMMA DeskFields ==
  ASSUME NEW d \in Desk
  PROVE  /\ \A o \in Operator \cup {Nobody} : [d EXCEPT !.responsible = o] \in Desk
         /\ \A n \in Nat : /\ [d EXCEPT !.transfers = n] \in Desk
                           /\ [d EXCEPT !.grant = n] \in Desk
                           /\ [d EXCEPT !.mode = n] \in Desk
         /\ \A b \in BOOLEAN : [d EXCEPT !.paused = b] \in Desk
BY DEF Desk

LEMMA DeskHandedOver ==
  ASSUME NEW d \in Desk, NEW o \in Operator \cup {Nobody}
  PROVE  LET e == [d EXCEPT !.responsible = o, !.transfers = @ + 1]
         IN  e \in Desk /\ e.transfers = d.transfers + 1 /\ e.grant = d.grant /\ e.mode = d.mode
<1> DEFINE e == [d EXCEPT !.responsible = o] n == d.transfers + 1
<1>1. e \in Desk /\ n \in Nat
  BY DeskFields DEF Desk
<1>2. [d EXCEPT !.responsible = o, !.transfers = @ + 1] = [e EXCEPT !.transfers = n]
  OBVIOUS
<1>3. LET f == [d EXCEPT !.responsible = o, !.transfers = @ + 1]
      IN  f.transfers = d.transfers + 1 /\ f.grant = d.grant /\ f.mode = d.mode
  BY DEF Desk
<1> HIDE DEF e, n
<1>4. [e EXCEPT !.transfers = n] \in Desk
  BY <1>1, DeskFields
<1> QED
  BY <1>2, <1>3, <1>4

LEMMA DeskPaused ==
  ASSUME NEW d \in Desk
  PROVE  [d EXCEPT !.paused = ~@, !.grant = @ + 1] \in Desk
<1> DEFINE v == ~d.paused n == d.grant + 1
<1>1. v \in BOOLEAN /\ n \in Nat
  <2>1. d.paused \in BOOLEAN /\ n \in Nat
    BY DEF Desk
  <2>2. v \in BOOLEAN
    BY <2>1, Zenon
  <2> QED
    BY <2>1, <2>2
<1> DEFINE e == [d EXCEPT !.paused = v]
<1>2. [d EXCEPT !.paused = ~@, !.grant = @ + 1] = [e EXCEPT !.grant = n]
  OBVIOUS
<1> HIDE DEF v
<1>3. e \in Desk
  BY <1>1, DeskFields
<1> HIDE DEF e, n
<1> QED
  BY <1>1, <1>2, <1>3, DeskFields

LEMMA ExpiryKeepsBulk ==
  ASSUME BulkInv, NEW t \in Token, TokenExpires(t)
  PROVE  BulkInv'
<1> DEFINE new == [token[t] EXCEPT !.expired = TRUE]
<1>1. token' = [token EXCEPT ![t] = new] /\ t \in Issued
      /\ UNCHANGED <<desk, page, restricted, leased, applied, shown, decided, notified, stale>>
  BY DEF TokenExpires
<1>2. IsPreview(token[t])
  BY <1>1 DEF BulkInv, PreviewInv
<1>3. /\ new.actor = token[t].actor /\ new.action = token[t].action
      /\ new.pages = token[t].pages /\ new.digest = token[t].digest
      /\ new = [actor |-> new.actor, action |-> new.action, pages |-> new.pages,
                digest |-> new.digest, expired |-> new.expired]
  <2> DEFINE old == token[t]
             Row(v) == [actor |-> old.actor, action |-> old.action, pages |-> old.pages,
                        digest |-> old.digest, expired |-> v]
  <2>1. old = Row(old.expired)
    BY <1>2 DEF IsPreview
  <2>2. [Row(old.expired) EXCEPT !.expired = TRUE] = Row(TRUE)
    <3>1. ASSUME NEW v PROVE [Row(old.expired) EXCEPT !.expired = v] = Row(v)
      OBVIOUS
    <3> QED
      BY <3>1, Zenon
  <2>3. new = Row(TRUE)
    <3> HIDE DEF Row
    <3> QED
      BY <2>1, <2>2, Zenon
  <2>4. /\ new.actor = old.actor /\ new.action = old.action
        /\ new.pages = old.pages /\ new.digest = old.digest
    <3> HIDE DEF old, new
    <3> QED
      BY <2>3
  <2>5. new.expired = TRUE
    <3> HIDE DEF old, new
    <3> QED
      BY <2>3, Zenon
  <2> HIDE DEF new
  <2> QED
    BY <2>3, <2>4, <2>5, Zenon
<1> HIDE DEF new
<1>4. IsPreview(new)
  BY <1>2, <1>3 DEF IsPreview
<1>5. /\ token' = [s \in Token |-> token'[s]] /\ token'[t] = new
      /\ \A s \in Token : s # t => token'[s] = token[s]
  BY <1>1 DEF BulkInv, PreviewInv
<1>6. Issued' = Issued
  BY <1>1, <1>4, <1>5, PreviewIsIssued DEF Issued
<1>7. \A s \in Issued : /\ IsPreview(token'[s])
                        /\ token'[s].pages = token[s].pages
                        /\ token'[s].digest = token[s].digest
  BY <1>3, <1>4, <1>5 DEF BulkInv, PreviewInv, Issued
<1>8. \A s \in Issued : Current(token[s])'
  BY <1>1, <1>7 DEF BulkInv, PreviewInv, Current
<1>9. \A s \in stale : Overtaken(token[s])'
  BY <1>1, <1>7 DEF BulkInv, PreviewInv, Overtaken
<1>10. PreviewInv'
  BY <1>1, <1>5, <1>6, <1>7, <1>8, <1>9 DEF BulkInv, PreviewInv
<1> QED
  BY <1>1, <1>10 DEF BulkInv, RowsInv, BatchInv, BatchesAreTold, Settled

\* A token is applied only while the desk and the results are as it shows them.
LEMMA ApplicableIsCurrent ==
  ASSUME BulkInv, NEW t \in Token, t \in Issued, Applicable(t)
  PROVE  /\ t \notin stale /\ token[t].actor = desk.responsible
         /\ \A p \in token[t].pages : token[t].digest.items[p].result = page[p]
<1> DEFINE before == token[t].digest
<1>1. /\ IsPreview(token[t]) /\ before.desk \in Desk /\ token[t].pages \subseteq Page
      /\ \A p \in token[t].pages : before.items[p].result \in Result
  BY DEF BulkInv, PreviewInv, IsPreview
<1>2. Digest(token[t].pages, token[t].action) = before /\ token[t].actor = desk.responsible
  BY DEF Applicable
<1>3. before.desk = desk /\ \A p \in token[t].pages : before.items[p].result = page[p]
  <2>1. /\ Digest(token[t].pages, token[t].action).desk = desk
        /\ \A p \in token[t].pages :
              Digest(token[t].pages, token[t].action).items[p].result = page[p]
    BY DEF Digest
  <2> QED
    BY <1>2, <2>1
<1>4. ~Ahead(before.desk, desk)
  BY <1>1, <1>3 DEF Ahead, Desk
<1>5. \A p \in token[t].pages : ~Superseded(before.items[p].result, page[p])
  <2> SUFFICES ASSUME NEW p \in token[t].pages PROVE ~Superseded(page[p], page[p])
    BY <1>3
  <2>1. page[p].version \in Nat
    BY <1>1, BulkAssumption DEF BulkAssumption, BulkInv, RowsInv, Result
  <2> QED
    BY <2>1 DEF Superseded
<1>6. ~Overtaken(token[t])
  BY <1>4, <1>5 DEF Overtaken
<1> QED
  BY <1>2, <1>3, <1>6 DEF BulkInv, PreviewInv

LEMMA ApplyKeepsBulk ==
  ASSUME BulkInv, NEW t \in Token, Apply(t)
  PROVE  BulkInv'
<1> DEFINE affected == {p \in token[t].pages : Eligible(p, token[t].action)}
<1>1. t \in Issued /\ Applicable(t) /\ applied[t] = 0 /\ applied' = [applied EXCEPT ![t] = @ + 1]
      /\ UNCHANGED <<desk, token, shown, decided, notified>>
      /\ restricted' = IF token[t].action = "exclude" THEN restricted \cup affected
                                                      ELSE restricted
  BY DEF Apply, Applicable
<1>2. applied' \in [Token -> {0, 1}]
  BY <1>1 DEF BulkInv, RowsInv
<1>3. affected \subseteq Page /\ restricted' \subseteq Page
  BY <1>1 DEF BulkInv, RowsInv, PreviewInv, IsPreview
<1>4. CASE token[t].action = "publish"
  <2>1. /\ page' = Published(affected) /\ leased' = leased \ affected
        /\ stale' = stale \cup About(affected)
    BY <1>4 DEF Apply, ClaimsWithout
  <2>2. \A p \in affected : Waiting(p)
    BY <1>4 DEF Eligible, Publishable
  <2> HIDE DEF affected
  <2>3. \A p \in Page : page'[p] = IF p \in affected THEN [page[p] EXCEPT !.state = "published"]
                                                     ELSE page[p]
    BY <2>1 DEF Published
  <2>4. \A p \in affected : page'[p] \in Result /\ Superseded(page[p], page'[p])
    BY <1>3, <2>2, <2>3, DecisionSupersedes
  <2>5. page' \in [Page -> Result]
    <3>1. \A p \in Page : page'[p] \in Result
      BY <2>3, <2>4 DEF BulkInv, RowsInv
    <3> QED
      BY <2>1, <3>1 DEF Published
  <2>6. \A p \in Page \ affected : page'[p] = page[p]
    BY <2>3
  <2>7. RowsInv' /\ PreviewInv' /\ \A p \in Page : Onward(page[p], page'[p])
    BY <1>1, <1>2, <1>3, <2>1, <2>4, <2>5, <2>6, ResultsKeepBulk
  <2> QED
    BY <1>1, <2>5, <2>7, BatchesKept DEF BulkInv
<1>5. CASE token[t].action # "publish"
  <2>1. UNCHANGED <<page, leased, stale>>
    BY <1>5 DEF Apply
  <2>2. /\ page' \in [Page -> Result] /\ \A p \in Page : Onward(page[p], page'[p])
        /\ desk' \in Desk /\ stale' \subseteq Issued /\ desk' = desk
    BY <1>1, <2>1 DEF BulkInv, RowsInv, PreviewInv, Onward
  <2>3. NotBehind(desk, desk')
    BY <2>2 DEF NotBehind, Desk
  <2>4. PreviewInv'
    BY <1>1, <2>1, <2>2, <2>3, PreviewsKept
  <2>5. RowsInv'
    BY <1>1, <1>2, <1>3, <2>1 DEF BulkInv, RowsInv
  <2> QED
    BY <1>1, <2>2, <2>4, <2>5, BatchesKept DEF BulkInv
<1> QED
  BY <1>4, <1>5

LEMMA BatchKeepsBulk ==
  ASSUME BulkInv, NEW o \in Operator, NEW S \in SUBSET Page,
         NEW action \in {"approve", "reject"}, DecideBatch(o, S, action)
  PROVE  BulkInv'
<1> DEFINE done == {p \in S : Decidable(o, p, action)}
           state == IF action = "approve" THEN "published" ELSE "rejected"
           now == {<<p, page[p].version>> : p \in done}
<1>1. /\ page' = [p \in Page |-> IF p \in done THEN [page[p] EXCEPT !.state = state] ELSE page[p]]
      /\ leased' = leased \ done /\ stale' = stale \cup About(done)
      /\ decided' = decided \cup now
      /\ UNCHANGED <<desk, restricted, token, applied, shown>>
  BY DEF DecideBatch, ClaimsWithout
<1>2. done \subseteq Page /\ \A p \in done : Waiting(p) /\ shown[o][p] = page[p].version
  BY DEF Decidable
<1>3. notified' = notified \cup {now}
  <2>1. Events(o, S, done) = now
    BY <1>2 DEF Events, Sent
  <2> QED
    BY <2>1 DEF DecideBatch
<1>4. state \in {"published", "rejected"}
  OBVIOUS
<1> HIDE DEF done, state
<1>5. \A p \in done : /\ page'[p] \in Result /\ Superseded(page[p], page'[p])
                      /\ page'[p].version = page[p].version /\ page'[p].state = state
  <2> SUFFICES ASSUME NEW p \in done
               PROVE  /\ page'[p] \in Result /\ Superseded(page[p], page'[p])
                      /\ page'[p].version = page[p].version /\ page'[p].state = state
    OBVIOUS
  <2> DEFINE new == [page[p] EXCEPT !.state = state]
  <2>1. p \in Page /\ Waiting(p) /\ page'[p] = new
    BY <1>1, <1>2
  <2>2. /\ new \in Result /\ new.version = page[p].version /\ new.state = state
        /\ Superseded(page[p], new)
    BY <1>4, <2>1, DecisionSupersedes
  <2> HIDE DEF new
  <2> QED
    BY <2>1, <2>2
<1>6. \A p \in Page \ done : page'[p] = page[p]
  BY <1>1
<1>7. page' \in [Page -> Result]
  <2>1. \A p \in Page : page'[p] \in Result
    BY <1>5, <1>6 DEF BulkInv, RowsInv
  <2> QED
    BY <1>1, <2>1
<1>8. restricted' \subseteq Page /\ applied' \in [Token -> {0, 1}]
  BY <1>1 DEF BulkInv, RowsInv
<1>9. RowsInv' /\ PreviewInv' /\ \A p \in Page : Onward(page[p], page'[p])
  BY <1>1, <1>2, <1>5, <1>6, <1>7, <1>8, ResultsKeepBulk
<1>10. \A e \in now : Settled(e)' /\ e \notin decided
  <2> SUFFICES ASSUME NEW e \in now PROVE Settled(e)' /\ e \notin decided
    OBVIOUS
  <2>0. PICK p \in done : e = <<p, page[p].version>>
    OBVIOUS
  <2>1. /\ p \in Page /\ page[p].version \in Nat /\ page[p].state = "pending"
        /\ e[1] = p /\ e[2] = page[p].version
    BY <1>2, <2>0, BulkAssumption DEF BulkAssumption, BulkInv, RowsInv, Result, Waiting
  <2>2. ~Settled(e)
    BY <2>1 DEF Settled
  <2> QED
    BY <1>4, <1>5, <2>1, <2>2 DEF Settled, BulkInv, BatchInv
<1>11. \A e \in decided : Settled(e)'
  BY <1>7, <1>9, SettledStays DEF BulkInv, BatchInv
<1>12. BatchesAreTold'
  <2>1. UNION notified = decided /\ \A M, N \in notified : M # N => M \cap N = {}
    BY DEF BulkInv, BatchInv, BatchesAreTold
  <2>3. \A M \in notified : M \cap now = {}
    BY <1>10, <2>1
  <2> HIDE DEF now
  <2>2. UNION notified' = decided'
    BY <1>1, <1>3, <2>1
  <2> QED
    BY <1>3, <2>1, <2>2, <2>3 DEF BatchesAreTold
<1> HIDE DEF now
<1> QED
  BY <1>1, <1>9, <1>10, <1>11, <1>12 DEF BulkInv, BatchInv

LEMMA BulkStep == BulkInv /\ [BulkNext]_bulkVars => BulkInv'
<1> SUFFICES ASSUME BulkInv, [BulkNext]_bulkVars PROVE BulkInv'
  OBVIOUS
<1>0. /\ desk \in Desk /\ page \in [Page -> Result] /\ restricted \subseteq Page
      /\ leased \subseteq Page /\ shown \in [Operator -> Shown]
      /\ \A p \in leased : page[p].state = "pending"
      /\ desk.transfers \in Nat /\ desk.grant \in Nat /\ desk.mode \in Nat
  BY DEF BulkInv, RowsInv, Desk
<1>1. ASSUME NEW o \in Operator \cup {Nobody}, Transfer(o)
      PROVE  BulkInv'
  <2> DEFINE d == Responsible(o)
  <2>1. d \in Desk /\ Ahead(desk, d)
    <3>1. /\ d \in Desk /\ d.transfers = desk.transfers + 1 /\ d.grant = desk.grant
          /\ d.mode = desk.mode
      BY <1>0, DeskHandedOver, Zenon DEF Responsible
    <3> HIDE DEF d
    <3> QED
      BY <1>0, <3>1 DEF Ahead, NotBehind
  <2>2. /\ ChangeDesk(d) /\ leased' \subseteq leased
        /\ UNCHANGED <<page, restricted, token, applied, shown, decided, notified>>
    BY <1>1 DEF Transfer
  <2> QED
    BY <2>1, <2>2, DeskKeepsBulk
<1>2. CASE Regrant
  <2>1. PICK d \in {[desk EXCEPT !.paused = ~@, !.grant = @ + 1], [desk EXCEPT !.grant = @ + 1]} :
           ChangeDesk(d)
    BY <1>2 DEF Regrant
  <2>2. d \in Desk /\ Ahead(desk, d)
    <3>1. /\ d \in Desk /\ d.transfers = desk.transfers /\ d.grant = desk.grant + 1
          /\ d.mode = desk.mode
      <4>1. CASE d = [desk EXCEPT !.grant = @ + 1]
        BY <1>0, <4>1 DEF Desk
      <4>2. CASE d = [desk EXCEPT !.paused = ~@, !.grant = @ + 1]
        <5>1. d \in Desk
          BY <1>0, <4>2, DeskPaused, Zenon
        <5> QED
          BY <1>0, <4>2, <5>1 DEF Desk
      <4> QED
        BY <2>1, <4>1, <4>2
    <3> QED
      BY <1>0, <3>1 DEF Ahead, NotBehind
  <2>3. UNCHANGED <<page, restricted, leased, token, applied, shown, decided, notified>>
    BY <1>2 DEF Regrant
  <2> QED
    BY <2>1, <2>2, <2>3, DeskKeepsBulk
<1>3. CASE ChangeModeOfDesk
  <2> DEFINE d == [desk EXCEPT !.mode = @ + 1]
  <2>1. d \in Desk /\ Ahead(desk, d)
    BY <1>0 DEF Desk, Ahead, NotBehind
  <2>2. /\ ChangeDesk(d)
        /\ UNCHANGED <<page, restricted, leased, token, applied, shown, decided, notified>>
    BY <1>3 DEF ChangeModeOfDesk
  <2> QED
    BY <2>1, <2>2, DeskKeepsBulk
<1>4. ASSUME NEW p \in Page, \/ Extract(p, "none", FALSE)
                             \/ \E valid \in BOOLEAN : Extract(p, "pending", valid)
      PROVE  BulkInv'
  BY <1>4, ExtractKeepsBulk
<1>5. ASSUME NEW p \in Page, RestrictPage(p) \/ Lease(p) \/ LeaseEnds(p)
      PROVE  BulkInv'
  <2>1. /\ UNCHANGED <<desk, page, token, applied, shown, decided, notified, stale>>
        /\ restricted' \subseteq Page /\ leased' \subseteq Page
        /\ \A q \in leased' : page[q].state = "pending"
    BY <1>0, <1>5 DEF RestrictPage, Lease, LeaseEnds, Waiting
  <2> QED
    BY <1>0, <2>1, AsideKeepsBulk
<1>6. ASSUME NEW t \in Token, NEW o \in Operator, NEW action \in Action,
             NEW S \in SUBSET Page, Preview(t, o, action, S)
      PROVE  BulkInv'
  BY <1>6, PreviewKeepsBulk
<1>7. ASSUME NEW t \in Token, TokenExpires(t)
      PROVE  BulkInv'
  BY <1>7, ExpiryKeepsBulk
<1>8. ASSUME NEW t \in Token, Apply(t)
      PROVE  BulkInv'
  BY <1>8, ApplyKeepsBulk
<1>9. ASSUME NEW o \in Operator, List(o)
      PROVE  BulkInv'
  <2>1. \A p \in Page : page[p].version \in 0..MaxVersion
    BY <1>0 DEF Result
  <2>2. shown' \in [Operator -> Shown]
    BY <1>0, <1>9, <2>1 DEF List, Shown
  <2>3. UNCHANGED <<desk, page, restricted, leased, token, applied, decided, notified, stale>>
    BY <1>9 DEF List
  <2> QED
    BY <1>0, <2>2, <2>3, AsideKeepsBulk
<1>10. ASSUME NEW o \in Operator, NEW S \in SUBSET Page, NEW action \in {"approve", "reject"},
              DecideBatch(o, S, action)
       PROVE  BulkInv'
  BY <1>10, BatchKeepsBulk
<1>11. CASE UNCHANGED bulkVars
  BY <1>0, <1>11, AsideKeepsBulk DEF bulkVars
<1> QED
  BY <1>1, <1>2, <1>3, <1>4, <1>5, <1>6, <1>7, <1>8, <1>9, <1>10, <1>11 DEF BulkNext

\* What a step may apply and publish.
LEMMA BulkChanges ==
  ASSUME BulkInv, [BulkNext]_bulkVars
  PROVE  /\ \A t \in Token : applied'[t] > applied[t]
               => t \notin stale /\ token[t].actor = desk.responsible
         /\ \A p \in Page : page'[p].state = "published" /\ page[p].state # "published"
               => /\ p \notin restricted
                  /\ \/ shown[desk.responsible][p] = page[p].version
                     \/ \E t \in About({p}) : token[t].digest.items[p].result = page[p]
<1> DEFINE Done(p) ==
              page'[p].state = "published" /\ page[p].state # "published"
               => /\ p \notin restricted
                  /\ \/ shown[desk.responsible][p] = page[p].version
                     \/ \E t \in About({p}) : token[t].digest.items[p].result = page[p]
           Sound(t) == applied'[t] > applied[t]
                         => t \notin stale /\ token[t].actor = desk.responsible
<1>0. applied \in [Token -> {0, 1}] /\ page \in [Page -> Result]
  BY DEF BulkInv, RowsInv
<1>1. ASSUME NEW t \in Token, Apply(t)
      PROVE  (\A s \in Token : Sound(s)) /\ \A p \in Page : Done(p)
  <2>1. t \in Issued /\ Applicable(t) /\ applied' = [applied EXCEPT ![t] = @ + 1]
    BY <1>1 DEF Apply
  <2>2. /\ t \notin stale /\ token[t].actor = desk.responsible
        /\ \A p \in token[t].pages : token[t].digest.items[p].result = page[p]
    BY <2>1, ApplicableIsCurrent
  <2>3. ASSUME NEW s \in Token PROVE Sound(s)
    <3>1. s # t => applied'[s] = applied[s] /\ applied[s] \in {0, 1}
      BY <1>0, <2>1
    <3> QED
      BY <2>2, <3>1
  <2>4. ASSUME NEW p \in Page, page'[p].state = "published", page[p].state # "published"
        PROVE  p \notin restricted /\ \E s \in About({p}) : token[s].digest.items[p].result = page[p]
    <3>1. token[t].action = "publish" /\ p \in token[t].pages /\ Eligible(p, token[t].action)
      BY <1>1, <2>4 DEF Apply, Published
    <3>2. p \notin restricted
      BY <3>1 DEF Eligible, Publishable
    <3> QED
      BY <2>1, <2>2, <3>1, <3>2 DEF About
  <2> QED
    BY <2>3, <2>4
<1>2. ASSUME NEW o \in Operator, NEW S \in SUBSET Page, NEW action \in {"approve", "reject"},
             DecideBatch(o, S, action)
      PROVE  UNCHANGED applied /\ \A p \in Page : Done(p)
  <2>1. UNCHANGED applied /\ o = desk.responsible
    BY <1>2 DEF DecideBatch
  <2>2. ASSUME NEW p \in Page, page'[p].state = "published", page[p].state # "published"
        PROVE  p \notin restricted /\ shown[o][p] = page[p].version
    <3>1. p \in S /\ Decidable(o, p, action)
      BY <1>2, <2>2 DEF DecideBatch
    <3>2. page'[p] = [page[p] EXCEPT !.state = IF action = "approve" THEN "published" ELSE "rejected"]
      BY <1>2, <3>1 DEF DecideBatch
    <3>3. action = "approve"
      <4>1. page[p] \in Result
        BY <1>0
      <4>2. action # "approve" => page'[p].state = "rejected"
        BY <3>2, <4>1 DEF Result
      <4> QED
        BY <2>2, <4>2
    <3> QED
      BY <3>1, <3>3 DEF Decidable, Publishable
  <2> QED
    BY <2>1, <2>2
<1>3. ASSUME NEW p \in Page, NEW state \in {"none", "pending"}, NEW valid \in BOOLEAN,
             Extract(p, state, valid)
      PROVE  UNCHANGED applied /\ \A q \in Page : Done(q)
  <2>1. UNCHANGED applied
        /\ page' = [page EXCEPT ![p] = [version |-> page[p].version + 1, state |-> state,
                                        valid |-> valid, grant |-> desk.grant]]
    BY <1>3 DEF Extract
  <2>2. \A q \in Page : page'[q] = page[q] \/ page'[q].state = state
    BY <1>0, <2>1
  <2> QED
    BY <2>1, <2>2
<1>4. ASSUME UNCHANGED <<applied, page>>
      PROVE  (\A s \in Token : Sound(s)) /\ \A p \in Page : Done(p)
  BY <1>0, <1>4
<1>5. ASSUME UNCHANGED applied PROVE \A s \in Token : Sound(s)
  BY <1>0, <1>5
<1>6. \/ UNCHANGED <<applied, page>>
      \/ \E t \in Token : Apply(t)
      \/ \E o \in Operator, S \in SUBSET Page, action \in {"approve", "reject"} :
            DecideBatch(o, S, action)
      \/ \E p \in Page, state \in {"none", "pending"}, valid \in BOOLEAN : Extract(p, state, valid)
  BY DEF BulkNext, bulkVars, Transfer, Regrant, ChangeModeOfDesk, RestrictPage, Lease, LeaseEnds,
         Preview, TokenExpires, List
<1> QED
  BY <1>1, <1>2, <1>3, <1>4, <1>5, <1>6

\* However often a token is sent and however lists and previews grow old: a
\* preview is carried out once, by whom it was shown to and as it was shown,
\* nothing restricted or unseen is published, and every decision of a batch is
\* told once.
THEOREM BulkStands == BulkSpec => BulkHolds
<1> DEFINE AsPreviewed == \A t \in Token : applied'[t] > applied[t]
                             => t \notin stale /\ token[t].actor = desk.responsible
           AsShown == \A p \in Page : page'[p].state = "published" /\ page[p].state # "published"
                         => /\ p \notin restricted
                            /\ \/ shown[desk.responsible][p] = page[p].version
                               \/ \E t \in About({p}) : token[t].digest.items[p].result = page[p]
<1>1. BulkSpec => []BulkInv
  BY BulkStart, BulkStep, PTL DEF BulkSpec
<1>2. BulkInv => BulkTypeOK /\ AppliedOnce /\ BatchesAreTold
  <2> SUFFICES ASSUME BulkInv PROVE BulkTypeOK /\ AppliedOnce /\ BatchesAreTold
    OBVIOUS
  <2>1. AppliedOnce /\ BatchesAreTold
    BY DEF BulkInv, RowsInv, BatchInv, AppliedOnce
  <2>2. \A t \in Issued : token[t].actor \in Operator /\ token[t].pages \subseteq Page
    BY DEF BulkInv, PreviewInv, IsPreview
  <2> QED
    BY <2>1, <2>2 DEF BulkInv, RowsInv, BulkTypeOK
<1>3. BulkInv /\ [BulkNext]_bulkVars => [AsPreviewed]_bulkVars /\ [AsShown]_bulkVars
  BY BulkChanges
<1> QED
  BY <1>1, <1>2, <1>3, PTL DEF BulkSpec, BulkHolds, AppliedAsPreviewed, PublishedAsShown

-----------------------------------------------------------------------------
(* Fetching: the fetcher of a crawl, with every thread that goes on.        *)

\* The fetch under way is in one request, which robots.txt allows, or in none.
AtWork == main.stage \in {"asking", "page"}
RequestsFit ==
    /\ work["main"].step = "idle" <=> ~AtWork
    /\ main.stage \in {"ask", "asking", "page"} => main.target \in Url
    /\ main.stage = "asking" => work["main"].at \in Origin
    /\ main.stage = "page" => /\ work["main"].at \in Url /\ RobotsAllow(work["main"].at)
                              /\ site.origin[work["main"].at] \in robots

\* What a returned record names is all: the browser is gone, or was told to stop.
RenderingsFit ==
    /\ main.stage \in {"rendering", "expiring", "closing"} => main.target \in Browser
    /\ main.stage = "rendering" => browser[main.target].live
    /\ main.stage = "closing" => browser[main.target].expired
    /\ \A b \in Browser : browser[b].reported # None =>
           /\ browser[b].requested = browser[b].reported
           /\ browser[b].live => browser[b].expired

FetcherInv ==
    site \in Website /\ FetcherTypeOK /\ ThreadsAreBounded /\ RequestsFit /\ RenderingsFit

AllAt(step) == {p \in Worker : work[p].step = step}
Live == {b \in Browser : browser[b].live}

LEMMA WorkersAreFinite == IsFiniteSet(Worker) /\ "main" \in Worker
<1>1. IsFiniteSet({"main"})
  BY FS_Singleton
<1> QED
  BY <1>1, FS_Union, FetcherAssumption DEF FetcherAssumption, Worker

\* A set that one element may enter or leave.
LEMMA OneMoves ==
  ASSUME NEW S, NEW T, IsFiniteSet(S), NEW x, S \ {x} = T \ {x}
  PROVE  /\ IsFiniteSet(T) /\ Cardinality(S) \in Nat /\ Cardinality(T) \in Nat
         /\ (x \in S <=> x \in T) => Cardinality(T) = Cardinality(S)
         /\ x \in T /\ x \notin S => Cardinality(T) = Cardinality(S) + 1
         /\ x \in S /\ x \notin T => Cardinality(S) = Cardinality(T) + 1
<1>1. CASE x \in S <=> x \in T
  <2>1. S = T
    BY <1>1
  <2> QED
    BY <2>1, FS_CardinalityType
<1>2. CASE x \in T /\ x \notin S
  <2>1. T = S \cup {x}
    BY <1>2
  <2> QED
    BY <1>2, <2>1, FS_AddElement, FS_CardinalityType
<1>3. CASE x \in S /\ x \notin T
  <2>1. T = S \ {x}
    BY <1>3
  <2>2. S = T \cup {x} /\ IsFiniteSet(T)
    BY <1>3, <2>1, FS_RemoveElement
  <2> QED
    BY <1>3, <2>2, FS_AddElement, FS_CardinalityType
<1> QED
  BY <1>1, <1>2, <1>3

\* A request that moves counts where it was and where it is.
LEMMA RequestMoves ==
  ASSUME NEW p \in Worker, NEW r \in NetworkRequest, work \in [Worker -> NetworkRequest],
         work' = [work EXCEPT ![p] = r], NEW s
  PROVE  LET before == Cardinality(AllAt(s))
             after == Cardinality(AllAt(s)')
         IN  /\ before \in Nat /\ after \in Nat
             /\ (work[p].step = s <=> r.step = s) => after = before
             /\ work[p].step # s /\ r.step = s => after = before + 1
             /\ work[p].step = s /\ r.step # s => before = after + 1
<1>1. IsFiniteSet(AllAt(s))
  BY WorkersAreFinite, FS_Subset DEF AllAt
<1>2. AllAt(s) \ {p} = AllAt(s)' \ {p}
  BY DEF AllAt
<1>3. (p \in AllAt(s) <=> work[p].step = s) /\ (p \in AllAt(s)' <=> r.step = s)
  BY DEF AllAt
<1> QED
  BY <1>1, <1>2, <1>3, OneMoves

LEMMA AwaitedAre ==
  /\ Awaited("resolver") = Cardinality(AllAt("resolving"))
  /\ Awaited("connection") = Cardinality(AllAt("connecting"))
  /\ Awaited("browser") = Cardinality(Live)
BY DEF Awaited, AllAt, Live

LEMMA FetcherStart == site \in Website /\ NewFetcher => FetcherInv
<1> SUFFICES ASSUME site \in Website, NewFetcher PROVE FetcherInv
  OBVIOUS
<1>1. FetcherTypeOK
  BY FetcherAssumption
  DEF FetcherAssumption, NewFetcher, FetcherTypeOK, FetchRecord, NetworkRequest, BrowserDocument,
      NoFetch, NoRequest, NewBrowser
<1>2. AllAt("resolving") = {} /\ AllAt("connecting") = {} /\ Live = {}
  BY DEF NewFetcher, AllAt, Live, NoRequest, NewBrowser
<1>3. ThreadsAreBounded
  <2>1. \A k \in Kind : slots[k] = Concurrency /\ alive[k] = 0 /\ Awaited(k) = 0
    BY <1>2, AwaitedAre, FS_EmptySet DEF NewFetcher, Kind
  <2> QED
    BY <2>1, FetcherAssumption DEF FetcherAssumption, ThreadsAreBounded
<1>4. RequestsFit
  BY WorkersAreFinite DEF RequestsFit, AtWork, NewFetcher, NoFetch, NoRequest
<1>5. RenderingsFit
  BY DEF RenderingsFit, NewFetcher, NoFetch, NewBrowser
<1> QED
  BY <1>1, <1>3, <1>4, <1>5 DEF FetcherInv

-----------------------------------------------------------------------------
(* The slots. Whoever is waited for runs, and its slot is his.              *)

SlotsFit == slots \in [Kind -> Nat] /\ alive \in [Kind -> Nat] /\ ThreadsAreBounded

LEMMA TakingASlot ==
  ASSUME SlotsFit, NEW k \in Kind, Takes(k), Awaited(k)' \in Nat, Awaited(k) \in Nat,
         Awaited(k)' <= Awaited(k) + 1, \A j \in Kind \ {k} : Awaited(j)' = Awaited(j)
  PROVE  SlotsFit'
<1>1. slots[k] \in Nat /\ slots[k] - 1 \in Nat /\ alive[k] \in Nat
  BY DEF SlotsFit, Takes
<1>2. slots' \in [Kind -> Nat] /\ alive' \in [Kind -> Nat]
  BY <1>1 DEF SlotsFit, Takes
<1>3. /\ slots'[k] = slots[k] - 1 /\ alive'[k] = alive[k] + 1
      /\ \A j \in Kind \ {k} : slots'[j] = slots[j] /\ alive'[j] = alive[j]
  BY DEF SlotsFit, Takes
<1>4. slots[k] + alive[k] = Concurrency /\ Awaited(k) <= alive[k]
  BY DEF SlotsFit, ThreadsAreBounded
<1>5. slots'[k] + alive'[k] = Concurrency /\ Awaited(k)' <= alive'[k]
  BY <1>1, <1>3, <1>4
<1>6. \A j \in Kind \ {k} : slots'[j] + alive'[j] = Concurrency /\ Awaited(j)' <= alive'[j]
  BY <1>3 DEF SlotsFit, ThreadsAreBounded
<1> QED
  BY <1>2, <1>5, <1>6 DEF SlotsFit, ThreadsAreBounded

LEMMA EndingAThread ==
  ASSUME SlotsFit, NEW k \in Kind, Ends(k), Awaited(k)' \in Nat,
         Awaited(k)' < alive[k], \A j \in Kind \ {k} : Awaited(j)' = Awaited(j)
  PROVE  SlotsFit'
<1>1. slots[k] \in Nat /\ alive[k] \in Nat /\ alive[k] - 1 \in Nat
  BY DEF SlotsFit
<1>2. slots' \in [Kind -> Nat] /\ alive' \in [Kind -> Nat]
  BY <1>1 DEF SlotsFit, Ends
<1>3. /\ slots'[k] = slots[k] + 1 /\ alive'[k] = alive[k] - 1
      /\ \A j \in Kind \ {k} : slots'[j] = slots[j] /\ alive'[j] = alive[j]
  BY DEF SlotsFit, Ends
<1>4. slots[k] + alive[k] = Concurrency
  BY DEF SlotsFit, ThreadsAreBounded
<1>5. slots'[k] + alive'[k] = Concurrency /\ Awaited(k)' <= alive'[k]
  BY <1>1, <1>3, <1>4
<1>6. \A j \in Kind \ {k} : slots'[j] + alive'[j] = Concurrency /\ Awaited(j)' <= alive'[j]
  BY <1>3 DEF SlotsFit, ThreadsAreBounded
<1> QED
  BY <1>2, <1>5, <1>6 DEF SlotsFit, ThreadsAreBounded

\* One of those who were waited for comes to its end.
LEMMA EndingWhatIsAwaited ==
  ASSUME SlotsFit, NEW k \in Kind, Ends(k), Awaited(k)' \in Nat, Awaited(k) = Awaited(k)' + 1,
         \A j \in Kind \ {k} : Awaited(j)' = Awaited(j)
  PROVE  SlotsFit'
<1>1. alive[k] \in Nat /\ Awaited(k) <= alive[k]
  BY DEF SlotsFit, ThreadsAreBounded
<1>2. Awaited(k)' < alive[k]
  BY <1>1
<1> QED
  BY <1>2, EndingAThread

LEMMA LeavingThreads ==
  ASSUME SlotsFit, UNCHANGED <<slots, alive>>, \A j \in Kind : Awaited(j)' \in Nat /\ Awaited(j) \in Nat,
         \A j \in Kind : Awaited(j)' <= Awaited(j)
  PROVE  SlotsFit'
<1>1. \A j \in Kind : alive[j] \in Nat
  BY DEF SlotsFit
<1>2. \A j \in Kind : Awaited(j)' <= alive[j]
  BY <1>1 DEF SlotsFit, ThreadsAreBounded
<1> QED
  BY <1>2 DEF SlotsFit, ThreadsAreBounded

LEMMA AwaitedIsNat ==
  ASSUME NEW k \in Kind PROVE Awaited(k) \in Nat /\ Awaited(k)' \in Nat
<1>1. \A s : IsFiniteSet(AllAt(s)) /\ IsFiniteSet(AllAt(s)')
  BY WorkersAreFinite, FS_Subset DEF AllAt
<1>2. IsFiniteSet(Live) /\ IsFiniteSet(Live')
  BY FetcherAssumption, FS_Subset DEF FetcherAssumption, Live
<1>3. \A s : Cardinality(AllAt(s)) \in Nat /\ Cardinality(AllAt(s)') \in Nat
  BY <1>1, FS_CardinalityType
<1>4. Cardinality(Live) \in Nat /\ Cardinality(Live') \in Nat
  BY <1>2, FS_CardinalityType
<1>5. /\ Awaited("resolver")' = Cardinality(AllAt("resolving")')
      /\ Awaited("connection")' = Cardinality(AllAt("connecting")')
      /\ Awaited("browser")' = Cardinality(Live')
  BY DEF Awaited, AllAt, Live
<1> QED
  BY <1>3, <1>4, <1>5, AwaitedAre DEF Kind

\* A worker's request moves on; the browsers stay.
LEMMA AwaitedMoves ==
  ASSUME NEW p \in Worker, NEW r \in NetworkRequest, work \in [Worker -> NetworkRequest],
         work' = [work EXCEPT ![p] = r]
  PROVE  /\ Awaited("resolver")' = Awaited("resolver")
                + (IF r.step = "resolving" THEN 1 ELSE 0)
                - (IF work[p].step = "resolving" THEN 1 ELSE 0)
         /\ Awaited("connection")' = Awaited("connection")
                + (IF r.step = "connecting" THEN 1 ELSE 0)
                - (IF work[p].step = "connecting" THEN 1 ELSE 0)
<1>1. /\ Awaited("resolver")' = Cardinality(AllAt("resolving")')
      /\ Awaited("connection")' = Cardinality(AllAt("connecting")')
  BY DEF Awaited, AllAt
<1>2. /\ Awaited("resolver") \in Nat /\ Awaited("resolver")' \in Nat
      /\ Awaited("connection") \in Nat /\ Awaited("connection")' \in Nat
  BY AwaitedIsNat DEF Kind
<1>3. LET before == Awaited("resolver")
          after == Awaited("resolver")'
      IN  /\ (work[p].step = "resolving" <=> r.step = "resolving") => after = before
          /\ work[p].step # "resolving" /\ r.step = "resolving" => after = before + 1
          /\ work[p].step = "resolving" /\ r.step # "resolving" => before = after + 1
  BY <1>1, AwaitedAre, RequestMoves
<1>4. LET before == Awaited("connection")
          after == Awaited("connection")'
      IN  /\ (work[p].step = "connecting" <=> r.step = "connecting") => after = before
          /\ work[p].step # "connecting" /\ r.step = "connecting" => after = before + 1
          /\ work[p].step = "connecting" /\ r.step # "connecting" => before = after + 1
  BY <1>1, AwaitedAre, RequestMoves
<1> QED
  BY <1>2, <1>3, <1>4

LEMMA AwaitedStays ==
  /\ UNCHANGED work => Awaited("resolver")' = Awaited("resolver")
                       /\ Awaited("connection")' = Awaited("connection")
  /\ UNCHANGED browser => Awaited("browser")' = Awaited("browser")
BY DEF Awaited

\* A browser is started or comes to its end; the requests stay.
LEMMA BrowserMoves ==
  ASSUME NEW b \in Browser, \A c \in Browser \ {b} : browser'[c].live = browser[c].live
  PROVE  /\ (browser'[b].live <=> browser[b].live) => Awaited("browser")' = Awaited("browser")
         /\ browser'[b].live /\ ~browser[b].live => Awaited("browser")' = Awaited("browser") + 1
         /\ ~browser'[b].live /\ browser[b].live => Awaited("browser") = Awaited("browser")' + 1
<1>1. IsFiniteSet(Live)
  BY FetcherAssumption, FS_Subset DEF FetcherAssumption, Live
<1>2. Live \ {b} = Live' \ {b}
  BY DEF Live
<1>3. (b \in Live <=> browser[b].live) /\ (b \in Live' <=> browser'[b].live)
  BY DEF Live
<1>4. Awaited("browser")' = Cardinality(Live')
  BY DEF Awaited, Live
<1> QED
  BY <1>1, <1>2, <1>3, <1>4, AwaitedAre, OneMoves

-----------------------------------------------------------------------------
(* A request, with its redirects.                                           *)

LEMMA FetcherFacts ==
  ASSUME FetcherInv
  PROVE  /\ SlotsFit /\ main \in FetchRecord /\ work \in [Worker -> NetworkRequest]
         /\ browser \in [Browser -> BrowserDocument] /\ robots \subseteq Origin
         /\ site.origin \in [Url -> Origin] /\ site.redirect \in [Url -> Url \cup {None}]
         /\ \A p \in Worker : /\ work[p].at \in Url \cup Origin \cup {None}
                              /\ work[p].hops \in 0..MaxRedirects /\ work[p].ok \in BOOLEAN
BY DEF FetcherInv, FetcherTypeOK, SlotsFit, Website, NetworkRequest

LEMMA FetcherParts ==
  ASSUME SlotsFit', (main \in FetchRecord)', (work \in [Worker -> NetworkRequest])',
         (browser \in [Browser -> BrowserDocument])', (robots \subseteq Origin)',
         (site \in Website)', RequestsFit', RenderingsFit'
  PROVE  FetcherInv'
BY DEF FetcherInv, FetcherTypeOK, SlotsFit

\* The step that a worker's request is at changes, nothing else of it.
Steps == {"idle", "resolve", "resolving", "connect", "connecting", "done"}
LEMMA RequestAt ==
  ASSUME NEW p \in Worker, work \in [Worker -> NetworkRequest], NEW s \in Steps,
         work' = [work EXCEPT ![p].step = s]
  PROVE  \E r \in NetworkRequest :
             work' = [work EXCEPT ![p] = r] /\ r.step = s /\ r.at = work[p].at
<1> DEFINE r == [work[p] EXCEPT !.step = s]
<1>1. r \in NetworkRequest /\ r.step = s /\ r.at = work[p].at
  BY DEF NetworkRequest, Steps
<1>2. work' = [work EXCEPT ![p] = r]
  OBVIOUS
<1> HIDE DEF r
<1> QED
  BY <1>1, <1>2

LEMMA RequestEnds ==
  ASSUME NEW p \in Worker, work \in [Worker -> NetworkRequest], NEW ok \in BOOLEAN, Ended(p, ok)
  PROVE  \E r \in NetworkRequest :
             work' = [work EXCEPT ![p] = r] /\ r.step = "done" /\ r.at = work[p].at
<1> DEFINE r == [step |-> "done", at |-> work[p].at, hops |-> work[p].hops, ok |-> ok]
<1>1. r \in NetworkRequest /\ r.step = "done" /\ r.at = work[p].at
  BY DEF NetworkRequest
<1>2. work' = [work EXCEPT ![p] = r]
  BY DEF Ended
<1> HIDE DEF r
<1> QED
  BY <1>1, <1>2

LEMMA RequestsKeep ==
  ASSUME RequestsFit, UNCHANGED <<site, robots, main>>,
         work'["main"].step = "idle" <=> work["main"].step = "idle",
         work'["main"].at = work["main"].at
  PROVE  RequestsFit'
BY DEF RequestsFit, AtWork, RobotsAllow

LEMMA RenderingsKeep ==
  ASSUME RenderingsFit, UNCHANGED browser,
         main' = main \/ main'.stage \notin {"rendering", "expiring", "closing"}
  PROVE  RenderingsFit'
BY DEF RenderingsFit

\* Taking a slot, being served, or failing: the request stays the same one.
LEMMA RequestStep ==
  ASSUME FetcherInv, NEW p \in Worker, NEW r \in NetworkRequest,
         work' = [work EXCEPT ![p] = r], UNCHANGED <<site, robots, main, browser>>,
         work[p].step # "idle", r.step # "idle", r.at = work[p].at, SlotsFit'
  PROVE  FetcherInv'
<1>1. work' \in [Worker -> NetworkRequest]
  BY FetcherFacts
<1>2. /\ work'["main"].step = "idle" <=> work["main"].step = "idle"
      /\ work'["main"].at = work["main"].at
  BY FetcherFacts, WorkersAreFinite
<1>3. RequestsFit' /\ RenderingsFit'
  BY <1>2, RequestsKeep, RenderingsKeep DEF FetcherInv
<1>4. /\ (main \in FetchRecord)' /\ (browser \in [Browser -> BrowserDocument])'
      /\ (robots \subseteq Origin)' /\ (site \in Website)'
  BY FetcherFacts DEF FetcherInv
<1> QED
  BY <1>1, <1>3, <1>4, FetcherParts

\* How many are waited for, when a request goes on.
LEMMA RequestCounts ==
  ASSUME NEW p \in Worker, NEW r \in NetworkRequest, work \in [Worker -> NetworkRequest],
         work' = [work EXCEPT ![p] = r], UNCHANGED browser
  PROVE  /\ r.step = "resolving" /\ work[p].step \notin {"resolving", "connecting"} =>
                /\ Awaited("resolver")' = Awaited("resolver") + 1
                /\ \A k \in Kind \ {"resolver"} : Awaited(k)' = Awaited(k)
         /\ r.step = "connecting" /\ work[p].step \notin {"resolving", "connecting"} =>
                /\ Awaited("connection")' = Awaited("connection") + 1
                /\ \A k \in Kind \ {"connection"} : Awaited(k)' = Awaited(k)
         /\ r.step \notin {"resolving", "connecting"} /\ work[p].step = "resolving" =>
                /\ Awaited("resolver") = Awaited("resolver")' + 1
                /\ \A k \in Kind \ {"resolver"} : Awaited(k)' = Awaited(k)
         /\ r.step \notin {"resolving", "connecting"} /\ work[p].step = "connecting" =>
                /\ Awaited("connection") = Awaited("connection")' + 1
                /\ \A k \in Kind \ {"connection"} : Awaited(k)' = Awaited(k)
         /\ r.step \notin {"resolving", "connecting"}
            /\ work[p].step \notin {"resolving", "connecting"} =>
                \A k \in Kind : Awaited(k)' = Awaited(k)
<1> DEFINE n == Awaited("resolver")
           m == Awaited("resolver")'
           i == Awaited("connection")
           j == Awaited("connection")'
<1>1. n \in Nat /\ m \in Nat /\ i \in Nat /\ j \in Nat
  BY AwaitedIsNat DEF Kind
<1>2. /\ m = n + (IF r.step = "resolving" THEN 1 ELSE 0)
                - (IF work[p].step = "resolving" THEN 1 ELSE 0)
      /\ j = i + (IF r.step = "connecting" THEN 1 ELSE 0)
                - (IF work[p].step = "connecting" THEN 1 ELSE 0)
  BY AwaitedMoves
<1>3. Awaited("browser")' = Awaited("browser")
  BY AwaitedStays
<1>4. /\ m = n /\ j = i => \A k \in Kind : Awaited(k)' = Awaited(k)
      /\ j = i => \A k \in Kind \ {"resolver"} : Awaited(k)' = Awaited(k)
      /\ m = n => \A k \in Kind \ {"connection"} : Awaited(k)' = Awaited(k)
  BY <1>3 DEF Kind
<1> HIDE DEF n, m, i, j
<1>5. /\ r.step = "resolving" /\ work[p].step \notin {"resolving", "connecting"} => m = n + 1 /\ j = i
      /\ r.step = "connecting" /\ work[p].step \notin {"resolving", "connecting"} => m = n /\ j = i + 1
      /\ r.step \notin {"resolving", "connecting"} /\ work[p].step = "resolving" => n = m + 1 /\ j = i
      /\ r.step \notin {"resolving", "connecting"} /\ work[p].step = "connecting" => m = n /\ i = j + 1
      /\ r.step \notin {"resolving", "connecting"} /\ work[p].step \notin {"resolving", "connecting"}
           => m = n /\ j = i
  BY <1>1, <1>2
<1> QED
  BY <1>4, <1>5 DEF n, m, i, j

LEMMA Kinds == {"resolver", "connection", "browser"} \subseteq Kind
BY DEF Kind

LEMMA ResolveStep ==
  ASSUME FetcherInv, NEW p \in Worker, Resolve(p) PROVE FetcherInv'
<1>1. PICK r \in NetworkRequest :
          work' = [work EXCEPT ![p] = r] /\ r.step = "resolving" /\ r.at = work[p].at
  <2>1. work \in [Worker -> NetworkRequest] /\ "resolving" \in Steps
    BY FetcherFacts DEF Steps
  <2> QED
    BY <2>1, RequestAt DEF Resolve
<1>2. work[p].step = "resolve" /\ UNCHANGED browser /\ Takes("resolver")
  BY DEF Resolve
<1>3. /\ Awaited("resolver")' = Awaited("resolver") + 1
      /\ \A k \in Kind \ {"resolver"} : Awaited(k)' = Awaited(k)
  BY <1>1, <1>2, RequestCounts, FetcherFacts
<1>4. SlotsFit'
  BY <1>2, <1>3, Kinds, AwaitedIsNat, TakingASlot, FetcherFacts
<1> QED
  BY <1>1, <1>2, <1>4, RequestStep DEF Resolve

LEMMA ResolvedStep ==
  ASSUME FetcherInv, NEW p \in Worker, Resolved(p) PROVE FetcherInv'
<1>1. PICK r \in NetworkRequest :
          work' = [work EXCEPT ![p] = r] /\ r.step = "connect" /\ r.at = work[p].at
  <2>1. work \in [Worker -> NetworkRequest] /\ "connect" \in Steps
    BY FetcherFacts DEF Steps
  <2> QED
    BY <2>1, RequestAt DEF Resolved
<1>2. work[p].step = "resolving" /\ UNCHANGED browser /\ Ends("resolver")
  BY DEF Resolved
<1>3. /\ Awaited("resolver") = Awaited("resolver")' + 1
      /\ \A k \in Kind \ {"resolver"} : Awaited(k)' = Awaited(k)
  BY <1>1, <1>2, RequestCounts, FetcherFacts
<1>4. SlotsFit'
  BY <1>2, <1>3, Kinds, AwaitedIsNat, EndingWhatIsAwaited, FetcherFacts
<1> QED
  BY <1>1, <1>2, <1>4, RequestStep DEF Resolved

LEMMA ConnectStep ==
  ASSUME FetcherInv, NEW p \in Worker, Connect(p) PROVE FetcherInv'
<1>1. PICK r \in NetworkRequest :
          work' = [work EXCEPT ![p] = r] /\ r.step = "connecting" /\ r.at = work[p].at
  <2>1. work \in [Worker -> NetworkRequest] /\ "connecting" \in Steps
    BY FetcherFacts DEF Steps
  <2> QED
    BY <2>1, RequestAt DEF Connect
<1>2. work[p].step = "connect" /\ UNCHANGED browser /\ Takes("connection")
  BY DEF Connect
<1>3. /\ Awaited("connection")' = Awaited("connection") + 1
      /\ \A k \in Kind \ {"connection"} : Awaited(k)' = Awaited(k)
  BY <1>1, <1>2, RequestCounts, FetcherFacts
<1>4. SlotsFit'
  BY <1>2, <1>3, Kinds, AwaitedIsNat, TakingASlot, FetcherFacts
<1> QED
  BY <1>1, <1>2, <1>4, RequestStep DEF Connect

\* The slot of a request that ends is given back by its thread, now or later.
LEMMA RequestOver ==
  ASSUME FetcherInv, NEW p \in Worker, NEW r \in NetworkRequest,
         work' = [work EXCEPT ![p] = r], r.step \notin {"resolving", "connecting"}, UNCHANGED browser,
         \/ UNCHANGED <<slots, alive>>
         \/ work[p].step = "resolving" /\ Ends("resolver")
         \/ work[p].step = "connecting" /\ Ends("connection")
  PROVE  SlotsFit'
<1>0. work \in [Worker -> NetworkRequest] /\ SlotsFit
  BY FetcherFacts
<1>1. CASE work[p].step = "resolving"
  <2>1. /\ Awaited("resolver") = Awaited("resolver")' + 1
        /\ \A k \in Kind \ {"resolver"} : Awaited(k)' = Awaited(k)
    BY <1>0, <1>1, RequestCounts
  <2>2. CASE Ends("resolver")
    BY <1>0, <2>1, <2>2, Kinds, AwaitedIsNat, EndingWhatIsAwaited
  <2>3. CASE UNCHANGED <<slots, alive>>
    <3>1. \A k \in Kind : Awaited(k)' <= Awaited(k)
      BY <2>1, AwaitedIsNat, Kinds
    <3> QED
      BY <1>0, <2>3, <3>1, AwaitedIsNat, LeavingThreads
  <2> QED
    BY <1>1, <2>2, <2>3
<1>2. CASE work[p].step = "connecting"
  <2>1. /\ Awaited("connection") = Awaited("connection")' + 1
        /\ \A k \in Kind \ {"connection"} : Awaited(k)' = Awaited(k)
    BY <1>0, <1>2, RequestCounts
  <2>2. CASE Ends("connection")
    BY <1>0, <2>1, <2>2, Kinds, AwaitedIsNat, EndingWhatIsAwaited
  <2>3. CASE UNCHANGED <<slots, alive>>
    <3>1. \A k \in Kind : Awaited(k)' <= Awaited(k)
      BY <2>1, AwaitedIsNat, Kinds
    <3> QED
      BY <1>0, <2>3, <3>1, AwaitedIsNat, LeavingThreads
  <2> QED
    BY <1>2, <2>2, <2>3
<1>3. CASE work[p].step \notin {"resolving", "connecting"}
  <2>1. \A k \in Kind : Awaited(k)' = Awaited(k)
    BY <1>0, <1>3, RequestCounts
  <2>2. UNCHANGED <<slots, alive>> /\ \A k \in Kind : Awaited(k)' <= Awaited(k)
    BY <1>3, <2>1, AwaitedIsNat
  <2> QED
    BY <1>0, <2>2, AwaitedIsNat, LeavingThreads
<1> QED
  BY <1>1, <1>2, <1>3

LEMMA FailStep ==
  ASSUME FetcherInv, NEW p \in Worker, Fail(p) PROVE FetcherInv'
<1>1. PICK r \in NetworkRequest :
          work' = [work EXCEPT ![p] = r] /\ r.step = "done" /\ r.at = work[p].at
  BY RequestEnds, FetcherFacts DEF Fail
<1>2. /\ work[p].step # "idle" /\ UNCHANGED browser
      /\ \/ UNCHANGED <<slots, alive>>
         \/ work[p].step = "resolving" /\ Ends("resolver")
         \/ work[p].step = "connecting" /\ Ends("connection")
  BY DEF Fail, GivesUp
<1>3. SlotsFit'
  BY <1>1, <1>2, RequestOver
<1> QED
  BY <1>1, <1>2, <1>3, RequestStep DEF Fail

LEMMA HopIs ==
  ASSUME NEW u \in Url \cup Origin, NEW n \in 0..MaxRedirects
  PROVE  Hop(u, n) \in NetworkRequest /\ Hop(u, n).step = "resolve" /\ Hop(u, n).at = u
BY DEF Hop, NetworkRequest

LEMMA NoRequestIs == NoRequest \in NetworkRequest /\ NoRequest.step = "idle"
BY FetcherAssumption DEF FetcherAssumption, NoRequest, NetworkRequest

\* The request of a browser's resource is none of the fetch under way.
LEMMA ResourceStep ==
  ASSUME FetcherInv, NEW b \in Browser, NEW r \in NetworkRequest,
         work' = [work EXCEPT ![b] = r], UNCHANGED <<site, robots, main, browser>>, SlotsFit'
  PROVE  FetcherInv'
<1>1. work' \in [Worker -> NetworkRequest] /\ b \in Worker /\ b # "main"
  BY FetcherFacts, FetcherAssumption DEF FetcherAssumption, Worker
<1>2. work'["main"] = work["main"]
  BY <1>1, FetcherFacts, WorkersAreFinite
<1>3. RequestsFit' /\ RenderingsFit'
  BY <1>2, RequestsKeep, RenderingsKeep DEF FetcherInv
<1>4. /\ (main \in FetchRecord)' /\ (browser \in [Browser -> BrowserDocument])'
      /\ (robots \subseteq Origin)' /\ (site \in Website)'
  BY FetcherFacts DEF FetcherInv
<1> QED
  BY <1>1, <1>3, <1>4, FetcherParts

LEMMA AnsweredStep ==
  ASSUME FetcherInv, NEW p \in Worker, Answered(p) PROVE FetcherInv'
<1> DEFINE to == Redirect(work[p].at)
<1>0. /\ work[p].step = "connecting" /\ Ends("connection") /\ UNCHANGED <<site, robots, browser>>
      /\ work \in [Worker -> NetworkRequest] /\ work[p].hops \in 0..MaxRedirects
  BY FetcherFacts DEF Answered
<1>1. CASE UNCHANGED main /\ \E ok \in BOOLEAN : Ended(p, ok)
  <2>1. PICK r \in NetworkRequest :
            work' = [work EXCEPT ![p] = r] /\ r.step = "done" /\ r.at = work[p].at
    BY <1>0, <1>1, RequestEnds
  <2>2. SlotsFit'
    BY <1>0, <2>1, RequestOver
  <2> QED
    BY <1>0, <1>1, <2>1, <2>2, RequestStep
<1>2. ASSUME to # None PROVE to \in Url /\ work[p].at \in Url
  BY <1>2, FetcherFacts DEF Redirect
<1>3. CASE /\ to # None /\ work[p].hops < MaxRedirects /\ Guarded(p)
           /\ main' = [main EXCEPT !.stage = "ask", !.target = to, !.hops = work[p].hops + 1,
                                   !.again = FALSE]
           /\ work' = [work EXCEPT ![p] = NoRequest]
  <2>1. p = "main" /\ main.stage = "page" /\ to \in Url
    BY <1>2, <1>3 DEF Guarded
  <2>2. work[p].hops + 1 \in 0..MaxRedirects
    BY <1>0, <1>3, FetcherAssumption DEF FetcherAssumption
  <2>3. /\ main' \in FetchRecord /\ main'.stage = "ask" /\ main'.target = to
    <3> HIDE DEF to
    <3>1. main \in FetchRecord
      BY FetcherFacts
    <3>2. \A n \in 0..MaxRedirects, f \in BOOLEAN :
              LET m == [main EXCEPT !.stage = "ask", !.target = to, !.hops = n, !.again = f]
              IN  m \in FetchRecord /\ m.stage = "ask" /\ m.target = to
      BY <2>1, <3>1 DEF FetchRecord
    <3>3. FALSE \in BOOLEAN
      OBVIOUS
    <3> QED
      BY <1>3, <2>2, <3>2, <3>3
  <2>4. work' \in [Worker -> NetworkRequest] /\ work'["main"].step = "idle"
    BY <1>0, <1>3, <2>1, NoRequestIs
  <2>5. SlotsFit'
    BY <1>0, <1>3, NoRequestIs, RequestOver
  <2>6. RequestsFit'
    BY <2>1, <2>3, <2>4 DEF RequestsFit, AtWork
  <2>7. RenderingsFit'
    BY <1>0, <2>3, RenderingsKeep DEF FetcherInv
  <2>8. /\ (browser \in [Browser -> BrowserDocument])'
        /\ (robots \subseteq Origin)' /\ (site \in Website)'
    BY <1>0, FetcherFacts DEF FetcherInv
  <2> QED
    BY <2>3, <2>4, <2>5, <2>6, <2>7, <2>8, FetcherParts
<1>4. CASE /\ to # None /\ work[p].hops < MaxRedirects /\ ~Guarded(p)
           /\ work' = [work EXCEPT ![p] = Hop(to, work[p].hops + 1)] /\ UNCHANGED main
  <2>1. to \in Url /\ work[p].at \in Url /\ work[p].hops + 1 \in 0..MaxRedirects
    BY <1>0, <1>2, <1>4, FetcherAssumption DEF FetcherAssumption
  <2>2. p # "main"
    <3> SUFFICES ASSUME p = "main" PROVE FALSE
      OBVIOUS
    <3>1. main.stage = "asking"
      BY <1>0, <1>4 DEF FetcherInv, RequestsFit, AtWork, Guarded
    <3> QED
      BY <2>1, <3>1, FetcherAssumption DEF FetcherAssumption, FetcherInv, RequestsFit
  <2>3. p \in Browser
    BY <2>2 DEF Worker
  <2> DEFINE r == Hop(to, work[p].hops + 1)
  <2>4. r \in NetworkRequest /\ r.step = "resolve"
    BY <2>1, HopIs
  <2> HIDE DEF r, to
  <2>5. work' = [work EXCEPT ![p] = r]
    BY <1>4 DEF r
  <2>6. SlotsFit'
    BY <1>0, <2>4, <2>5, RequestOver
  <2> QED
    BY <1>0, <1>4, <2>3, <2>4, <2>5, <2>6, ResourceStep
<1> QED
  BY <1>1, <1>3, <1>4 DEF Answered

LEMMA FetchUrlStep ==
  ASSUME FetcherInv, NEW p \in Worker, FetchUrl(p) PROVE FetcherInv'
BY ResolveStep, ResolvedStep, ConnectStep, FailStep, AnsweredStep DEF FetchUrl

-----------------------------------------------------------------------------
(* The fetch under way.                                                     *)

LEMMA FinishedIs ==
  ASSUME main \in FetchRecord, NEW u \in Url \cup {None}, NEW d \in {"html", "shell", None},
         Finished(u, d)
  PROVE  main' \in FetchRecord /\ main'.stage = "done"
<1>1. [main EXCEPT !.stage = "done", !.got = u, !.body = d] \in FetchRecord
  BY DEF FetchRecord
<1>2. [main EXCEPT !.stage = "done", !.got = u, !.body = d].stage = "done"
  BY DEF FetchRecord
<1> QED
  BY <1>1, <1>2 DEF Finished

\* A step between two requests, or at the end of one: no slot is at stake.
LEMMA BetweenRequests ==
  ASSUME FetcherInv, UNCHANGED <<site, slots, alive, browser>>, main' \in FetchRecord,
         NEW r \in NetworkRequest, work' = [work EXCEPT !["main"] = r],
         r.step \notin {"resolving", "connecting"}, robots' \subseteq Origin, RequestsFit',
         main'.stage \notin {"rendering", "expiring", "closing"}
  PROVE  FetcherInv'
<1>1. work' \in [Worker -> NetworkRequest] /\ "main" \in Worker
  BY FetcherFacts, WorkersAreFinite
<1>2. SlotsFit'
  BY <1>1, RequestOver
<1>3. RenderingsFit'
  BY RenderingsKeep DEF FetcherInv
<1>4. (browser \in [Browser -> BrowserDocument])' /\ (site \in Website)'
  BY FetcherFacts DEF FetcherInv
<1> QED
  BY <1>1, <1>2, <1>3, <1>4, FetcherParts

LEMMA WorkStays ==
  ASSUME FetcherInv, UNCHANGED work
  PROVE  work["main"] \in NetworkRequest /\ work' = [work EXCEPT !["main"] = work["main"]]
BY FetcherFacts, WorkersAreFinite

LEMMA DecideStep == ASSUME FetcherInv, Decide PROVE FetcherInv'
<1>1. /\ main.stage = "ask" /\ main.target \in Url /\ site.origin[main.target] \in robots
      /\ main \in FetchRecord /\ main.hops \in 0..MaxRedirects /\ robots \subseteq Origin
  BY FetcherFacts DEF Decide, FetcherInv, RequestsFit, FetchRecord
<1>2. work["main"].step = "idle"
  BY <1>1 DEF FetcherInv, RequestsFit, AtWork
<1>3. CASE RobotsAllow(main.target)
  <2> DEFINE r == Hop(main.target, main.hops)
  <2>1. r \in NetworkRequest /\ r.step = "resolve" /\ r.at = main.target
    BY <1>1, HopIs
  <2>2. work' = [work EXCEPT !["main"] = r] /\ main' = [main EXCEPT !.stage = "page"]
    BY <1>3 DEF Decide
  <2>3. main' \in FetchRecord /\ main'.stage = "page" /\ main'.target = main.target
    BY <1>1, <2>2 DEF FetchRecord
  <2> HIDE DEF r
  <2>4. work'["main"] = r
    BY <2>2, FetcherFacts, WorkersAreFinite
  <2>5. RequestsFit'
    BY <1>1, <1>3, <2>1, <2>3, <2>4 DEF RequestsFit, AtWork, Decide, RobotsAllow
  <2> QED
    BY <1>1, <2>1, <2>2, <2>3, <2>5, BetweenRequests DEF Decide
<1>4. CASE ~RobotsAllow(main.target)
  <2>1. main' \in FetchRecord /\ main'.stage = "done" /\ UNCHANGED work
    BY <1>1, <1>4, FinishedIs DEF Decide
  <2>2. RequestsFit'
    BY <1>2, <2>1 DEF RequestsFit, AtWork
  <2>3. work["main"] \in NetworkRequest /\ work' = [work EXCEPT !["main"] = work["main"]]
    BY <2>1, WorkStays
  <2> QED
    BY <1>1, <1>2, <2>1, <2>2, <2>3, BetweenRequests DEF Decide
<1> QED
  BY <1>3, <1>4

LEMMA AskRobotsStep == ASSUME FetcherInv, AskRobots PROVE FetcherInv'
<1>1. /\ main.stage = "ask" /\ main.target \in Url /\ main \in FetchRecord
      /\ site.origin[main.target] \in Origin /\ robots \subseteq Origin
  BY FetcherFacts DEF AskRobots, FetcherInv, RequestsFit
<1> DEFINE r == Hop(site.origin[main.target], 0)
<1>2. r \in NetworkRequest /\ r.step = "resolve" /\ r.at \in Origin
  BY <1>1, HopIs, FetcherAssumption DEF FetcherAssumption
<1>3. work' = [work EXCEPT !["main"] = r] /\ main' = [main EXCEPT !.stage = "asking"]
  BY DEF AskRobots
<1>4. main' \in FetchRecord /\ main'.stage = "asking" /\ main'.target = main.target
  BY <1>1, <1>3 DEF FetchRecord
<1> HIDE DEF r
<1>5. work'["main"] = r
  BY <1>3, FetcherFacts, WorkersAreFinite
<1>6. RequestsFit'
  BY <1>1, <1>2, <1>4, <1>5 DEF RequestsFit, AtWork, AskRobots
<1> QED
  BY <1>1, <1>2, <1>3, <1>4, <1>6, BetweenRequests DEF AskRobots

LEMMA RobotsAnsweredStep == ASSUME FetcherInv, RobotsAnswered PROVE FetcherInv'
<1>1. /\ main.stage = "asking" /\ work["main"].at \in Origin /\ robots \subseteq Origin
      /\ main \in FetchRecord /\ main.target \in Url
  BY FetcherFacts DEF RobotsAnswered, FetcherInv, RequestsFit
<1>2. robots' \subseteq Origin
  BY <1>1 DEF RobotsAnswered
<1>3. work' = [work EXCEPT !["main"] = NoRequest] /\ work'["main"].step = "idle"
  BY FetcherFacts, WorkersAreFinite, NoRequestIs DEF RobotsAnswered
<1>4. /\ main' \in FetchRecord
      /\ \/ main'.stage = "done"
         \/ main'.stage = "ask" /\ main'.target = main.target
  <2>1. \/ main' = [main EXCEPT !.stage = "ask"]
        \/ main' = [main EXCEPT !.stage = "ask", !.again = FALSE]
        \/ Finished(None, None)
    BY DEF RobotsAnswered
  <2>2. CASE Finished(None, None)
    BY <1>1, <2>2, FinishedIs
  <2>3. CASE main' = [main EXCEPT !.stage = "ask"]
    BY <1>1, <2>3 DEF FetchRecord
  <2>4. CASE main' = [main EXCEPT !.stage = "ask", !.again = FALSE]
    <3>1. \A f \in BOOLEAN : LET m == [main EXCEPT !.stage = "ask", !.again = f]
                             IN  m \in FetchRecord /\ m.stage = "ask" /\ m.target = main.target
      BY <1>1 DEF FetchRecord
    <3>2. FALSE \in BOOLEAN
      OBVIOUS
    <3> QED
      BY <2>4, <3>1, <3>2
  <2> QED
    BY <2>1, <2>2, <2>3, <2>4
<1>5. RequestsFit'
  BY <1>1, <1>3, <1>4 DEF RequestsFit, AtWork
<1> QED
  BY <1>2, <1>3, <1>4, <1>5, NoRequestIs, BetweenRequests DEF RobotsAnswered

LEMMA PageAnsweredStep == ASSUME FetcherInv, PageAnswered PROVE FetcherInv'
<1>1. /\ main.stage = "page" /\ work["main"].at \in Url /\ robots \subseteq Origin
      /\ main \in FetchRecord
  BY FetcherFacts DEF PageAnswered, FetcherInv, RequestsFit
<1>3. work' = [work EXCEPT !["main"] = NoRequest] /\ work'["main"].step = "idle"
  BY FetcherFacts, WorkersAreFinite, NoRequestIs DEF PageAnswered
<1>4. main' \in FetchRecord /\ main'.stage \in {"done", "render"}
  <2>1. CASE Finished(None, None)
    BY <1>1, <2>1, FinishedIs
  <2>2. ASSUME NEW d \in {"html", "shell"},
               main' = [main EXCEPT !.stage = IF main.render THEN "render" ELSE "done",
                                    !.got = work["main"].at, !.body = d]
        PROVE  main' \in FetchRecord /\ main'.stage \in {"done", "render"}
    <3>1. \A s \in {"done", "render"} :
              LET m == [main EXCEPT !.stage = s, !.got = work["main"].at, !.body = d]
              IN  m \in FetchRecord /\ m.stage = s
      BY <1>1 DEF FetchRecord
    <3> QED
      BY <2>2, <3>1
  <2>3. \A d \in Bodies(work["main"].at) : d \in {"html", "shell"}
    BY DEF Bodies
  <2> QED
    BY <2>1, <2>2, <2>3 DEF PageAnswered
<1>5. RequestsFit'
  BY <1>1, <1>3, <1>4 DEF RequestsFit, AtWork
<1> QED
  BY <1>1, <1>3, <1>4, <1>5, NoRequestIs, BetweenRequests DEF PageAnswered

-----------------------------------------------------------------------------
(* Rendering: browsers that are waited for, and those that nobody waits for. *)

LEMMA BrowserCounts ==
  ASSUME NEW b \in Browser, NEW d \in BrowserDocument, browser \in [Browser -> BrowserDocument],
         browser' = [browser EXCEPT ![b] = d], UNCHANGED work
  PROVE  /\ (d.live <=> browser[b].live) => \A k \in Kind : Awaited(k)' = Awaited(k)
         /\ d.live /\ ~browser[b].live =>
                /\ Awaited("browser")' = Awaited("browser") + 1
                /\ \A k \in Kind \ {"browser"} : Awaited(k)' = Awaited(k)
         /\ ~d.live /\ browser[b].live =>
                /\ Awaited("browser") = Awaited("browser")' + 1
                /\ \A k \in Kind \ {"browser"} : Awaited(k)' = Awaited(k)
<1>1. browser'[b] = d /\ \A c \in Browser \ {b} : browser'[c].live = browser[c].live
  OBVIOUS
<1>2. \A k \in Kind \ {"browser"} : Awaited(k)' = Awaited(k)
  BY AwaitedStays DEF Kind
<1>3. /\ (d.live <=> browser[b].live) => Awaited("browser")' = Awaited("browser")
      /\ d.live /\ ~browser[b].live => Awaited("browser")' = Awaited("browser") + 1
      /\ ~d.live /\ browser[b].live => Awaited("browser") = Awaited("browser")' + 1
  BY <1>1, BrowserMoves
<1>4. ASSUME Awaited("browser")' = Awaited("browser") PROVE \A k \in Kind : Awaited(k)' = Awaited(k)
  BY <1>2, <1>4 DEF Kind
<1> QED
  BY <1>2, <1>3, <1>4

\* A browser that starts or ends takes a slot or gives one back.
LEMMA BrowserSlots ==
  ASSUME FetcherInv, NEW b \in Browser, NEW d \in BrowserDocument,
         browser' = [browser EXCEPT ![b] = d], UNCHANGED work,
         \/ (d.live <=> browser[b].live) /\ UNCHANGED <<slots, alive>>
         \/ d.live /\ ~browser[b].live /\ Takes("browser")
         \/ ~d.live /\ browser[b].live /\ Ends("browser")
  PROVE  SlotsFit'
<1>0. SlotsFit /\ browser \in [Browser -> BrowserDocument] /\ "browser" \in Kind
  BY FetcherFacts, Kinds
<1>1. CASE (d.live <=> browser[b].live) /\ UNCHANGED <<slots, alive>>
  <2>1. \A k \in Kind : Awaited(k)' = Awaited(k)
    BY <1>0, <1>1, BrowserCounts
  <2>2. \A k \in Kind : Awaited(k)' <= Awaited(k)
    BY <2>1, AwaitedIsNat
  <2> QED
    BY <1>0, <1>1, <2>2, AwaitedIsNat, LeavingThreads
<1>2. CASE d.live /\ ~browser[b].live /\ Takes("browser")
  <2>1. /\ Awaited("browser")' = Awaited("browser") + 1
        /\ \A k \in Kind \ {"browser"} : Awaited(k)' = Awaited(k)
    BY <1>0, <1>2, BrowserCounts
  <2> QED
    BY <1>0, <1>2, <2>1, AwaitedIsNat, TakingASlot
<1>3. CASE ~d.live /\ browser[b].live /\ Ends("browser")
  <2>1. /\ Awaited("browser") = Awaited("browser")' + 1
        /\ \A k \in Kind \ {"browser"} : Awaited(k)' = Awaited(k)
    BY <1>0, <1>3, BrowserCounts
  <2> QED
    BY <1>0, <1>3, <2>1, AwaitedIsNat, EndingWhatIsAwaited
<1> QED
  BY <1>1, <1>2, <1>3

\* What a step of a rendering leaves alone.
Rendering == {"render", "rendering", "expiring", "closing", "done", "idle"}
LEMMA RenderingStep ==
  ASSUME FetcherInv, UNCHANGED <<site, robots, work>>, main' \in FetchRecord,
         main.stage \in Rendering, main'.stage \in Rendering,
         browser' \in [Browser -> BrowserDocument], SlotsFit', RenderingsFit'
  PROVE  FetcherInv'
<1>1. RequestsFit'
  BY DEF FetcherInv, RequestsFit, AtWork, Rendering
<1>2. (work \in [Worker -> NetworkRequest])' /\ (robots \subseteq Origin)' /\ (site \in Website)'
  BY FetcherFacts DEF FetcherInv
<1> QED
  BY <1>1, <1>2, FetcherParts

\* A browser that lives no longer, or has not lived yet.
LEMMA BrowserIs ==
  ASSUME NEW d \in BrowserDocument, NEW live \in BOOLEAN
  PROVE  /\ [d EXCEPT !.live = live] \in BrowserDocument
         /\ [d EXCEPT !.live = live].live = live
         /\ [d EXCEPT !.live = live].expired = d.expired
         /\ [d EXCEPT !.live = live].requested = d.requested
         /\ [d EXCEPT !.live = live].reported = d.reported
BY DEF BrowserDocument

LEMMA StageIs ==
  ASSUME NEW s \in Rendering, NEW t \in Url \cup Browser \cup {None}, main \in FetchRecord
  PROVE  /\ [main EXCEPT !.stage = s, !.target = t] \in FetchRecord
         /\ [main EXCEPT !.stage = s, !.target = t].stage = s
         /\ [main EXCEPT !.stage = s, !.target = t].target = t
         /\ [main EXCEPT !.stage = s] \in FetchRecord
         /\ [main EXCEPT !.stage = s].stage = s
         /\ [main EXCEPT !.stage = s].target = main.target
BY DEF FetchRecord, Rendering

LEMMA StartRenderStep ==
  ASSUME FetcherInv, NEW b \in Browser, StartRender(b) PROVE FetcherInv'
<1> DEFINE d == [NewBrowser EXCEPT !.live = TRUE]
<1>1. NewBrowser \in BrowserDocument /\ NewBrowser.reported = None
  BY FetcherAssumption DEF FetcherAssumption, NewBrowser, BrowserDocument
<1>2. d \in BrowserDocument /\ d.live /\ d.reported = None
  BY <1>1, BrowserIs
<1>3. browser' = [browser EXCEPT ![b] = d] /\ main' = [main EXCEPT !.stage = "rendering", !.target = b]
  BY DEF StartRender
<1> HIDE DEF d
<1>4. main' \in FetchRecord /\ main'.stage = "rendering" /\ main'.target = b
  <2>1. "rendering" \in Rendering /\ b \in Url \cup Browser \cup {None} /\ main \in FetchRecord
    BY FetcherFacts DEF Rendering
  <2> QED
    BY <1>3, <2>1, StageIs
<1>5. browser' \in [Browser -> BrowserDocument]
  BY <1>2, <1>3, FetcherFacts
<1>6. SlotsFit'
  BY <1>2, <1>3, BrowserSlots DEF StartRender
<1>7. RenderingsFit'
  <2>1. \A c \in Browser : c # b => browser'[c] = browser[c]
    BY <1>3, FetcherFacts
  <2>2. browser'[b].reported = None /\ browser'[b].live
    BY <1>2, <1>3, FetcherFacts
  <2> QED
    BY <1>4, <2>1, <2>2 DEF FetcherInv, RenderingsFit
<1> QED
  BY <1>4, <1>5, <1>6, <1>7, RenderingStep DEF StartRender, Rendering

LEMMA NoSlotToRenderStep == ASSUME FetcherInv, NoSlotToRender PROVE FetcherInv'
<1>1. main' \in FetchRecord /\ main'.stage = "done" /\ main.stage = "render"
  BY FinishedIs, FetcherFacts DEF NoSlotToRender
<1>2. work["main"] \in NetworkRequest /\ work' = [work EXCEPT !["main"] = work["main"]]
  BY WorkStays DEF NoSlotToRender
<1>3. work["main"].step = "idle" /\ RequestsFit'
  BY <1>1 DEF FetcherInv, RequestsFit, AtWork, NoSlotToRender
<1> QED
  BY <1>1, <1>2, <1>3, FetcherFacts, BetweenRequests DEF NoSlotToRender

\* A record that goes on in the same rendering, or is done with it.
LEMMA FinishedRendering ==
  ASSUME FetcherInv, main.stage \in {"rendering", "closing"},
         NEW u \in {None, main.got}, NEW body \in {None, "html", main.body}, Finished(u, body)
  PROVE  main' \in FetchRecord /\ main'.stage = "done"
<1>1. main \in FetchRecord /\ u \in Url \cup {None} /\ body \in {"html", "shell", None}
  BY FetcherFacts DEF FetchRecord
<1> QED
  BY <1>1, FinishedIs

LEMMA RenderedStep ==
  ASSUME FetcherInv, NEW b \in Browser, Rendered(b) PROVE FetcherInv'
<1> DEFINE d == [browser[b] EXCEPT !.live = FALSE, !.reported = browser[b].requested]
<1>1. browser[b] \in BrowserDocument /\ browser \in [Browser -> BrowserDocument]
  BY FetcherFacts
<1>2. d \in BrowserDocument /\ ~d.live /\ d.requested = d.reported
  <2>1. \A f \in BOOLEAN :
            LET e == [browser[b] EXCEPT !.live = f, !.reported = browser[b].requested]
            IN  e \in BrowserDocument /\ e.live = f /\ e.requested = e.reported
    BY <1>1 DEF BrowserDocument
  <2>2. FALSE \in BOOLEAN
    OBVIOUS
  <2> QED
    BY <2>1, <2>2
<1>3. browser' = [browser EXCEPT ![b] = d]
  BY <1>1 DEF Rendered
<1> HIDE DEF d
<1>4. main' \in FetchRecord /\ main'.stage = "done" /\ main.stage = "rendering"
  <2>1. main.stage = "rendering"
    BY DEF Rendered
  <2>2. CASE Finished(None, None)
    BY <2>1, <2>2, FinishedRendering
  <2>3. CASE Finished(main.got, "html")
    BY <2>1, <2>3, FinishedRendering
  <2>4. CASE Finished(main.got, main.body)
    BY <2>1, <2>4, FinishedRendering
  <2> QED
    BY <2>1, <2>2, <2>3, <2>4 DEF Rendered
<1>5. browser' \in [Browser -> BrowserDocument]
  BY <1>1, <1>2, <1>3
<1>6. SlotsFit'
  BY <1>2, <1>3, BrowserSlots DEF Rendered, FetcherInv, RenderingsFit
<1>7. RenderingsFit'
  <2>1. \A c \in Browser : c # b => browser'[c] = browser[c]
    BY <1>1, <1>3
  <2>2. browser'[b] = d
    BY <1>1, <1>3
  <2> QED
    BY <1>2, <1>4, <2>1, <2>2 DEF FetcherInv, RenderingsFit
<1> QED
  BY <1>4, <1>5, <1>6, <1>7, RenderingStep DEF Rendered, Rendering

\* A browser that ends changes in nothing else.
LEMMA BrowserEnds ==
  ASSUME FetcherInv, NEW b \in Browser, browser' = [browser EXCEPT ![b].live = FALSE],
         browser[b].live, Ends("browser"), UNCHANGED work
  PROVE  /\ SlotsFit' /\ browser' \in [Browser -> BrowserDocument]
         /\ \A c \in Browser : /\ browser'[c].reported = browser[c].reported
                               /\ browser'[c].requested = browser[c].requested
                               /\ browser'[c].expired = browser[c].expired
                               /\ browser'[c].live => browser[c].live
<1> DEFINE d == [browser[b] EXCEPT !.live = FALSE]
<1>1. browser[b] \in BrowserDocument /\ browser \in [Browser -> BrowserDocument]
  BY FetcherFacts
<1>2. /\ d \in BrowserDocument /\ ~d.live /\ d.requested = browser[b].requested
      /\ d.reported = browser[b].reported /\ d.expired = browser[b].expired
  <2>1. FALSE \in BOOLEAN
    OBVIOUS
  <2> QED
    BY <1>1, <2>1, BrowserIs
<1>3. browser' = [browser EXCEPT ![b] = d]
  BY <1>1
<1> HIDE DEF d
<1>4. SlotsFit'
  BY <1>2, <1>3, BrowserSlots
<1>5. \A c \in Browser : browser'[c] = IF c = b THEN d ELSE browser[c]
  BY <1>1, <1>3
<1> QED
  BY <1>1, <1>2, <1>3, <1>4, <1>5

LEMMA GiveUpRenderingStep ==
  ASSUME FetcherInv, NEW b \in Browser, GiveUpRendering(b) PROVE FetcherInv'
<1>1. /\ main.stage = "rendering" /\ main.target = b /\ main \in FetchRecord
      /\ main' = [main EXCEPT !.stage = "expiring"]
  BY FetcherFacts DEF GiveUpRendering
<1>2. main' \in FetchRecord /\ main'.stage = "expiring" /\ main'.target = b
  <2>1. "expiring" \in Rendering
    BY DEF Rendering
  <2>2. b \in Url \cup Browser \cup {None}
    OBVIOUS
  <2> QED
    BY <1>1, <2>1, <2>2, StageIs
<1>3. /\ SlotsFit' /\ browser' \in [Browser -> BrowserDocument]
      /\ \A c \in Browser : /\ browser'[c].reported = browser[c].reported
                            /\ browser'[c].requested = browser[c].requested
                            /\ browser'[c].expired = browser[c].expired
                            /\ browser'[c].live => browser[c].live
  <2>1. CASE Ends("browser") /\ browser' = [browser EXCEPT ![b].live = FALSE]
    BY <2>1, BrowserEnds DEF GiveUpRendering, FetcherInv, RenderingsFit
  <2>2. CASE UNCHANGED <<slots, alive, browser>>
    <3>1. browser[b] \in BrowserDocument /\ browser' = [browser EXCEPT ![b] = browser[b]]
      BY <2>2, FetcherFacts
    <3>2. SlotsFit'
      BY <2>2, <3>1, BrowserSlots DEF GiveUpRendering
    <3> QED
      BY <2>2, <3>2, FetcherFacts
  <2> QED
    BY <2>1, <2>2 DEF GiveUpRendering, GivesUp
<1>4. RenderingsFit'
  BY <1>2, <1>3 DEF FetcherInv, RenderingsFit
<1> QED
  BY <1>1, <1>2, <1>3, <1>4, RenderingStep DEF GiveUpRendering, Rendering

LEMMA ExpireRenderStep == ASSUME FetcherInv, ExpireRender PROVE FetcherInv'
<1> DEFINE b == main.target
           d == [browser[b] EXCEPT !.expired = TRUE]
<1>1. /\ main.stage = "expiring" /\ b \in Browser /\ main \in FetchRecord
      /\ main' = [main EXCEPT !.stage = "closing"]
  BY FetcherFacts DEF ExpireRender, FetcherInv, RenderingsFit
<1>2. main' \in FetchRecord /\ main'.stage = "closing" /\ main'.target = b
  <2>1. "closing" \in Rendering /\ b \in Url \cup Browser \cup {None}
    BY <1>1 DEF Rendering
  <2> QED
    BY <1>1, <2>1, StageIs
<1>3. browser[b] \in BrowserDocument /\ browser \in [Browser -> BrowserDocument]
  BY <1>1, FetcherFacts
<1>4. /\ d \in BrowserDocument /\ d.expired /\ d.live = browser[b].live
      /\ d.requested = browser[b].requested /\ d.reported = browser[b].reported
  <2>1. \A f \in BOOLEAN :
            LET e == [browser[b] EXCEPT !.expired = f]
            IN  /\ e \in BrowserDocument /\ e.expired = f /\ e.live = browser[b].live
                /\ e.requested = browser[b].requested /\ e.reported = browser[b].reported
    BY <1>3 DEF BrowserDocument
  <2>2. TRUE \in BOOLEAN
    OBVIOUS
  <2> QED
    BY <2>1, <2>2
<1>5. browser' = [browser EXCEPT ![b] = d]
  BY <1>3 DEF ExpireRender
<1> HIDE DEF b, d
<1>6. SlotsFit'
  BY <1>1, <1>4, <1>5, BrowserSlots DEF ExpireRender
<1>7. /\ browser' \in [Browser -> BrowserDocument]
      /\ \A c \in Browser : browser'[c] = IF c = b THEN d ELSE browser[c]
  BY <1>3, <1>4, <1>5
<1>8. RenderingsFit'
  BY <1>1, <1>2, <1>4, <1>7 DEF FetcherInv, RenderingsFit
<1> QED
  BY <1>1, <1>2, <1>6, <1>7, <1>8, RenderingStep DEF ExpireRender, Rendering

LEMMA CloseRenderStep == ASSUME FetcherInv, CloseRender PROVE FetcherInv'
<1> DEFINE b == main.target
           n == IF browser[b].reported = None THEN browser[b].requested ELSE browser[b].reported
           d == [browser[b] EXCEPT !.reported = n]
<1>1. /\ main.stage = "closing" /\ b \in Browser /\ main \in FetchRecord /\ browser[b].expired
  BY FetcherFacts DEF CloseRender, FetcherInv, RenderingsFit
<1>2. main' \in FetchRecord /\ main'.stage = "done"
  BY <1>1, FinishedRendering DEF CloseRender
<1>3. browser[b] \in BrowserDocument /\ browser \in [Browser -> BrowserDocument]
  BY <1>1, FetcherFacts
<1>4. n = browser[b].requested /\ n \in 0..MaxResources
  BY <1>1, <1>3 DEF FetcherInv, RenderingsFit, BrowserDocument
<1>5. /\ d \in BrowserDocument /\ d.expired = browser[b].expired /\ d.live = browser[b].live
      /\ d.requested = browser[b].requested /\ d.reported = n
  <2> HIDE DEF n
  <2> QED
    BY <1>3, <1>4 DEF BrowserDocument
<1>6. browser' = [browser EXCEPT ![b] = d]
  BY <1>3 DEF CloseRender
<1> HIDE DEF b, d, n
<1>7. SlotsFit'
  BY <1>1, <1>5, <1>6, BrowserSlots DEF CloseRender
<1>8. /\ browser' \in [Browser -> BrowserDocument]
      /\ \A c \in Browser : browser'[c] = IF c = b THEN d ELSE browser[c]
  BY <1>3, <1>5, <1>6
<1>9. RenderingsFit'
  BY <1>1, <1>2, <1>4, <1>5, <1>8 DEF FetcherInv, RenderingsFit
<1> QED
  BY <1>1, <1>2, <1>7, <1>8, <1>9, RenderingStep DEF CloseRender, Rendering

\* What goes on behind the fetch under way leaves its request alone.
LEMMA BehindTheFetch ==
  ASSUME FetcherInv, UNCHANGED <<site, robots, main>>, work' \in [Worker -> NetworkRequest],
         work'["main"] = work["main"], browser' \in [Browser -> BrowserDocument], SlotsFit',
         RenderingsFit'
  PROVE  FetcherInv'
<1>1. RequestsFit'
  BY RequestsKeep DEF FetcherInv
<1>2. (main \in FetchRecord)' /\ (robots \subseteq Origin)' /\ (site \in Website)'
  BY FetcherFacts DEF FetcherInv
<1> QED
  BY <1>1, <1>2, FetcherParts

LEMMA AbandonedEndsStep ==
  ASSUME FetcherInv, NEW b \in Browser, AbandonedEnds(b) PROVE FetcherInv'
<1>1. /\ SlotsFit' /\ browser' \in [Browser -> BrowserDocument]
      /\ \A c \in Browser : /\ browser'[c].reported = browser[c].reported
                            /\ browser'[c].requested = browser[c].requested
                            /\ browser'[c].expired = browser[c].expired
                            /\ browser'[c].live => browser[c].live
  BY BrowserEnds DEF AbandonedEnds
<1>2. \A c \in Browser \ {b} : browser'[c] = browser[c]
  BY FetcherFacts DEF AbandonedEnds
<1>3. RenderingsFit'
  BY <1>1, <1>2 DEF FetcherInv, RenderingsFit, AbandonedEnds, WaitsFor
<1> QED
  BY <1>1, <1>3, FetcherFacts, BehindTheFetch DEF AbandonedEnds

LEMMA ResourceLoadedStep ==
  ASSUME FetcherInv, NEW b \in Browser, ResourceLoaded(b) PROVE FetcherInv'
<1>1. b \in Worker /\ work[b].step = "done" /\ work' = [work EXCEPT ![b] = NoRequest]
  BY DEF ResourceLoaded, Worker
<1>2. SlotsFit'
  BY <1>1, NoRequestIs, RequestOver DEF ResourceLoaded
<1> QED
  BY <1>1, <1>2, NoRequestIs, ResourceStep DEF ResourceLoaded

LEMMA LingeringEndsStep ==
  ASSUME FetcherInv, NEW k \in Kind, LingeringEnds(k) PROVE FetcherInv'
<1>1. UNCHANGED <<work, browser>> /\ Ends(k) /\ alive[k] > Awaited(k) /\ SlotsFit
  BY FetcherFacts DEF LingeringEnds
<1>2. \A j \in Kind : Awaited(j)' = Awaited(j) /\ Awaited(j)' \in Nat /\ Awaited(j) \in Nat
  BY <1>1, AwaitedStays, AwaitedIsNat DEF Kind
<1>3. Awaited(k)' < alive[k]
  <2>1. alive[k] \in Nat
    BY <1>1 DEF SlotsFit
  <2> QED
    BY <1>1, <1>2, <2>1
<1>4. SlotsFit'
  BY <1>1, <1>2, <1>3, EndingAThread
<1>5. RenderingsFit'
  BY RenderingsKeep DEF LingeringEnds, FetcherInv
<1> QED
  BY <1>4, <1>5, FetcherFacts, BehindTheFetch DEF LingeringEnds

LEMMA LoadResourceStep ==
  ASSUME FetcherInv, NEW b \in Browser, NEW u \in Url, LoadResource(b, u) PROVE FetcherInv'
<1> DEFINE n == browser[b].requested + 1
           d == [browser[b] EXCEPT !.requested = n]
<1>1. browser[b] \in BrowserDocument /\ browser \in [Browser -> BrowserDocument]
      /\ work \in [Worker -> NetworkRequest] /\ SlotsFit
  BY FetcherFacts
<1>2. n \in 0..MaxResources
  BY <1>1, FetcherAssumption DEF FetcherAssumption, BrowserDocument, LoadResource
<1>3. /\ d \in BrowserDocument /\ d.live = browser[b].live /\ d.reported = browser[b].reported
  <2> HIDE DEF n
  <2> QED
    BY <1>1, <1>2 DEF BrowserDocument
<1>4. browser' = [browser EXCEPT ![b] = d] /\ UNCHANGED <<slots, alive, main, site, robots>>
  BY <1>1 DEF LoadResource
<1> HIDE DEF d, n
<1>5. browser[b].reported = None
  BY DEF FetcherInv, RenderingsFit, LoadResource
<1>6. /\ browser' \in [Browser -> BrowserDocument]
      /\ \A c \in Browser : browser'[c] = IF c = b THEN d ELSE browser[c]
  BY <1>1, <1>3, <1>4
<1>7. RenderingsFit'
  <2>1. \A c \in Browser : c # b => browser'[c] = browser[c]
    BY <1>6
  <2>2. main.stage = "closing" => main.target # b
    BY DEF FetcherInv, RenderingsFit, LoadResource
  <2> QED
    BY <1>3, <1>4, <1>5, <1>6, <2>1, <2>2 DEF FetcherInv, RenderingsFit
<1>8. b \in Worker /\ b # "main"
  BY FetcherAssumption DEF FetcherAssumption, Worker
<1>9. PICK r \in NetworkRequest : work' = [work EXCEPT ![b] = r] /\ r.step \in {"idle", "resolve"}
  <2>1. CASE work' = [work EXCEPT ![b] = Hop(u, 0)]
    <3>1. 0 \in 0..MaxRedirects
      BY FetcherAssumption DEF FetcherAssumption
    <3> QED
      BY <2>1, <3>1, HopIs
  <2>2. CASE work' = work
    <3>1. work[b] \in NetworkRequest /\ work[b].step = "idle" /\ work' = [work EXCEPT ![b] = work[b]]
      BY <1>1, <1>8, <2>2 DEF LoadResource
    <3> QED
      BY <3>1
  <2> QED
    BY <2>1, <2>2 DEF LoadResource
<1>10. work[b].step = "idle" /\ work' \in [Worker -> NetworkRequest] /\ work'["main"] = work["main"]
  BY <1>1, <1>8, <1>9, WorkersAreFinite DEF LoadResource
<1>11. \A k \in Kind : Awaited(k)' = Awaited(k)
  <2>1. \A k \in Kind : Awaited(k) \in Nat
    BY AwaitedIsNat
  <2>2. /\ Awaited("resolver")' = Awaited("resolver") + 0 - 0
        /\ Awaited("connection")' = Awaited("connection") + 0 - 0
    BY <1>1, <1>8, <1>9, <1>10, AwaitedMoves
  <2>3. Awaited("resolver") \in Nat /\ Awaited("connection") \in Nat
    BY <2>1, Kinds
  <2>4. Awaited("resolver")' = Awaited("resolver") /\ Awaited("connection")' = Awaited("connection")
    BY <2>2, <2>3
  <2>5. Awaited("browser")' = Awaited("browser")
    <3>1. browser'[b].live = browser[b].live
      BY <1>3, <1>6
    <3>2. \A c \in Browser \ {b} : browser'[c].live = browser[c].live
      BY <1>6
    <3> QED
      BY <3>1, <3>2, BrowserMoves
  <2> QED
    BY <2>4, <2>5 DEF Kind
<1>12. SlotsFit'
  <2>1. \A k \in Kind : Awaited(k)' <= Awaited(k)
    BY <1>11, AwaitedIsNat
  <2> QED
    BY <1>1, <1>4, <2>1, AwaitedIsNat, LeavingThreads
<1> QED
  BY <1>4, <1>6, <1>7, <1>10, <1>12, BehindTheFetch

LEMMA AskingStep ==
  ASSUME FetcherInv, NEW u \in Url, NEW render \in BOOLEAN, main.stage = "idle", Asking(u, render),
         UNCHANGED <<site, robots, slots, alive, work, browser>>
  PROVE  FetcherInv'
<1>1. NoFetch \in FetchRecord /\ 0 \in 0..MaxRedirects
  BY FetcherAssumption DEF FetcherAssumption, NoFetch, FetchRecord
<1> DEFINE asked(f) == [stage |-> "ask", url |-> u, target |-> u, hops |-> 0, again |-> f,
                        render |-> render, got |-> None, body |-> None]
           done == [NoFetch EXCEPT !.stage = "done", !.url = u]
<1>2. \A f \in BOOLEAN : asked(f) \in FetchRecord /\ asked(f).stage = "ask" /\ asked(f).target = u
  BY <1>1 DEF FetchRecord
<1>3. done \in FetchRecord /\ done.stage = "done"
  BY <1>1 DEF FetchRecord
<1>4. /\ main' \in FetchRecord /\ main'.stage \in {"ask", "done"}
      /\ main'.stage = "ask" => main'.target = u
  <2>1. main' = asked(TRUE) \/ main' = done
    BY DEF Asking
  <2>2. TRUE \in BOOLEAN
    OBVIOUS
  <2> HIDE DEF asked, done
  <2> QED
    BY <1>2, <1>3, <2>1, <2>2
<1>5. work["main"].step = "idle"
  BY DEF FetcherInv, RequestsFit, AtWork
<1>6. RequestsFit'
  BY <1>4, <1>5 DEF RequestsFit, AtWork
<1>7. work["main"] \in NetworkRequest /\ work' = [work EXCEPT !["main"] = work["main"]]
  BY WorkStays
<1> QED
  BY <1>4, <1>5, <1>6, <1>7, FetcherFacts, BetweenRequests

\* The answer is taken: the fetcher is ready for another page.
LEMMA TakingTheAnswer ==
  ASSUME FetcherInv, main.stage = "done", main' = NoFetch,
         UNCHANGED <<site, robots, slots, alive, work, browser>>
  PROVE  FetcherInv'
<1>1. NoFetch \in FetchRecord /\ NoFetch.stage = "idle"
  BY FetcherAssumption DEF FetcherAssumption, NoFetch, FetchRecord
<1>2. work["main"].step = "idle"
  BY DEF FetcherInv, RequestsFit, AtWork
<1>3. RequestsFit'
  BY <1>1, <1>2 DEF RequestsFit, AtWork
<1>4. work["main"] \in NetworkRequest /\ work' = [work EXCEPT !["main"] = work["main"]]
  BY WorkStays
<1> QED
  BY <1>1, <1>2, <1>3, <1>4, FetcherFacts, BetweenRequests

LEMMA FetchKeeps == FetcherInv /\ (Fetch \/ Background) => FetcherInv'
<1> SUFFICES ASSUME FetcherInv, Fetch \/ Background PROVE FetcherInv'
  OBVIOUS
<1>1. "main" \in Worker /\ Browser \subseteq Worker
  BY DEF Worker
<1>2. CASE Fetch
  BY <1>1, <1>2, FetchUrlStep, DecideStep, AskRobotsStep, RobotsAnsweredStep, PageAnsweredStep,
     NoSlotToRenderStep, ExpireRenderStep, CloseRenderStep, StartRenderStep, RenderedStep,
     GiveUpRenderingStep
  DEF Fetch
<1>3. CASE Background
  BY <1>1, <1>3, LingeringEndsStep, FetchUrlStep, ResourceLoadedStep, AbandonedEndsStep,
     LoadResourceStep
  DEF Background
<1> QED
  BY <1>2, <1>3

\* Each task has a fetcher of its own.
LEMMA ReplaceKeeps == FetcherInv /\ ReplaceFetcher /\ UNCHANGED site => FetcherInv'
<1>1. ReplaceFetcher => NewFetcher'
  BY DEF ReplaceFetcher, NewFetcher
<1>2. FetcherInv /\ UNCHANGED site => (site \in Website)'
  BY DEF FetcherInv
<1> QED
  BY <1>1, <1>2, FetcherStart, PTL

-----------------------------------------------------------------------------
(* Frontiers.                                                               *)

LEMMA EntriesAreFinite == IsFiniteSet(FrontierEntry)
<1> DEFINE Scores == {"seed", "good", "weak", "poor"}
           Hints == {"index", "listing", None}
           Tuples == (Url \X Scores) \X ((0..MaxDepth) \X Hints)
           f == [t \in Tuples |-> Entry(t[1][1], t[1][2], t[2][1], t[2][2])]
<1>1. IsFiniteSet(Scores)
  <2>1. Scores = ((({} \cup {"seed"}) \cup {"good"}) \cup {"weak"}) \cup {"poor"}
    OBVIOUS
  <2> HIDE DEF Scores
  <2> QED
    BY <2>1, FS_EmptySet, FS_AddElement
<1>2. IsFiniteSet(Hints)
  <2>1. Hints = (({} \cup {"index"}) \cup {"listing"}) \cup {None}
    OBVIOUS
  <2> HIDE DEF Hints
  <2> QED
    BY <2>1, FS_EmptySet, FS_AddElement
<1>3. IsFiniteSet(0..MaxDepth)
  BY FS_Interval, CrawlAssumption DEF CrawlAssumption
<1>4. IsFiniteSet(Tuples)
  <2>1. IsFiniteSet(Url \X Scores)
    BY <1>1, FS_Product, FetcherAssumption DEF FetcherAssumption
  <2>2. IsFiniteSet((0..MaxDepth) \X Hints)
    BY <1>2, <1>3, FS_Product
  <2> QED
    BY <2>1, <2>2, FS_Product
<1>5. f \in Surjection(Tuples, FrontierEntry)
  <2>1. ASSUME NEW t \in Tuples PROVE f[t] \in FrontierEntry
    BY DEF FrontierEntry, Entry
  <2>2. ASSUME NEW e \in FrontierEntry PROVE \E t \in Tuples : f[t] = e
    <3> DEFINE t == <<<<e.url, e.score>>, <<e.depth, e.hint>>>>
    <3>1. t \in Tuples
      BY DEF FrontierEntry
    <3>2. f[t] = Entry(e.url, e.score, e.depth, e.hint)
      BY <3>1
    <3>3. Entry(e.url, e.score, e.depth, e.hint) = e
      BY DEF FrontierEntry, Entry
    <3> QED
      BY <3>1, <3>2, <3>3
  <2>3. f \in [Tuples -> FrontierEntry]
    BY <2>1
  <2> HIDE DEF f, Tuples
  <2> QED
    BY <2>2, <2>3 DEF Surjection
<1> HIDE DEF f, Tuples
<1> QED
  BY <1>4, <1>5, FS_Surjection

\* A list of a finite set has its members, and no other.
LEMMA Listed ==
  ASSUME NEW S, IsFiniteSet(S)
  PROVE  SetToSeq(S) \in Seq(S) /\ ToSet(SetToSeq(S)) = S
<1> DEFINE n == Cardinality(S)
           Lists == {f \in [1..n -> S] : IsInjective(f)}
           s == SetToSeq(S)
<1>1. n \in Nat
  BY FS_CardinalityType
<1>2. s \in [1..n -> S] /\ IsInjective(s)
  <2>1. PICK f \in Bijection(1..n, S) : TRUE
    BY FS_CardinalityType DEF ExistsBijection
  <2>2. f \in [1..n -> S] /\ IsInjective(f)
    BY <2>1 DEF Bijection, Injection, IsInjective
  <2> QED
    BY <2>2 DEF SetToSeq
<1>3. s \in Injection(1..n, S)
  BY <1>2 DEF Injection, IsInjective
<1>4. IsFiniteSet(1..n) /\ Cardinality(1..n) = n
  BY <1>1, FS_Interval
<1>5. s \in Surjection(1..n, S)
  <2> HIDE DEF s
  <2> QED
    BY <1>3, <1>4, FS_Injection
<1>6. ToSet(s) = S
  BY <1>2, <1>5 DEF Surjection, ToSet
<1>7. s \in Seq(S)
  BY <1>1, <1>2
<1> QED
  BY <1>6, <1>7

LEMMA RankIs ==
  /\ Rank("seed") = 3 /\ Rank("good") = 2 /\ Rank("weak") = 1 /\ Rank("poor") = 0
BY DEF Rank

\* There is a best entry in a frontier, and it is one of its entries.
LEMMA BestIsThere ==
  ASSUME NEW s \in Seq(FrontierEntry), s # <<>>
  PROVE  Best(s) \in DOMAIN s
<1> DEFINE Better(i, j) == \/ Rank(s[i].score) > Rank(s[j].score)
                           \/ s[i].score = s[j].score /\ i <= j
           At(score) == {i \in DOMAIN s : s[i].score = score}
<1>1. \A i \in DOMAIN s : i \in Nat /\ s[i].score \in {"seed", "good", "weak", "poor"}
  <2>1. \A i \in DOMAIN s : i \in Nat /\ s[i] \in FrontierEntry
    OBVIOUS
  <2>2. \A e \in FrontierEntry : e.score \in {"seed", "good", "weak", "poor"}
    BY DEF FrontierEntry
  <2> QED
    BY <2>1, <2>2
<1>2. PICK score \in {"seed", "good", "weak", "poor"} :
          At(score) # {} /\ \A j \in DOMAIN s : s[j].score = score \/ Rank(score) > Rank(s[j].score)
  <2>1. 1 \in DOMAIN s
    OBVIOUS
  <2>2. At("seed") # {} \/ At("good") # {} \/ At("weak") # {} \/ At("poor") # {}
    BY <1>1, <2>1
  <2>3. CASE At("seed") # {}
    BY <1>1, <2>3, RankIs
  <2>4. CASE At("seed") = {} /\ At("good") # {}
    BY <1>1, <2>4, RankIs
  <2>5. CASE At("seed") = {} /\ At("good") = {} /\ At("weak") # {}
    BY <1>1, <2>5, RankIs
  <2>6. CASE At("seed") = {} /\ At("good") = {} /\ At("weak") = {} /\ At("poor") # {}
    BY <1>1, <2>6, RankIs
  <2> QED
    BY <2>2, <2>3, <2>4, <2>5, <2>6
<1>3. PICK i \in At(score) : \A j \in At(score) : i <= j
  <2>1. At(score) \subseteq Nat
    BY <1>1
  <2> HIDE DEF At
  <2> QED
    BY <1>2, <2>1, LeastNumber
<1>4. \A j \in DOMAIN s : Better(i, j)
  BY <1>2, <1>3
<1>5. i \in DOMAIN s
  OBVIOUS
<1> QED
  BY <1>4, <1>5 DEF Best

LEMMA AfterTheGap ==
  \A i, j, n \in Int : i <= j /\ j <= n - 1 =>
      /\ j - (i-1) \in 1..(n-i) /\ i + (j - (i-1)) = j + 1 /\ (i - 1) + (j - (i-1)) = j
OBVIOUS

LEMMA Joined ==
  ASSUME NEW S, NEW a \in Seq(S), NEW b \in Seq(S)
  PROVE  /\ a \o b \in Seq(S) /\ Len(a \o b) = Len(a) + Len(b)
         /\ \A j \in 1..Len(a) : (a \o b)[j] = a[j]
         /\ \A j \in 1..Len(b) : (a \o b)[Len(a) + j] = b[j]
OBVIOUS

LEMMA JoinedSets ==
  ASSUME NEW S, NEW a \in Seq(S), NEW b \in Seq(S)
  PROVE  ToSet(a) \subseteq ToSet(a \o b) /\ ToSet(b) \subseteq ToSet(a \o b)
<1> DEFINE s == a \o b
<1>1. /\ s \in Seq(S) /\ Len(s) = Len(a) + Len(b) /\ Len(a) \in Nat /\ Len(b) \in Nat
      /\ \A j \in 1..Len(a) : s[j] = a[j]
      /\ \A j \in 1..Len(b) : s[Len(a) + j] = b[j]
  BY Joined
<1>2. DOMAIN a = 1..Len(a) /\ DOMAIN b = 1..Len(b) /\ DOMAIN s = 1..Len(s)
  BY <1>1
<1> HIDE DEF s
<1>3. \A j \in DOMAIN a : j \in DOMAIN s /\ s[j] = a[j]
  BY <1>1, <1>2
<1>4. \A j \in DOMAIN b : Len(a) + j \in DOMAIN s /\ s[Len(a) + j] = b[j]
  BY <1>1, <1>2
<1> QED
  BY <1>3, <1>4 DEF ToSet, s

\* Without one of its entries a sequence has all the others.
LEMMA Removed ==
  ASSUME NEW S, NEW s \in Seq(S), NEW i \in DOMAIN s
  PROVE  /\ RemoveAt(s, i) \in Seq(S)
         /\ \A x \in ToSet(RemoveAt(s, i)) : x \in ToSet(s)
         /\ \A x \in ToSet(s) : x = s[i] \/ x \in ToSet(RemoveAt(s, i))
<1> DEFINE t == RemoveAt(s, i)
           n == Len(s)
<1>1. n \in Nat /\ i \in 1..n /\ i - 1 \in 0..n /\ i + 1 \in 1..n+1
  OBVIOUS
<1>2. /\ t \in Seq(S) /\ Len(t) = n - 1
      /\ \A j \in 1..(i-1) : t[j] = s[j]
      /\ \A j \in i..(n-1) : t[j] = s[j+1]
  <2> DEFINE a == SubSeq(s, 1, i - 1)
             b == SubSeq(s, i + 1, n)
  <2>1. /\ a \in Seq(S) /\ Len(a) = i - 1
        /\ \A j \in 1..(i-1) : a[j] = s[j]
    BY <1>1
  <2>2. /\ b \in Seq(S) /\ Len(b) = n - i
        /\ \A j \in 1..(n-i) : b[j] = s[i+j]
    BY <1>1
  <2>3. t = a \o b
    BY DEF RemoveAt
  <2>4. /\ t \in Seq(S) /\ Len(t) = Len(a) + Len(b)
        /\ \A j \in 1..Len(a) : t[j] = a[j]
        /\ \A j \in 1..Len(b) : t[Len(a) + j] = b[j]
    <3>1. a \in Seq(S) /\ b \in Seq(S)
      BY <2>1, <2>2
    <3> HIDE DEF a, b, t
    <3> QED
      BY <2>3, <3>1, Joined
  <2>0. Len(a) = i - 1
    BY <2>1
  <2> HIDE DEF a, b, t
  <2>5. ASSUME NEW j \in i..(n-1) PROVE t[j] = s[j+1]
    <3>0. i \in Int /\ n \in Int /\ j \in Int /\ i <= j /\ j <= n - 1
      BY <1>1
    <3>1. /\ j - (i-1) \in 1..(n-i) /\ i + (j - (i-1)) = j + 1 /\ Len(a) + (j - (i-1)) = j
      <4>1. i \in Int /\ n \in Int /\ j \in Int /\ i <= j /\ j <= n - 1
        BY <3>0
      <4>2. j - (i-1) \in 1..(n-i)
        BY <4>1, AfterTheGap
      <4>3. i + (j - (i-1)) = j + 1
        BY <4>1, AfterTheGap
      <4>4. (i-1) + (j - (i-1)) = j
        BY <4>1, AfterTheGap
      <4>5. Len(a) + (j - (i-1)) = j
        BY <4>4, <2>0
      <4> QED
        BY <4>2, <4>3, <4>5
    <3>2. t[Len(a) + (j - (i-1))] = b[j - (i-1)] /\ b[j - (i-1)] = s[i + (j - (i-1))]
      BY <2>2, <2>4, <3>1
    <3> QED
      BY <3>1, <3>2
  <2>6. Len(t) = n - 1
    BY <1>1, <2>1, <2>2, <2>4
  <2> QED
    BY <2>1, <2>4, <2>5, <2>6
<1> HIDE DEF t
<1>3. DOMAIN t = 1..(n-1) /\ DOMAIN s = 1..n
  BY <1>2
<1>4. ASSUME NEW j \in DOMAIN t PROVE t[j] \in ToSet(s)
  <2>1. CASE j < i
    BY <1>1, <1>2, <1>3, <2>1 DEF ToSet
  <2>2. CASE j >= i
    <3>1. j \in i..(n-1) /\ j + 1 \in DOMAIN s
      BY <1>1, <1>3, <2>2
    <3> QED
      BY <1>2, <3>1 DEF ToSet
  <2> QED
    BY <1>1, <1>3, <2>1, <2>2
<1>5. ASSUME NEW j \in DOMAIN s, j # i PROVE s[j] \in ToSet(t)
  <2>1. CASE j < i
    <3>1. j \in 1..(i-1) /\ j \in DOMAIN t
      BY <1>1, <1>3, <2>1
    <3> QED
      BY <1>2, <3>1 DEF ToSet
  <2>2. CASE j > i
    <3>1. j - 1 \in i..(n-1) /\ j - 1 \in DOMAIN t /\ (j - 1) + 1 = j
      BY <1>1, <1>3, <2>2
    <3> QED
      BY <1>2, <3>1 DEF ToSet
  <2> QED
    BY <1>1, <1>3, <1>5, <2>1, <2>2
<1>6. t \in Seq(S)
  BY <1>2
<1> QED
  BY <1>4, <1>5, <1>6 DEF t, ToSet

\* The frontier gets the links near enough, each as the page tells of it.
Near(kept, visited) == {link \in Candidates(kept, visited) : DepthOf(kept, link) <= MaxDepth}
LEMMA PushedIs ==
  ASSUME site \in Website, NEW kept \in CrawlPage, NEW visited \in SUBSET Url
  PROVE  /\ Pushed(kept, visited) \in Seq(FrontierEntry)
         /\ ToSet(Pushed(kept, visited)) =
                {Entry(l.to, l.score, DepthOf(kept, l), Hint(kept, l)) : l \in Near(kept, visited)}
<1> DEFINE entries == {Entry(l.to, l.score, DepthOf(kept, l), Hint(kept, l)) : l \in Near(kept, visited)}
<1>1. ASSUME NEW l \in Near(kept, visited)
      PROVE  Entry(l.to, l.score, DepthOf(kept, l), Hint(kept, l)) \in FrontierEntry
  <2>1. l \in Anchor /\ DepthOf(kept, l) <= MaxDepth
    BY DEF Near, Candidates, Website, CrawlPage
  <2>2. DepthOf(kept, l) \in 0..MaxDepth
    BY <2>1, CrawlAssumption DEF CrawlAssumption, DepthOf, CrawlPage
  <2>3. Hint(kept, l) \in {"index", "listing", None}
    BY DEF Hint
  <2> QED
    BY <2>1, <2>2, <2>3 DEF Entry, FrontierEntry, Anchor
<1>2. entries \subseteq FrontierEntry
  BY <1>1
<1>3. IsFiniteSet(entries)
  <2> HIDE DEF entries
  <2> QED
    BY <1>2, EntriesAreFinite, FS_Subset
<1>4. Pushed(kept, visited) = SetToSeq(entries)
  BY DEF Pushed, Near
<1>5. SetToSeq(entries) \in Seq(entries) /\ ToSet(SetToSeq(entries)) = entries
  <2> HIDE DEF entries
  <2> QED
    BY <1>3, Listed
<1>6. Seq(entries) \subseteq Seq(FrontierEntry)
  <2> HIDE DEF entries
  <2> QED
    BY <1>2
<1> QED
  BY <1>4, <1>5, <1>6

-----------------------------------------------------------------------------
(* The crawl.                                                               *)

DistinctPages(c) ==
    \A i, j \in DOMAIN c.pages :
        c.pages[i].url = c.pages[j].url /\ c.pages[i].html = c.pages[j].html => i = j
Remembered(c) ==
    \A kept \in {q \in Pages(c) : q.html /\ LeadsOn(q)} :
        \A link \in Candidates(kept, c.visited) :
            \/ link.to \in FinalUrls(c)
            \/ \E e \in ToSet(c.frontier) : e.url = link.to
            \/ ~link.next /\ kept.depth = MaxDepth /\ c.limited
Aliased(c) == \A u \in FinalUrls(c) : \E v \in c.visited : <<u, v>> \in c.aliases

\* What holds of a crawl in the worker's hands and of its checkpoint alike: a
\* page that could not be had stands for an address that was visited.
CrawlFits(c) ==
    /\ DistinctPages(c) /\ Remembered(c) /\ Aliased(c)
    /\ Cardinality(c.visited) <= MaxPages /\ Len(c.pages) <= Cardinality(c.visited)
    /\ CountDetails(c) <= TargetDetails /\ c.attempted \subseteq c.visited
    /\ \A kept \in Pages(c) : ~kept.html => kept.url \in c.visited

\* While an address is fetched there is room for its page, which is not there yet.
SliceFits ==
    /\ mode = "running" => details = CountDetails(crawl) /\ seen = FinalUrls(crawl)
    /\ mode \in {"running", "paused"} => Len(saved.pages) <= Len(crawl.pages)
    /\ item # None =>
           /\ mode = "running" /\ item.url \in crawl.visited /\ details < TargetDetails
           /\ Len(crawl.pages) < Cardinality(crawl.visited)
           /\ \A kept \in Pages(crawl) : ~kept.html => kept.url # item.url

CrawlInv == FetcherInv /\ CrawlTypeOK /\ CrawlFits(saved) /\ CrawlFits(crawl) /\ SliceFits

LEMMA CrawlFields ==
  ASSUME NEW c \in CrawlRecord
  PROVE  /\ c.frontier \in Seq(FrontierEntry) /\ c.visited \subseteq Url /\ c.pages \in Seq(CrawlPage)
         /\ c.limited \in BOOLEAN /\ c.attempted \subseteq Url /\ c.skipped \subseteq Url
         /\ c.aliases \subseteq Url \X Url
         /\ IsFiniteSet(c.visited) /\ Cardinality(c.visited) \in Nat /\ Len(c.pages) \in Nat
         /\ CountDetails(c) \in Nat /\ Pages(c) \subseteq CrawlPage /\ FinalUrls(c) \subseteq Url
<1>1. /\ c.frontier \in Seq(FrontierEntry) /\ c.visited \subseteq Url /\ c.pages \in Seq(CrawlPage)
      /\ c.limited \in BOOLEAN /\ c.attempted \subseteq Url /\ c.skipped \subseteq Url
      /\ c.aliases \subseteq Url \X Url
  BY DEF CrawlRecord
<1>2. IsFiniteSet(c.visited) /\ Cardinality(c.visited) \in Nat
  BY <1>1, FS_Subset, FS_CardinalityType, FetcherAssumption DEF FetcherAssumption
<1>3. CountDetails(c) \in Nat
  <2> DEFINE D == {i \in DOMAIN c.pages : IsDetail(c.pages[i])}
  <2>1. DOMAIN c.pages = 1..Len(c.pages) /\ Len(c.pages) \in Nat
    BY <1>1
  <2>2. D \subseteq 1..Len(c.pages) /\ IsFiniteSet(1..Len(c.pages))
    BY <2>1, FS_Interval
  <2>3. IsFiniteSet(D)
    BY <2>2, FS_Subset
  <2> QED
    BY <2>3, FS_CardinalityType DEF CountDetails
<1>4. Pages(c) \subseteq CrawlPage
  BY <1>1 DEF Pages, ToSet
<1>5. FinalUrls(c) \subseteq Url
  BY <1>4 DEF FinalUrls, CrawlPage
<1> QED
  BY <1>1, <1>2, <1>3, <1>4, <1>5

\* What was attempted, skipped and known under other addresses is noted; the
\* crawl stays the same.
LEMMA OnlyNotes ==
  ASSUME NEW c \in CrawlRecord, NEW d \in CrawlRecord, CrawlFits(c),
         d.frontier = c.frontier, d.visited = c.visited, d.pages = c.pages, d.limited = c.limited,
         c.aliases \subseteq d.aliases, d.attempted \subseteq c.visited
  PROVE  /\ CrawlFits(d) /\ CountDetails(d) = CountDetails(c) /\ FinalUrls(d) = FinalUrls(c)
         /\ Pages(d) = Pages(c)
<1>1. Pages(d) = Pages(c) /\ FinalUrls(d) = FinalUrls(c) /\ CountDetails(d) = CountDetails(c)
  BY DEF Pages, FinalUrls, CountDetails
<1>2. DistinctPages(d) /\ Aliased(d)
  BY <1>1 DEF CrawlFits, DistinctPages, Aliased
<1>3. Remembered(d)
  BY <1>1 DEF CrawlFits, Remembered
<1> QED
  BY <1>1, <1>2, <1>3 DEF CrawlFits

\* One page more.
LEMMA OnePageMore ==
  ASSUME NEW c \in CrawlRecord, NEW d \in CrawlRecord, NEW kept \in CrawlPage,
         d.pages = Append(c.pages, kept)
  PROVE  /\ Pages(d) = Pages(c) \cup {kept} /\ Len(d.pages) = Len(c.pages) + 1
         /\ DOMAIN d.pages = DOMAIN c.pages \cup {Len(d.pages)}
         /\ Len(d.pages) \notin DOMAIN c.pages
         /\ d.pages[Len(d.pages)] = kept /\ \A i \in DOMAIN c.pages : d.pages[i] = c.pages[i]
         /\ CountDetails(d) = CountDetails(c) + (IF IsDetail(kept) THEN 1 ELSE 0)
         /\ /\ DistinctPages(c)
            /\ \A q \in Pages(c) : q.url # kept.url \/ q.html # kept.html
            => DistinctPages(d)
<1> DEFINE s == c.pages
           t == d.pages
           n == Len(c.pages)
<1>1. s \in Seq(CrawlPage) /\ n \in Nat /\ DOMAIN s = 1..n /\ CountDetails(c) \in Nat
  BY CrawlFields
<1>2. /\ Len(t) = n + 1 /\ DOMAIN t = 1..(n + 1) /\ t[n + 1] = kept
      /\ \A i \in 1..n : t[i] = s[i]
  BY <1>1
<1>3. DOMAIN t = DOMAIN s \cup {n + 1} /\ n + 1 \notin DOMAIN s
  BY <1>1, <1>2
<1> HIDE DEF s, t, n
<1>4. ToSet(t) = ToSet(s) \cup {kept}
  BY <1>1, <1>2, <1>3 DEF ToSet
<1>5. Pages(d) = Pages(c) \cup {kept}
  BY <1>4 DEF Pages, s, t
<1>6. CountDetails(d) = CountDetails(c) + (IF IsDetail(kept) THEN 1 ELSE 0)
  <2> DEFINE D == {i \in DOMAIN s : IsDetail(s[i])}
             E == {i \in DOMAIN t : IsDetail(t[i])}
  <2>1. CountDetails(c) = Cardinality(D) /\ CountDetails(d) = Cardinality(E)
    BY DEF CountDetails, s, t
  <2>2. IsFiniteSet(D) /\ n + 1 \notin D
    <3>1. D \subseteq 1..n /\ IsFiniteSet(1..n)
      BY <1>1, FS_Interval
    <3> QED
      BY <1>1, <3>1, FS_Subset
  <2>3. D \ {n + 1} = E \ {n + 1} /\ (n + 1 \in E <=> IsDetail(kept))
    BY <1>1, <1>2, <1>3
  <2> HIDE DEF D, E
  <2>4. /\ Cardinality(D) \in Nat /\ Cardinality(E) \in Nat
        /\ ~IsDetail(kept) => Cardinality(E) = Cardinality(D)
        /\ IsDetail(kept) => Cardinality(E) = Cardinality(D) + 1
    BY <2>2, <2>3, OneMoves
  <2> QED
    BY <2>1, <2>4
<1>7. ASSUME DistinctPages(c), \A q \in Pages(c) : q.url # kept.url \/ q.html # kept.html
      PROVE  DistinctPages(d)
  <2>1. \A i \in DOMAIN s : t[i] = s[i] /\ (s[i].url # kept.url \/ s[i].html # kept.html)
    <3>1. \A i \in DOMAIN s : s[i] \in Pages(c)
      BY DEF Pages, ToSet, s
    <3> QED
      BY <1>1, <1>2, <1>7, <3>1
  <2> SUFFICES ASSUME NEW i \in DOMAIN t, NEW j \in DOMAIN t,
                      t[i].url = t[j].url, t[i].html = t[j].html
               PROVE  i = j
    BY DEF DistinctPages, t
  <2>2. CASE i \in DOMAIN s /\ j \in DOMAIN s
    BY <1>7, <2>1, <2>2 DEF DistinctPages, s
  <2>3. CASE i = n + 1 \/ j = n + 1
    BY <1>2, <1>3, <2>1, <2>3
  <2> QED
    BY <1>3, <2>2, <2>3
<1> QED
  BY <1>1, <1>2, <1>3, <1>5, <1>6, <1>7 DEF s, t, n

\* What is done with the item: its failure is kept, and counts as no listing.
LEMMA AFailureMore ==
  ASSUME NEW c \in CrawlRecord, CrawlFits(c), item \in FrontierEntry, item.url \in c.visited,
         Len(c.pages) < Cardinality(c.visited),
         \A kept \in Pages(c) : ~kept.html => kept.url # item.url
  PROVE  /\ WithFailure(c) \in CrawlRecord /\ CrawlFits(WithFailure(c))
         /\ CountDetails(WithFailure(c)) = CountDetails(c)
         /\ FinalUrls(WithFailure(c)) = FinalUrls(c)
         /\ Len(WithFailure(c).pages) = Len(c.pages) + 1
         /\ \A i \in DOMAIN WithFailure(c).pages \ DOMAIN c.pages :
                WithFailure(c).pages[i].kind = "error"
<1> DEFINE d == WithFailure(c)
<1>1. FailedPage \in CrawlPage /\ ~FailedPage.html /\ FailedPage.kind = "error"
      /\ FailedPage.url = item.url /\ ~IsDetail(FailedPage)
  <2>1. FALSE \in BOOLEAN
    OBVIOUS
  <2>2. item.url \in Url /\ item.depth \in 0..MaxDepth
    BY DEF FrontierEntry
  <2> QED
    BY <2>1, <2>2 DEF FailedPage, CrawlPage, IsDetail
<1> HIDE DEF FailedPage
<1>2. /\ d \in CrawlRecord /\ d.pages = Append(c.pages, FailedPage) /\ d.frontier = c.frontier
      /\ d.visited = c.visited /\ d.limited = c.limited /\ d.attempted = c.attempted
      /\ d.aliases = c.aliases
  <2> DEFINE P == Append(c.pages, FailedPage)
  <2>1. P \in Seq(CrawlPage)
    BY <1>1, CrawlFields
  <2>2. d = [c EXCEPT !.pages = P]
    BY DEF WithFailure
  <2> HIDE DEF P, d
  <2>3. /\ d \in CrawlRecord /\ d.pages = P /\ d.frontier = c.frontier
        /\ d.visited = c.visited /\ d.limited = c.limited /\ d.attempted = c.attempted
        /\ d.aliases = c.aliases
    BY <2>1, <2>2 DEF CrawlRecord
  <2> QED
    BY <2>3 DEF P
<1> HIDE DEF d
<1>3. /\ Pages(d) = Pages(c) \cup {FailedPage} /\ Len(d.pages) = Len(c.pages) + 1
      /\ DOMAIN d.pages = DOMAIN c.pages \cup {Len(d.pages)} /\ d.pages[Len(d.pages)] = FailedPage
      /\ CountDetails(d) = CountDetails(c) + 0
  BY <1>1, <1>2, OnePageMore
<1>4. CountDetails(d) = CountDetails(c)
  BY <1>3, CrawlFields
<1>5. FinalUrls(d) = FinalUrls(c)
  BY <1>1, <1>3 DEF FinalUrls
<1>6. DistinctPages(d)
  <2>1. \A q \in Pages(c) : q.html \in BOOLEAN
    BY CrawlFields DEF CrawlPage
  <2>2. \A q \in Pages(c) : q.url # FailedPage.url \/ q.html # FailedPage.html
    BY <1>1, <2>1
  <2> QED
    BY <1>1, <1>2, <2>2, OnePageMore DEF CrawlFits
<1>7. Remembered(d) /\ Aliased(d)
  <2>1. {q \in Pages(d) : q.html /\ LeadsOn(q)} = {q \in Pages(c) : q.html /\ LeadsOn(q)}
    BY <1>1, <1>3
  <2> QED
    BY <1>2, <1>5, <2>1 DEF CrawlFits, Remembered, Aliased
<1>8. Len(d.pages) <= Cardinality(d.visited)
  BY <1>2, <1>3, CrawlFields
<1>9. \A kept \in Pages(d) : ~kept.html => kept.url \in d.visited
  BY <1>1, <1>2, <1>3 DEF CrawlFits
<1>10. CrawlFits(d)
  BY <1>2, <1>4, <1>6, <1>7, <1>8, <1>9 DEF CrawlFits
<1>11. \A i \in DOMAIN d.pages \ DOMAIN c.pages : d.pages[i].kind = "error"
  BY <1>1, <1>3
<1> QED
  BY <1>2, <1>3, <1>4, <1>5, <1>10, <1>11 DEF d

\* The page of an answer, what it pushes, and whether some of its links are too far.
PageOf(u) == [url |-> u, kind |-> Classify(u, item.hint), depth |-> item.depth, html |-> TRUE]
PushedBy(kept, visited) == IF LeadsOn(kept) THEN Pushed(kept, visited) ELSE <<>>
TooFar(kept, visited) ==
    LeadsOn(kept) /\ \E link \in Candidates(kept, visited) : DepthOf(kept, link) > MaxDepth
WithPage(c, kept) ==
    [c EXCEPT !.pages = Append(@, kept), !.frontier = @ \o PushedBy(kept, c.visited),
              !.limited = @ \/ TooFar(kept, c.visited)]

LEMMA PageIs ==
  ASSUME site \in Website, item \in FrontierEntry, NEW u \in Url
  PROVE  /\ PageOf(u) \in CrawlPage /\ PageOf(u).url = u /\ PageOf(u).html = TRUE
         /\ PageOf(u).kind = Classify(u, item.hint)
<1>1. Classify(u, item.hint) \in PageKind \cup {"error"}
  BY DEF Classify, PageKind, Website
<1>2. item.depth \in 0..MaxDepth /\ TRUE \in BOOLEAN
  BY DEF FrontierEntry
<1> HIDE DEF Classify
<1> QED
  BY <1>1, <1>2 DEF CrawlPage, PageOf

LEMMA PushedByIs ==
  ASSUME site \in Website, NEW kept \in CrawlPage, NEW visited \in SUBSET Url
  PROVE  /\ PushedBy(kept, visited) \in Seq(FrontierEntry)
         /\ LeadsOn(kept) =>
                \A l \in Near(kept, visited) : \E e \in ToSet(PushedBy(kept, visited)) : e.url = l.to
<1>1. CASE LeadsOn(kept)
  <2>1. PushedBy(kept, visited) = Pushed(kept, visited)
    BY <1>1 DEF PushedBy
  <2>2. \A l : Entry(l.to, l.score, DepthOf(kept, l), Hint(kept, l)).url = l.to
    BY DEF Entry
  <2> HIDE DEF PushedBy
  <2> QED
    BY <2>1, <2>2, PushedIs
<1>2. CASE ~LeadsOn(kept)
  <2>1. PushedBy(kept, visited) = <<>>
    BY <1>2 DEF PushedBy
  <2> HIDE DEF PushedBy
  <2>2. <<>> \in Seq(FrontierEntry)
    OBVIOUS
  <2> QED
    BY <1>2, <2>1, <2>2
<1> QED
  BY <1>1, <1>2

LEMMA WithPageIs ==
  ASSUME site \in Website, NEW c \in CrawlRecord, NEW kept \in CrawlPage
  PROVE  /\ WithPage(c, kept) \in CrawlRecord
         /\ WithPage(c, kept).pages = Append(c.pages, kept)
         /\ WithPage(c, kept).frontier = c.frontier \o PushedBy(kept, c.visited)
         /\ WithPage(c, kept).visited = c.visited /\ WithPage(c, kept).attempted = c.attempted
         /\ WithPage(c, kept).aliases = c.aliases
         /\ WithPage(c, kept).limited <=> (c.limited \/ TooFar(kept, c.visited))
<1> DEFINE P == Append(c.pages, kept)
           F == c.frontier \o PushedBy(kept, c.visited)
           L == c.limited \/ TooFar(kept, c.visited)
           d == WithPage(c, kept)
<1>1. c.pages \in Seq(CrawlPage) /\ c.frontier \in Seq(FrontierEntry) /\ c.limited \in BOOLEAN
      /\ PushedBy(kept, c.visited) \in Seq(FrontierEntry)
  BY CrawlFields, PushedByIs
<1>2. TooFar(kept, c.visited) \in BOOLEAN
  BY DEF TooFar
<1>3. P \in Seq(CrawlPage) /\ F \in Seq(FrontierEntry)
  BY <1>1
<1>4. L \in BOOLEAN
  BY <1>1, <1>2
<1>5. d = [c EXCEPT !.pages = P, !.frontier = F, !.limited = L]
  BY DEF WithPage
<1> HIDE DEF P, F, L, d
<1>6. ASSUME NEW l \in BOOLEAN, d = [c EXCEPT !.pages = P, !.frontier = F, !.limited = l]
      PROVE  /\ d \in CrawlRecord /\ d.pages = P /\ d.frontier = F
             /\ d.visited = c.visited /\ d.limited = l /\ d.attempted = c.attempted
             /\ d.aliases = c.aliases
  BY <1>3, <1>6 DEF CrawlRecord
<1>7. /\ d \in CrawlRecord /\ d.pages = P /\ d.frontier = F
      /\ d.visited = c.visited /\ d.limited = L /\ d.attempted = c.attempted
      /\ d.aliases = c.aliases
  BY ONLY <1>4, <1>5, <1>6, Zenon
<1> QED
  BY <1>7 DEF P, F, L, d

\* Of a page that is kept every link can be visited, or is too far: then the
\* crawl is limited.
LEMMA StillRemembered ==
  ASSUME NEW c \in CrawlRecord, NEW d \in CrawlRecord, NEW kept \in CrawlPage, Remembered(c),
         site \in Website, d.frontier = c.frontier \o PushedBy(kept, c.visited),
         d.visited = c.visited, d.limited <=> (c.limited \/ TooFar(kept, c.visited)),
         Pages(d) = Pages(c) \cup {kept}
  PROVE  Remembered(d)
<1>1. ToSet(c.frontier) \subseteq ToSet(d.frontier)
      /\ ToSet(PushedBy(kept, c.visited)) \subseteq ToSet(d.frontier)
  BY CrawlFields, PushedByIs, JoinedSets
<1>2. FinalUrls(c) \subseteq FinalUrls(d)
  BY DEF FinalUrls
<1>3. ASSUME NEW q \in Pages(c), q.html, LeadsOn(q), NEW l \in Candidates(q, d.visited)
      PROVE  \/ l.to \in FinalUrls(d)
             \/ \E e \in ToSet(d.frontier) : e.url = l.to
             \/ ~l.next /\ q.depth = MaxDepth /\ d.limited
  <2>1. \/ l.to \in FinalUrls(c)
        \/ \E e \in ToSet(c.frontier) : e.url = l.to
        \/ ~l.next /\ q.depth = MaxDepth /\ c.limited
    BY <1>3 DEF Remembered
  <2> QED
    BY <1>1, <1>2, <2>1
<1>4. ASSUME LeadsOn(kept), NEW l \in Candidates(kept, d.visited)
      PROVE  \/ \E e \in ToSet(d.frontier) : e.url = l.to
             \/ ~l.next /\ kept.depth = MaxDepth /\ d.limited
  <2>1. l \in Candidates(kept, c.visited)
    BY <1>4
  <2>2. CASE l \in Near(kept, c.visited)
    BY <1>1, <1>4, <2>2, PushedByIs, CrawlFields
  <2>3. CASE l \notin Near(kept, c.visited)
    <3>1. ~(DepthOf(kept, l) <= MaxDepth)
      BY <2>1, <2>3 DEF Near
    <3>2. l \in Anchor
      BY <2>1 DEF Candidates, Website, CrawlPage
    <3>3. kept.depth \in 0..MaxDepth /\ MaxDepth \in Nat
      BY CrawlAssumption DEF CrawlPage, CrawlAssumption
    <3>4. ~l.next /\ kept.depth = MaxDepth /\ DepthOf(kept, l) > MaxDepth
      BY <3>1, <3>2, <3>3 DEF DepthOf
    <3>5. TooFar(kept, c.visited)
      BY <1>4, <2>1, <3>4 DEF TooFar
    <3> QED
      BY <3>4, <3>5
  <2> QED
    BY <2>2, <2>3
<1>5. ASSUME NEW q \in {p \in Pages(d) : p.html /\ LeadsOn(p)}, NEW l \in Candidates(q, d.visited)
      PROVE  \/ l.to \in FinalUrls(d)
             \/ \E e \in ToSet(d.frontier) : e.url = l.to
             \/ ~l.next /\ q.depth = MaxDepth /\ d.limited
  <2>1. CASE q \in Pages(c)
    BY <1>3, <1>5, <2>1
  <2>2. CASE q = kept
    BY <1>4, <1>5, <2>2
  <2> QED
    BY <1>5, <2>1, <2>2
<1> QED
  BY <1>5 DEF Remembered

\* A page is kept and counted, and its links are pushed.
LEMMA APageMore ==
  ASSUME NEW c \in CrawlRecord, CrawlFits(c), site \in Website,
         NEW kept \in CrawlPage, kept.html = TRUE, kept.url \notin FinalUrls(c),
         NEW v \in c.visited, <<kept.url, v>> \in c.aliases,
         Len(c.pages) < Cardinality(c.visited), CountDetails(c) < TargetDetails
  PROVE  /\ WithPage(c, kept) \in CrawlRecord /\ CrawlFits(WithPage(c, kept))
         /\ CountDetails(WithPage(c, kept)) = CountDetails(c) + (IF IsDetail(kept) THEN 1 ELSE 0)
         /\ FinalUrls(WithPage(c, kept)) = FinalUrls(c) \cup {kept.url}
         /\ Len(WithPage(c, kept).pages) = Len(c.pages) + 1
         /\ \A i \in DOMAIN WithPage(c, kept).pages \ DOMAIN c.pages : WithPage(c, kept).pages[i] = kept
<1> DEFINE d == WithPage(c, kept)
<1>3. /\ d \in CrawlRecord /\ d.pages = Append(c.pages, kept)
      /\ d.frontier = c.frontier \o PushedBy(kept, c.visited)
      /\ d.visited = c.visited /\ d.attempted = c.attempted /\ d.aliases = c.aliases
      /\ d.limited <=> (c.limited \/ TooFar(kept, c.visited))
  BY WithPageIs
<1> HIDE DEF d
<1>4. /\ Pages(d) = Pages(c) \cup {kept} /\ Len(d.pages) = Len(c.pages) + 1
      /\ DOMAIN d.pages = DOMAIN c.pages \cup {Len(d.pages)} /\ d.pages[Len(d.pages)] = kept
      /\ CountDetails(d) = CountDetails(c) + (IF IsDetail(kept) THEN 1 ELSE 0)
  BY <1>3, OnePageMore
<1>5. FinalUrls(d) = FinalUrls(c) \cup {kept.url}
  BY <1>4 DEF FinalUrls
<1>6. DistinctPages(d)
  <2>1. \A q \in Pages(c) : q.html \in BOOLEAN
    BY CrawlFields DEF CrawlPage
  <2>2. \A q \in Pages(c) : q.url # kept.url \/ q.html # kept.html
    BY <2>1 DEF FinalUrls
  <2> QED
    BY <1>3, <2>2, OnePageMore DEF CrawlFits
<1>7. Aliased(d)
  BY <1>3, <1>5 DEF CrawlFits, Aliased
<1>8. Remembered(d)
  BY <1>3, <1>4, StillRemembered DEF CrawlFits
<1>9. Len(d.pages) <= Cardinality(d.visited)
  BY <1>3, <1>4, CrawlFields
<1>10. \A q \in Pages(d) : ~q.html => q.url \in d.visited
  BY <1>3, <1>4 DEF CrawlFits
<1>11. CountDetails(d) <= TargetDetails
  <2>1. CountDetails(c) \in Nat /\ TargetDetails \in Nat
    BY CrawlFields, CrawlAssumption DEF CrawlAssumption
  <2> QED
    BY <1>4, <2>1
<1>12. CrawlFits(d)
  BY <1>3, <1>6, <1>7, <1>8, <1>9, <1>10, <1>11 DEF CrawlFits
<1>13. \A i \in DOMAIN d.pages \ DOMAIN c.pages : d.pages[i] = kept
  BY <1>4
<1> QED
  BY <1>3, <1>4, <1>5, <1>12, <1>13 DEF d

-----------------------------------------------------------------------------
(* The steps of the crawl.                                                  *)

\* What a step leaves of a crawl that fits still fits: the web site is the same.
LEMMA StaysFit ==
  ASSUME site' = site, NEW d, CrawlFits(d)
  PROVE  (crawl' = d => CrawlFits(crawl)') /\ (saved' = d => CrawlFits(saved)')
BY DEF CrawlFits, DistinctPages, Remembered, Aliased, Candidates, Approved, FinalUrls, Pages,
       CountDetails

LEMMA CrawlKeeps ==
  ASSUME FetcherInv', site' = site, CrawlTypeOK', SliceFits', CrawlFits(saved), CrawlFits(crawl),
         saved' = saved \/ saved' = crawl,
         NEW d, crawl' = d, CrawlFits(d)
  PROVE  CrawlInv'
BY StaysFit DEF CrawlInv

LEMMA CrawlFacts ==
  ASSUME CrawlInv
  PROVE  /\ FetcherInv /\ CrawlTypeOK /\ CrawlFits(saved) /\ CrawlFits(crawl) /\ SliceFits
         /\ saved \in CrawlRecord /\ crawl \in CrawlRecord /\ site \in Website
         /\ 0 \in 0..TargetDetails /\ TargetDetails \in Nat
BY CrawlAssumption DEF CrawlAssumption, CrawlInv, CrawlTypeOK, FetcherInv

\* Where the crawl, its checkpoint and its counts stay.
LEMMA SliceStays ==
  ASSUME CrawlInv, FetcherInv', site' = site, UNCHANGED <<saved, crawl, details, seen>>, CrawlTypeOK',
         mode' = "running" => mode = "running", mode' = "paused" => mode \in {"running", "paused"},
         item' = None \/ (item' = item /\ mode' = mode)
  PROVE  CrawlInv'
<1>1. SliceFits'
  BY CrawlFacts DEF SliceFits
<1> QED
  BY <1>1, CrawlFacts, CrawlKeeps

LEMMA FetcherStays ==
  ASSUME FetcherInv, site' = site, UNCHANGED fetcher
  PROVE  FetcherInv'
<1>1. UNCHANGED <<site, robots, slots, alive, main, work, browser>>
  BY DEF fetcher
<1> QED
  BY <1>1 DEF FetcherInv, FetcherTypeOK, ThreadsAreBounded, RequestsFit, RenderingsFit, AtWork,
              RobotsAllow, Awaited

LEMMA CrawlStart == Init => CrawlInv
<1> SUFFICES ASSUME Init PROVE CrawlInv
  OBVIOUS
<1>1. FetcherInv
  BY FetcherStart DEF Init
<1>2. NewCrawl \in CrawlRecord /\ NewCrawl.pages = <<>> /\ NewCrawl.visited = {} /\ NewCrawl.attempted = {}
  <2>1. Entry(Seed, "seed", 0, None) \in FrontierEntry
    BY CrawlAssumption DEF CrawlAssumption, Entry, FrontierEntry
  <2> DEFINE e == Entry(Seed, "seed", 0, None)
  <2>4. e \in FrontierEntry
    BY <2>1
  <2>2. <<e>> \in Seq(FrontierEntry) /\ <<>> \in Seq(CrawlPage)
    <3> HIDE DEF e
    <3>1. <<e>> \in Seq(FrontierEntry)
      BY <2>4
    <3>2. <<>> \in Seq(CrawlPage)
      OBVIOUS
    <3> QED
      BY <3>1, <3>2
  <2> HIDE DEF e
  <2>3. FALSE \in BOOLEAN
    OBVIOUS
  <2> QED
    BY <2>2, <2>3 DEF NewCrawl, CrawlRecord, e
<1> HIDE DEF NewCrawl
<1>3. Pages(NewCrawl) = {} /\ FinalUrls(NewCrawl) = {} /\ DOMAIN NewCrawl.pages = {} /\ Len(NewCrawl.pages) = 0
  <2>1. Pages(NewCrawl) = {} /\ DOMAIN NewCrawl.pages = {} /\ Len(NewCrawl.pages) = 0
    BY <1>2 DEF Pages, ToSet
  <2> QED
    BY <2>1 DEF FinalUrls
<1>4. CountDetails(NewCrawl) = 0 /\ Cardinality(NewCrawl.visited) = 0
  <2>1. {i \in DOMAIN NewCrawl.pages : IsDetail(NewCrawl.pages[i])} = {}
    BY <1>3
  <2> QED
    BY <1>2, <2>1, FS_EmptySet DEF CountDetails
<1>5. CrawlFits(NewCrawl)
  <2>1. DistinctPages(NewCrawl) /\ Remembered(NewCrawl) /\ Aliased(NewCrawl)
    BY <1>3 DEF DistinctPages, Remembered, Aliased
  <2> QED
    BY <1>2, <1>3, <1>4, <2>1, CrawlAssumption DEF CrawlAssumption, CrawlFits
<1>6. CrawlTypeOK
  BY <1>2, CrawlAssumption DEF CrawlAssumption, Init, CrawlTypeOK
<1>7. SliceFits
  BY DEF Init, SliceFits
<1> QED
  BY <1>1, <1>5, <1>6, <1>7 DEF CrawlInv, Init

LEMMA RequestLeavesTheSite == \A p : FetchUrl(p) => site' = site
BY DEF FetchUrl, Resolve, Resolved, Connect, Fail, Answered

LEMMA FetcherStepStays == Fetch \/ Background => site' = site
<1>1. Fetch => site' = site
  <2>0. Decide \/ AskRobots => site' = site
    BY DEF Decide, AskRobots
  <2>1. RobotsAnswered \/ PageAnswered => site' = site
    BY Zenon DEF RobotsAnswered, PageAnswered
  <2>2. NoSlotToRender \/ ExpireRender \/ CloseRender => site' = site
    BY DEF NoSlotToRender, ExpireRender, CloseRender
  <2>3. \A b : StartRender(b) \/ Rendered(b) \/ GiveUpRendering(b) => site' = site
    BY DEF StartRender, Rendered, GiveUpRendering
  <2> QED
    BY <2>0, <2>1, <2>2, <2>3, RequestLeavesTheSite DEF Fetch
<1>2. Background => site' = site
  <2>1. \A k : LingeringEnds(k) => site' = site
    BY DEF LingeringEnds
  <2>2. \A b : ResourceLoaded(b) \/ AbandonedEnds(b) => site' = site
    BY DEF ResourceLoaded, AbandonedEnds
  <2>3. \A b, u : LoadResource(b, u) => site' = site
    BY DEF LoadResource
  <2> QED
    BY <2>1, <2>2, <2>3, RequestLeavesTheSite DEF Background
<1> QED
  BY <1>1, <1>2

LEMMA FetchStepKeeps ==
  ASSUME CrawlInv, FetchStep \/ BackgroundStep
  PROVE  CrawlInv'
<1>1. (Fetch \/ Background) /\ UNCHANGED crawlvars
  BY DEF FetchStep, BackgroundStep
<1>2. FetcherInv' /\ site' = site
  BY <1>1, CrawlFacts, FetchKeeps, FetcherStepStays
<1>3. CrawlTypeOK'
  BY <1>1, CrawlFacts DEF crawlvars, CrawlTypeOK
<1> QED
  BY <1>1, <1>2, <1>3, SliceStays DEF crawlvars

LEMMA StandingSteps ==
  ASSUME CrawlInv,
         Pause \/ Stop \/ EndAuthorization \/ \E u \in Url : Exclude(u) \/ Readmit(u)
  PROVE  CrawlInv'
<1>1. UNCHANGED <<site, fetcher, attempts, saved, crawl, details, seen, fresh, item, phase>>
  BY DEF Pause, Stop, EndAuthorization, Exclude, Readmit
<1>2. mode' = mode \/ (item = None /\ mode = "running" /\ mode' \in {"paused", "stopped"})
  BY DEF Pause, Stop, EndAuthorization, Exclude, Readmit
<1>3. authorized' \in BOOLEAN /\ excluded' \subseteq Url
  BY CrawlFacts DEF CrawlTypeOK, Pause, Stop, EndAuthorization, Exclude, Readmit
<1>4. stop' \in {None, "target_reached", "page_limit", "depth_limit", "frontier_exhausted"}
  <2>1. CASE Stop
    BY <2>1 DEF Stop
  <2>2. CASE ~Stop
    BY <2>2, CrawlFacts DEF CrawlTypeOK, Pause, EndAuthorization, Exclude, Readmit
  <2> QED
    BY <2>1, <2>2
<1>5. CrawlTypeOK'
  BY <1>1, <1>2, <1>3, <1>4, CrawlFacts DEF CrawlTypeOK
<1>6. FetcherInv'
  BY <1>1, CrawlFacts, FetcherStays
<1> QED
  BY <1>1, <1>2, <1>5, <1>6, SliceStays

LEMMA SaveStep == ASSUME CrawlInv, Save PROVE CrawlInv'
<1>1. UNCHANGED <<site, fetcher, excluded, authorized, stop, attempts, crawl, details, seen, fresh, item, phase>>
  BY DEF Save
<1>2. mode' \in {"queued", "cancelled"} /\ (saved' = saved \/ saved' = crawl) /\ item = None
  BY CrawlFacts DEF Save, Checkpoint, SliceFits
<1>3. CrawlTypeOK'
  BY <1>1, <1>2, CrawlFacts DEF CrawlTypeOK
<1>4. SliceFits'
  BY <1>1, <1>2 DEF SliceFits
<1> QED
  BY <1>1, <1>2, <1>3, <1>4, CrawlFacts, FetcherStays, CrawlKeeps

LEMMA StartSliceStep == ASSUME CrawlInv, StartSlice PROVE CrawlInv'
<1>1. UNCHANGED <<site, excluded, authorized, stop, attempts, saved, item, phase>>
  BY DEF StartSlice
<1>2. item = None
  BY CrawlFacts DEF StartSlice, SliceFits
<1>3. CASE authorized
  <2>1. /\ mode' = "running" /\ crawl' = saved /\ details' = CountDetails(saved)
        /\ seen' = FinalUrls(saved) /\ ReplaceFetcher /\ fresh' = TRUE
    BY <1>3 DEF StartSlice, Restore
  <2>2. FetcherInv'
    BY <1>1, <2>1, CrawlFacts, ReplaceKeeps
  <2>3. CountDetails(saved) \in 0..TargetDetails /\ FinalUrls(saved) \subseteq Url
        /\ Len(saved.pages) <= Len(saved.pages)
    BY CrawlFacts, CrawlFields DEF CrawlFits
  <2>4. CrawlTypeOK'
    BY <1>1, <2>1, <2>3, CrawlFacts DEF CrawlTypeOK
  <2>5. details' = CountDetails(crawl') /\ seen' = FinalUrls(crawl')
    BY <2>1
  <2>6. SliceFits'
    BY <1>1, <1>2, <2>1, <2>3, <2>5 DEF SliceFits
  <2> QED
    BY <1>1, <2>1, <2>2, <2>4, <2>6, CrawlFacts, CrawlKeeps
<1>4. CASE ~authorized
  <2>1. mode' = "cancelled" /\ UNCHANGED <<fetcher, crawl, details, seen, fresh>>
    BY <1>4 DEF StartSlice
  <2>2. CrawlTypeOK'
    BY <1>1, <2>1, CrawlFacts DEF CrawlTypeOK
  <2> QED
    BY <1>1, <1>2, <2>1, <2>2, CrawlFacts, FetcherStays, SliceStays
<1> QED
  BY <1>3, <1>4

LEMMA CrashStep == ASSUME CrawlInv, Crash PROVE CrawlInv'
<1>1. /\ mode' \in {"queued", "failed"} /\ attempts' \in 1..MaxAttempts /\ item' = None /\ phase' = None
      /\ crawl' = saved /\ details' = 0 /\ seen' = {} /\ fresh' = TRUE /\ ReplaceFetcher
      /\ UNCHANGED <<site, excluded, authorized, stop, saved>>
  BY CrawlFacts, CrawlAssumption DEF CrawlAssumption, Crash, Recorded, CrawlTypeOK
<1>2. CrawlTypeOK'
  BY <1>1, CrawlFacts DEF CrawlTypeOK
<1>3. SliceFits'
  BY <1>1 DEF SliceFits
<1> QED
  BY <1>1, <1>2, <1>3, CrawlFacts, ReplaceKeeps, CrawlKeeps

\* A page that is to be fetched is visited; one that is known already is not.
LEMMA Visiting ==
  ASSUME NEW c \in CrawlRecord, NEW d \in CrawlRecord, CrawlFits(c), NEW i \in DOMAIN c.frontier,
         d.frontier = RemoveAt(c.frontier, i), d.pages = c.pages, d.limited = c.limited,
         d.attempted = c.attempted, d.aliases = c.aliases,
         \/ /\ d.visited = c.visited
            /\ c.frontier[i].url \in c.visited \cup FinalUrls(c)
         \/ /\ d.visited = c.visited \cup {c.frontier[i].url}
            /\ c.frontier[i].url \notin c.visited /\ Cardinality(c.visited) < MaxPages
  PROVE  /\ CrawlFits(d) /\ CountDetails(d) = CountDetails(c) /\ FinalUrls(d) = FinalUrls(c)
         /\ Pages(d) = Pages(c)
         /\ d.visited # c.visited => Cardinality(d.visited) = Cardinality(c.visited) + 1
<1> DEFINE e == c.frontier[i]
<1>1. Pages(d) = Pages(c) /\ FinalUrls(d) = FinalUrls(c) /\ CountDetails(d) = CountDetails(c)
  BY DEF Pages, FinalUrls, CountDetails
<1>2. DistinctPages(d)
  BY DEF CrawlFits, DistinctPages
<1>3. c.visited \subseteq d.visited
  OBVIOUS
<1>4. Aliased(d)
  BY <1>1, <1>3 DEF CrawlFits, Aliased
<1>5. \A x \in ToSet(c.frontier) : x = e \/ x \in ToSet(d.frontier)
  BY CrawlFields, Removed
<1>6. e.url \in d.visited \cup FinalUrls(c)
  OBVIOUS
<1> HIDE DEF e
<1>7. Remembered(d)
  <2> SUFFICES ASSUME NEW kept \in {q \in Pages(d) : q.html /\ LeadsOn(q)},
                      NEW link \in Candidates(kept, d.visited)
               PROVE  \/ link.to \in FinalUrls(d)
                      \/ \E x \in ToSet(d.frontier) : x.url = link.to
                      \/ ~link.next /\ kept.depth = MaxDepth /\ d.limited
    BY DEF Remembered
  <2>1. link \in Candidates(kept, c.visited) /\ link.to \notin d.visited
    BY <1>3 DEF Candidates
  <2>2. \/ link.to \in FinalUrls(c)
        \/ \E x \in ToSet(c.frontier) : x.url = link.to
        \/ ~link.next /\ kept.depth = MaxDepth /\ c.limited
    BY <1>1, <2>1 DEF CrawlFits, Remembered
  <2> QED
    BY <1>1, <1>5, <1>6, <2>1, <2>2
<1>8. /\ Cardinality(d.visited) <= MaxPages /\ Cardinality(c.visited) <= Cardinality(d.visited)
      /\ d.visited # c.visited => Cardinality(d.visited) = Cardinality(c.visited) + 1
  <2>1. IsFiniteSet(c.visited) /\ Cardinality(c.visited) \in Nat /\ MaxPages \in Nat
    BY CrawlFields, CrawlAssumption DEF CrawlAssumption
  <2>2. CASE d.visited = c.visited
    BY <2>1, <2>2 DEF CrawlFits
  <2>3. CASE d.visited # c.visited
    <3>1. Cardinality(d.visited) = Cardinality(c.visited) + 1
      BY <2>1, <2>3, FS_AddElement DEF e
    <3> QED
      BY <2>1, <2>3, <3>1
  <2> QED
    BY <2>2, <2>3
<1>9. Len(d.pages) <= Cardinality(d.visited)
  BY <1>8, CrawlFields DEF CrawlFits
<1>10. d.attempted \subseteq d.visited /\ \A kept \in Pages(d) : ~kept.html => kept.url \in d.visited
  BY <1>1, <1>3 DEF CrawlFits
<1> QED
  BY <1>1, <1>2, <1>4, <1>7, <1>8, <1>9, <1>10 DEF CrawlFits

LEMMA PopStep == ASSUME CrawlInv, Pop PROVE CrawlInv'
<1> DEFINE i == Best(crawl.frontier)
           e == crawl.frontier[i]
<1>1. /\ mode = "running" /\ item = None /\ crawl.frontier # <<>>
      /\ Cardinality(crawl.visited) < MaxPages /\ details < TargetDetails /\ fresh' = FALSE
      /\ UNCHANGED <<site, fetcher, excluded, authorized, mode, stop, attempts, saved, details, seen>>
  BY DEF Pop, GoesOn
<1>2. i \in DOMAIN crawl.frontier /\ e \in FrontierEntry /\ e.url \in Url
  <2>1. crawl.frontier \in Seq(FrontierEntry)
    BY CrawlFacts, CrawlFields
  <2>2. i \in DOMAIN crawl.frontier
    BY <1>1, <2>1, BestIsThere
  <2>3. e \in FrontierEntry
    BY <2>1, <2>2
  <2>4. e.url \in Url
    BY <2>3 DEF FrontierEntry
  <2> QED
    BY <2>2, <2>3, <2>4
<1>3. \/ /\ Known(e.url) /\ crawl' = [crawl EXCEPT !.frontier = RemoveAt(@, i)]
         /\ UNCHANGED <<item, phase>>
      \/ /\ ~Known(e.url) /\ item' = e /\ phase' = "http"
         /\ crawl' = [crawl EXCEPT !.frontier = RemoveAt(@, i), !.visited = @ \cup {e.url}]
  BY DEF Pop
<1> HIDE DEF i, e
<1> DEFINE F == RemoveAt(crawl.frontier, i)
           V == IF Known(e.url) THEN crawl.visited ELSE crawl.visited \cup {e.url}
<1>4. F \in Seq(FrontierEntry) /\ V \subseteq Url
  BY <1>2, CrawlFacts, CrawlFields, Removed
<1>5. /\ crawl' \in CrawlRecord /\ crawl'.frontier = F /\ crawl'.visited = V
      /\ crawl'.pages = crawl.pages /\ crawl'.limited = crawl.limited
      /\ crawl'.attempted = crawl.attempted /\ crawl'.aliases = crawl.aliases
  <2>1. crawl' = [crawl EXCEPT !.frontier = F, !.visited = V]
    <3>1. crawl \in CrawlRecord
      BY CrawlFacts
    <3> QED
      BY <1>3, <3>1 DEF CrawlRecord
  <2>2. crawl \in CrawlRecord
    BY CrawlFacts
  <2> HIDE DEF F, V
  <2> QED
    BY <1>4, <2>1, <2>2 DEF CrawlRecord
<1>6. e.url \notin crawl.visited \/ Known(e.url)
  BY DEF Known
<1>7. Known(e.url) => e.url \in crawl.visited \cup FinalUrls(crawl)
  BY <1>1, CrawlFacts DEF Known, SliceFits
<1>8. /\ CrawlFits(crawl') /\ CountDetails(crawl') = CountDetails(crawl)
      /\ FinalUrls(crawl') = FinalUrls(crawl) /\ Pages(crawl') = Pages(crawl)
      /\ V # crawl.visited => Cardinality(V) = Cardinality(crawl.visited) + 1
  <2>1. \/ V = crawl.visited /\ e.url \in crawl.visited \cup FinalUrls(crawl)
        \/ V = crawl.visited \cup {e.url} /\ e.url \notin crawl.visited
    BY <1>6, <1>7
  <2> HIDE DEF V
  <2>2. crawl'.frontier = RemoveAt(crawl.frontier, i) /\ e = crawl.frontier[i]
    BY <1>5 DEF e
  <2> QED
    BY <1>1, <1>2, <1>5, <2>1, <2>2, CrawlFacts, Visiting
<1>9. item' # None => /\ item' = e /\ e.url \in crawl'.visited
                      /\ Cardinality(crawl'.visited) = Cardinality(crawl.visited) + 1
                      /\ e.url \notin crawl.visited
  BY <1>1, <1>3, <1>5, <1>6, <1>8
<1>10. CrawlTypeOK'
  <2>1. item' \in FrontierEntry \cup {None} /\ phase' \in {None, "http", "render", "retry"}
        /\ (item' = None <=> phase' = None)
    <3>1. None \notin FrontierEntry /\ None # "http"
      BY CrawlAssumption DEF CrawlAssumption
    <3> QED
      BY <1>2, <1>3, <3>1, CrawlFacts DEF CrawlTypeOK
  <2>2. crawl'.attempted \subseteq crawl'.visited
    BY <1>8 DEF CrawlFits
  <2> QED
    BY <1>1, <1>5, <2>1, <2>2, CrawlFacts DEF CrawlTypeOK
<1>11. SliceFits'
  <2>1. details = CountDetails(crawl) /\ seen = FinalUrls(crawl) /\ Len(saved.pages) <= Len(crawl.pages)
    BY <1>1, CrawlFacts DEF SliceFits
  <2>2. details' = CountDetails(crawl') /\ seen' = FinalUrls(crawl')
    BY <1>1, <1>8, <2>1
  <2>3. item' # None => /\ item'.url \in crawl'.visited
                        /\ Len(crawl'.pages) < Cardinality(crawl'.visited)
                        /\ \A kept \in Pages(crawl') : ~kept.html => kept.url # item'.url
    <3>1. Len(crawl.pages) \in Nat /\ Cardinality(crawl.visited) \in Nat
          /\ Len(crawl.pages) <= Cardinality(crawl.visited)
          /\ \A kept \in Pages(crawl) : ~kept.html => kept.url \in crawl.visited
      BY CrawlFacts, CrawlFields DEF CrawlFits
    <3> QED
      BY <1>5, <1>8, <1>9, <3>1
  <2> QED
    BY <1>1, <1>5, <2>1, <2>2, <2>3 DEF SliceFits
<1> QED
  BY <1>1, <1>8, <1>10, <1>11, CrawlFacts, FetcherStays, CrawlKeeps

\* With an item that is dealt with the slice goes on as it should.
LEMMA ItemIsDone ==
  ASSUME CrawlInv, FetcherInv', mode = "running", Recorded,
         UNCHANGED <<site, excluded, authorized, mode, stop, attempts, saved, fresh>>,
         NEW d \in CrawlRecord, crawl' = d, CrawlFits(d), Len(crawl.pages) <= Len(d.pages),
         details' = CountDetails(d), seen' = FinalUrls(d)
  PROVE  CrawlInv'
<1>1. Len(saved.pages) <= Len(d.pages)
  <2>1. Len(saved.pages) \in Nat /\ Len(crawl.pages) \in Nat /\ Len(d.pages) \in Nat
        /\ Len(saved.pages) <= Len(crawl.pages)
    BY CrawlFacts, CrawlFields DEF SliceFits
  <2> QED
    BY <2>1
<1>2. details' = CountDetails(crawl') /\ seen' = FinalUrls(crawl') /\ item' = None /\ phase' = None
  BY DEF Recorded
<1>3. SliceFits'
  BY <1>1, <1>2 DEF SliceFits
<1>4. details' \in 0..TargetDetails /\ seen' \subseteq Url /\ d.attempted \subseteq d.visited
  BY CrawlFacts, CrawlFields DEF CrawlFits
<1>5. CrawlTypeOK'
  BY <1>2, <1>4, CrawlFacts DEF CrawlTypeOK
<1> QED
  BY <1>3, <1>5, CrawlFacts, CrawlKeeps

\* What holds of an item that is being fetched.
LEMMA ItemFacts ==
  ASSUME CrawlInv, item # None
  PROVE  /\ mode = "running" /\ item \in FrontierEntry /\ item.url \in Url /\ item.depth \in 0..MaxDepth
         /\ item.url \in crawl.visited /\ details < TargetDetails
         /\ Len(crawl.pages) < Cardinality(crawl.visited)
         /\ \A kept \in Pages(crawl) : ~kept.html => kept.url # item.url
         /\ details = CountDetails(crawl) /\ seen = FinalUrls(crawl)
<1>1. item \in FrontierEntry
  BY CrawlFacts DEF CrawlTypeOK
<1>2. item.url \in Url /\ item.depth \in 0..MaxDepth
  BY <1>1 DEF FrontierEntry
<1> QED
  BY <1>1, <1>2, CrawlFacts DEF SliceFits

\* The failure of an item is recorded on a crawl that only noted more.
LEMMA ItemHasFailed ==
  ASSUME CrawlInv, FetcherInv', item # None, Recorded,
         UNCHANGED <<site, excluded, authorized, mode, stop, attempts, saved, fresh, details, seen>>,
         NEW c \in CrawlRecord, c.frontier = crawl.frontier, c.visited = crawl.visited,
         c.pages = crawl.pages, c.limited = crawl.limited, crawl.aliases \subseteq c.aliases,
         c.attempted \subseteq crawl.visited, crawl' = WithFailure(c)
  PROVE  /\ CrawlInv'
         /\ \A i \in DOMAIN crawl'.pages \ DOMAIN crawl.pages : crawl'.pages[i].kind = "error"
<1>1. CrawlFits(c) /\ CountDetails(c) = CountDetails(crawl) /\ FinalUrls(c) = FinalUrls(crawl)
      /\ Pages(c) = Pages(crawl)
  BY CrawlFacts, OnlyNotes
<1> DEFINE d == WithFailure(c)
<1>2. /\ d \in CrawlRecord /\ CrawlFits(d) /\ CountDetails(d) = CountDetails(c)
      /\ FinalUrls(d) = FinalUrls(c) /\ Len(d.pages) = Len(c.pages) + 1
      /\ \A i \in DOMAIN d.pages \ DOMAIN c.pages : d.pages[i].kind = "error"
  BY <1>1, ItemFacts, AFailureMore
<1>3. Len(crawl.pages) <= Len(d.pages)
  BY <1>2, CrawlFields
<1>4. crawl' = d
  OBVIOUS
<1> HIDE DEF d
<1>5. CrawlInv'
  BY <1>1, <1>2, <1>3, <1>4, ItemFacts, ItemIsDone
<1> QED
  BY <1>2, <1>4, <1>5

LEMMA RequestsOfTheCrawl ==
  ASSUME CrawlInv, Request
  PROVE  /\ CrawlInv'
         /\ \A i \in DOMAIN crawl'.pages \ DOMAIN crawl.pages : crawl'.pages[i].kind = "error"
<1>1. /\ mode = "running" /\ item # None /\ main.stage = "idle"
      /\ UNCHANGED <<site, excluded, authorized, stop, attempts, saved, details, seen, fresh>>
  BY DEF Request
<1>2. CASE ~authorized /\ mode' = "cancelled" /\ Recorded /\ UNCHANGED <<fetcher, crawl>>
  <2>1. item' = None /\ phase' = None
    BY <1>2 DEF Recorded
  <2>2. CrawlTypeOK'
    BY <1>1, <1>2, <2>1, CrawlFacts DEF CrawlTypeOK
  <2>3. CrawlInv'
    BY <1>1, <1>2, <2>1, <2>2, CrawlFacts, FetcherStays, SliceStays
  <2> QED
    BY <1>2, <2>3
<1>3. CASE /\ crawl' = WithFailure([crawl EXCEPT !.skipped = @ \cup {item.url}])
           /\ Recorded /\ UNCHANGED <<fetcher, mode>>
  <2> DEFINE S == crawl.skipped \cup {item.url}
             c == [crawl EXCEPT !.skipped = S]
  <2>1. S \subseteq Url /\ crawl \in CrawlRecord
    BY <1>1, CrawlFacts, CrawlFields, ItemFacts
  <2>2. crawl' = WithFailure(c)
    BY <1>3
  <2>3. /\ c \in CrawlRecord /\ c.frontier = crawl.frontier /\ c.visited = crawl.visited
        /\ c.pages = crawl.pages /\ c.limited = crawl.limited /\ c.aliases = crawl.aliases
        /\ c.attempted = crawl.attempted
    <3> HIDE DEF S
    <3> QED
      BY <2>1 DEF CrawlRecord
  <2>4. crawl.attempted \subseteq crawl.visited
    BY CrawlFacts DEF CrawlFits
  <2> HIDE DEF c
  <2> QED
    BY <1>1, <1>3, <2>2, <2>3, <2>4, CrawlFacts, FetcherStays, ItemHasFailed
<1>4. CASE /\ crawl' = [crawl EXCEPT !.attempted = @ \cup {item.url}]
           /\ Asking(item.url, phase = "render")
           /\ UNCHANGED <<mode, item, phase, robots, slots, alive, work, browser>>
  <2> DEFINE A == crawl.attempted \cup {item.url}
             d == [crawl EXCEPT !.attempted = A]
  <2>1. A \subseteq crawl.visited /\ A \subseteq Url /\ crawl \in CrawlRecord
    BY <1>1, CrawlFacts, CrawlFields, ItemFacts DEF CrawlFits
  <2>2. crawl' = d
    BY <1>4
  <2>3. /\ d \in CrawlRecord /\ d.frontier = crawl.frontier /\ d.visited = crawl.visited
        /\ d.pages = crawl.pages /\ d.limited = crawl.limited /\ d.aliases = crawl.aliases
        /\ d.attempted = A
    <3> HIDE DEF A
    <3> QED
      BY <2>1 DEF CrawlRecord
  <2> HIDE DEF d, A
  <2>4. CrawlFits(d) /\ CountDetails(d) = CountDetails(crawl) /\ FinalUrls(d) = FinalUrls(crawl)
        /\ Pages(d) = Pages(crawl)
    BY <2>1, <2>3, CrawlFacts, OnlyNotes
  <2>5. FetcherInv'
    <3>1. (phase = "render") \in BOOLEAN
      OBVIOUS
    <3> QED
      BY <1>1, <1>4, <3>1, CrawlFacts, ItemFacts, AskingStep
  <2>6. CrawlTypeOK'
    BY <1>1, <1>4, <2>1, <2>2, <2>3, CrawlFacts DEF CrawlTypeOK
  <2>7. SliceFits'
    BY <1>1, <1>4, <2>2, <2>3, <2>4, CrawlFacts DEF SliceFits
  <2>8. CrawlInv'
    BY <1>1, <2>2, <2>4, <2>5, <2>6, <2>7, CrawlFacts, CrawlKeeps
  <2> QED
    BY <2>2, <2>3, <2>8
<1> QED
  BY <1>2, <1>3, <1>4 DEF Request

LEMMA AnswerFacts ==
  ASSUME CrawlInv, Receive
  PROVE  /\ mode = "running" /\ item # None /\ FetcherInv' /\ main.got \in Url \cup {None}
         /\ UNCHANGED <<site, excluded, authorized, mode, stop, attempts, saved, fresh>>
<1>1. /\ mode = "running" /\ item # None /\ main.stage = "done" /\ main' = NoFetch
      /\ UNCHANGED <<site, robots, slots, alive, work, browser>>
      /\ UNCHANGED <<excluded, authorized, mode, stop, attempts, saved, fresh>>
  BY DEF Receive
<1>2. FetcherInv'
  BY <1>1, CrawlFacts, TakingTheAnswer
<1>3. main \in FetchRecord
  BY CrawlFacts DEF FetcherInv, FetcherTypeOK
<1>4. main.got \in Url \cup {None}
  BY <1>3 DEF FetchRecord
<1> QED
  BY <1>1, <1>2, <1>4

\* The crawl with the address of an item noted as an alias of its page
MetAs(u) == [crawl EXCEPT !.aliases = @ \cup {<<u, item.url>>}]
LEMMA Met ==
  ASSUME CrawlInv, item # None, NEW u \in Url
  PROVE  /\ MetAs(u) \in CrawlRecord /\ MetAs(u).frontier = crawl.frontier
         /\ MetAs(u).visited = crawl.visited /\ MetAs(u).pages = crawl.pages
         /\ MetAs(u).limited = crawl.limited /\ MetAs(u).attempted = crawl.attempted
         /\ crawl.aliases \subseteq MetAs(u).aliases /\ <<u, item.url>> \in MetAs(u).aliases
         /\ MetAs(u).skipped = crawl.skipped /\ MetAs(u).attempted \subseteq crawl.visited
         /\ CrawlFits(MetAs(u)) /\ CountDetails(MetAs(u)) = CountDetails(crawl)
         /\ FinalUrls(MetAs(u)) = FinalUrls(crawl) /\ Pages(MetAs(u)) = Pages(crawl)
<1> DEFINE A == crawl.aliases \cup {<<u, item.url>>}
           c == MetAs(u)
<1>1. A \subseteq Url \X Url /\ crawl \in CrawlRecord
  BY CrawlFacts, CrawlFields, ItemFacts
<1>2. c = [crawl EXCEPT !.aliases = A]
  BY DEF MetAs
<1> HIDE DEF A, c
<1>3. /\ c \in CrawlRecord /\ c.frontier = crawl.frontier /\ c.visited = crawl.visited
      /\ c.pages = crawl.pages /\ c.limited = crawl.limited /\ c.attempted = crawl.attempted
      /\ c.skipped = crawl.skipped /\ c.aliases = A
  BY <1>1, <1>2 DEF CrawlRecord
<1>4. crawl.aliases \subseteq c.aliases /\ <<u, item.url>> \in c.aliases
  BY <1>3 DEF A
<1>5. c.attempted \subseteq crawl.visited
  BY <1>3, CrawlFacts DEF CrawlFits
<1>6. /\ CrawlFits(c) /\ CountDetails(c) = CountDetails(crawl)
      /\ FinalUrls(c) = FinalUrls(crawl) /\ Pages(c) = Pages(crawl)
  BY <1>1, <1>3, <1>4, <1>5, CrawlFacts, OnlyNotes
<1> QED
  BY <1>3, <1>4, <1>5, <1>6 DEF c

\* What is new after an answer is a failure, or a page that was not excluded.
NothingBarredEnters ==
    \A i \in DOMAIN crawl'.pages \ DOMAIN crawl.pages :
        crawl'.pages[i].kind # "error" =>
            crawl'.pages[i].url \notin excluded /\ item.url \notin excluded

\* The crawl with a failure in place of an answer that is excluded
WithoutAnswer(u) ==
    WithFailure([MetAs(u) EXCEPT !.attempted = @ \ {item.url},
                                 !.skipped = @ \cup (IF item.url \in excluded THEN {item.url} ELSE {u})])

LEMMA BarredAnswer ==
  ASSUME CrawlInv, Receive, NEW u \in Url, Recorded, UNCHANGED <<details, seen>>, Barred(u),
         crawl' = WithoutAnswer(u)
  PROVE  CrawlInv' /\ NothingBarredEnters
<1> DEFINE m == MetAs(u)
           A == m.attempted \ {item.url}
           S == m.skipped \cup (IF item.url \in excluded THEN {item.url} ELSE {u})
           c == [m EXCEPT !.attempted = A, !.skipped = S]
<1>1. item # None
  BY AnswerFacts
<1>2. /\ m \in CrawlRecord /\ m.frontier = crawl.frontier /\ m.visited = crawl.visited
      /\ m.pages = crawl.pages /\ m.limited = crawl.limited
      /\ crawl.aliases \subseteq m.aliases /\ m.attempted \subseteq crawl.visited
  BY <1>1, Met
<1>3. crawl' = WithFailure(c)
  BY DEF m, WithoutAnswer
<1> HIDE DEF m
<1>4. A \subseteq crawl.visited /\ A \subseteq Url /\ S \subseteq Url
  BY <1>1, <1>2, CrawlFields, ItemFacts
<1> HIDE DEF A, S
<1>5. /\ c \in CrawlRecord /\ c.frontier = m.frontier /\ c.visited = m.visited
      /\ c.pages = m.pages /\ c.limited = m.limited /\ c.aliases = m.aliases /\ c.attempted = A
  BY <1>2, <1>4 DEF CrawlRecord
<1> HIDE DEF c
<1>6. /\ CrawlInv'
      /\ \A i \in DOMAIN crawl'.pages \ DOMAIN crawl.pages : crawl'.pages[i].kind = "error"
  BY <1>1, <1>2, <1>3, <1>4, <1>5, AnswerFacts, ItemHasFailed
<1> QED
  BY <1>6 DEF NothingBarredEnters

LEMMA PageAdded ==
  ASSUME CrawlInv, Receive, NEW u \in Url, Recorded, ~Barred(u), AddPage(MetAs(u), u)
  PROVE  CrawlInv' /\ NothingBarredEnters
<1> DEFINE m == MetAs(u)
           kept == PageOf(u)
<1>1. item # None
  BY AnswerFacts
<1>2. /\ m \in CrawlRecord /\ m.visited = crawl.visited /\ m.pages = crawl.pages
      /\ <<u, item.url>> \in m.aliases /\ CrawlFits(m) /\ CountDetails(m) = CountDetails(crawl)
      /\ FinalUrls(m) = FinalUrls(crawl) /\ Pages(m) = Pages(crawl)
  BY <1>1, Met
<1>3. CASE u \in seen
  <2>1. crawl' = m /\ UNCHANGED <<details, seen>>
    BY <1>3 DEF AddPage
  <2> HIDE DEF m
  <2>2. Len(crawl.pages) <= Len(m.pages)
    BY <1>2, CrawlFields
  <2>3. CrawlInv'
    BY <1>1, <1>2, <2>1, <2>2, AnswerFacts, ItemFacts, ItemIsDone
  <2> QED
    BY <1>2, <2>1, <2>3 DEF NothingBarredEnters
<1>4. CASE u \notin seen
  <2>1. /\ crawl' = WithPage(m, kept) /\ details' = details + (IF IsDetail(kept) THEN 1 ELSE 0)
        /\ seen' = seen \cup {u}
    BY <1>4 DEF AddPage, WithPage, PushedBy, TooFar, PageOf
  <2>2. kept \in CrawlPage /\ kept.url = u /\ kept.html = TRUE /\ kept.kind = Classify(u, item.hint)
    BY <1>1, CrawlFacts, ItemFacts, PageIs
  <2> HIDE DEF m, kept
  <2> DEFINE d == WithPage(m, kept)
  <2>3. /\ d \in CrawlRecord /\ CrawlFits(d)
        /\ CountDetails(d) = CountDetails(m) + (IF IsDetail(kept) THEN 1 ELSE 0)
        /\ FinalUrls(d) = FinalUrls(m) \cup {u} /\ Len(d.pages) = Len(m.pages) + 1
        /\ \A i \in DOMAIN d.pages \ DOMAIN m.pages : d.pages[i] = kept
    <3>1. u \notin FinalUrls(m) /\ item.url \in m.visited /\ Len(m.pages) < Cardinality(m.visited)
          /\ CountDetails(m) < TargetDetails
      BY <1>1, <1>2, <1>4, ItemFacts
    <3> QED
      BY <1>2, <2>2, <3>1, CrawlFacts, APageMore
  <2>4. crawl' = d
    BY <2>1
  <2> HIDE DEF d
  <2>5. details' = CountDetails(d) /\ seen' = FinalUrls(d) /\ Len(crawl.pages) <= Len(d.pages)
    BY <1>1, <1>2, <2>1, <2>3, ItemFacts, CrawlFields
  <2>6. CrawlInv'
    BY <1>1, <2>3, <2>4, <2>5, AnswerFacts, ItemIsDone
  <2>7. kept.kind # "error" => u \notin excluded /\ item.url \notin excluded
    <3>1. u \in site.gone => kept.kind = "error"
      BY <2>2 DEF Classify
    <3> QED
      BY <3>1 DEF Barred
  <2> QED
    BY <1>2, <2>2, <2>3, <2>4, <2>6, <2>7 DEF NothingBarredEnters
<1> QED
  BY <1>3, <1>4

LEMMA ReceiveStep ==
  ASSUME CrawlInv, Receive
  PROVE  CrawlInv' /\ NothingBarredEnters
<1> DEFINE u == main.got
<1>1. item # None /\ u \in Url \cup {None} /\ None \notin Url
  BY AnswerFacts, FetcherAssumption DEF FetcherAssumption
<1>2. \/ u = None /\ crawl' = WithFailure(crawl) /\ Recorded /\ UNCHANGED <<details, seen>>
      \/ /\ u # None /\ Barred(u) /\ Recorded /\ UNCHANGED <<details, seen>>
         /\ crawl' = WithoutAnswer(u)
      \/ u # None /\ ~Barred(u) /\ AddPage(MetAs(u), u) /\ Recorded
      \/ /\ u # None /\ UNCHANGED <<details, seen>>
         /\ crawl' = WithFailure(MetAs(u)) /\ Recorded
      \/ /\ u # None /\ UNCHANGED <<details, seen>>
         /\ crawl' = MetAs(u) /\ phase' \in {"render", "retry"} /\ item' = item
  BY DEF Receive, MetAs, WithoutAnswer
<1> HIDE DEF u
<1>3. CASE u = None /\ crawl' = WithFailure(crawl) /\ Recorded /\ UNCHANGED <<details, seen>>
  <2>1. crawl.attempted \subseteq crawl.visited
    BY CrawlFacts DEF CrawlFits
  <2> QED
    BY <1>1, <1>3, <2>1, CrawlFacts, AnswerFacts, ItemHasFailed DEF NothingBarredEnters
<1>4. CASE /\ u # None /\ Barred(u) /\ Recorded /\ UNCHANGED <<details, seen>>
           /\ crawl' = WithoutAnswer(u)
  BY <1>1, <1>4, BarredAnswer
<1>5. CASE u # None /\ ~Barred(u) /\ AddPage(MetAs(u), u) /\ Recorded
  BY <1>1, <1>5, PageAdded
<1>6. CASE /\ u # None /\ UNCHANGED <<details, seen>>
           /\ crawl' = WithFailure(MetAs(u)) /\ Recorded
  <2> DEFINE m == MetAs(u)
  <2>1. /\ m \in CrawlRecord /\ m.frontier = crawl.frontier /\ m.visited = crawl.visited
        /\ m.pages = crawl.pages /\ m.limited = crawl.limited
        /\ crawl.aliases \subseteq m.aliases /\ m.attempted \subseteq crawl.visited
    BY <1>1, <1>6, Met
  <2> HIDE DEF m
  <2>2. crawl' = WithFailure(m)
    BY <1>6 DEF m
  <2> QED
    BY <1>1, <1>6, <2>1, <2>2, AnswerFacts, ItemHasFailed DEF NothingBarredEnters
<1>7. CASE /\ u # None /\ UNCHANGED <<details, seen>>
           /\ crawl' = MetAs(u) /\ phase' \in {"render", "retry"} /\ item' = item
  <2> DEFINE m == MetAs(u)
  <2>1. /\ m \in CrawlRecord /\ m.visited = crawl.visited /\ m.pages = crawl.pages
        /\ CrawlFits(m) /\ CountDetails(m) = CountDetails(crawl)
        /\ FinalUrls(m) = FinalUrls(crawl) /\ Pages(m) = Pages(crawl)
    BY <1>1, <1>7, Met
  <2>2. crawl' = m
    BY <1>7
  <2> HIDE DEF m
  <2>3. m.attempted \subseteq m.visited
    BY <2>1 DEF CrawlFits
  <2>4. phase' # None /\ None \notin FrontierEntry
    BY <1>7, CrawlAssumption DEF CrawlAssumption
  <2>5. CrawlTypeOK'
    BY <1>1, <1>7, <2>1, <2>2, <2>3, <2>4, AnswerFacts, CrawlFacts DEF CrawlTypeOK
  <2>6. SliceFits'
    BY <1>1, <1>7, <2>1, <2>2, AnswerFacts, CrawlFacts DEF SliceFits
  <2>7. CrawlInv'
    BY <2>1, <2>2, <2>5, <2>6, AnswerFacts, CrawlFacts, CrawlKeeps
  <2> QED
    BY <2>1, <2>2, <2>7 DEF NothingBarredEnters
<1> QED
  BY <1>2, <1>3, <1>4, <1>5, <1>6, <1>7

LEMMA CrawlSteps == CrawlInv /\ [Next]_vars => CrawlInv'
<1> SUFFICES ASSUME CrawlInv, [Next]_vars PROVE CrawlInv'
  OBVIOUS
<1>1. CASE FetchStep \/ BackgroundStep
  BY <1>1, FetchStepKeeps
<1>2. CASE StartSlice
  BY <1>2, StartSliceStep
<1>3. CASE Pop
  BY <1>3, PopStep
<1>4. CASE Request
  BY <1>4, RequestsOfTheCrawl
<1>5. CASE Receive
  BY <1>5, ReceiveStep
<1>6. CASE Save
  BY <1>6, SaveStep
<1>7. CASE Crash
  BY <1>7, CrashStep
<1>8. CASE Pause \/ Stop \/ EndAuthorization \/ \E u \in Url : Exclude(u) \/ Readmit(u)
  BY <1>8, StandingSteps
<1>9. CASE UNCHANGED vars
  <2>1. UNCHANGED <<site, fetcher, excluded, authorized, mode, stop, attempts, saved, crawl,
                    details, seen, fresh, item, phase>>
    BY <1>9 DEF vars, crawlvars
  <2>2. CrawlTypeOK'
    BY <2>1, CrawlFacts DEF CrawlTypeOK
  <2> QED
    BY <2>1, <2>2, CrawlFacts, FetcherStays, SliceStays
<1> QED
  BY <1>1, <1>2, <1>3, <1>4, <1>5, <1>6, <1>7, <1>8, <1>9 DEF Next

LEMMA CrawlStands == Spec => []CrawlInv
BY CrawlStart, CrawlSteps, PTL DEF Spec

\* Threads that are given up take no more than their share, every slot comes
\* back, robots.txt is heeded on every way to a page, and what was returned of a
\* rendering stays complete: however many origins, pages and browsers there are.
THEOREM FetchersStand == Spec => []FetchingIsSound
<1>1. CrawlInv => FetchingIsSound
  <2> SUFFICES ASSUME CrawlInv PROVE FetchingIsSound
    OBVIOUS
  <2>1. FetcherTypeOK /\ ThreadsAreBounded
    BY CrawlFacts DEF FetcherInv
  <2>2. RobotsAreHeeded
    BY CrawlFacts DEF FetcherInv, RequestsFit, RobotsAreHeeded
  <2>3. EvidenceIsComplete
    BY CrawlFacts DEF FetcherInv, RenderingsFit, EvidenceIsComplete
  <2> QED
    BY <2>1, <2>2, <2>3 DEF FetchingIsSound
<1> QED
  BY <1>1, CrawlStands, PTL

LEMMA CrawlHas == CrawlInv => TypeOK /\ PagesAreDistinct /\ NothingIsForgotten /\ AliasesAreKept
<1> SUFFICES ASSUME CrawlInv PROVE TypeOK /\ PagesAreDistinct /\ NothingIsForgotten /\ AliasesAreKept
  OBVIOUS
<1>1. TypeOK
  BY CrawlFacts DEF TypeOK, FetcherInv
<1>2. \A c \in {saved, crawl} : CrawlFits(c)
  BY CrawlFacts
<1>3. PagesAreDistinct
  BY <1>2, CrawlFacts DEF CrawlFits, DistinctPages, SliceFits, PagesAreDistinct
<1>4. NothingIsForgotten
  BY <1>2 DEF CrawlFits, Remembered, NothingIsForgotten
<1>5. AliasesAreKept
  BY <1>2 DEF CrawlFits, Aliased, AliasesAreKept
<1> QED
  BY <1>1, <1>3, <1>4, <1>5

\* A slice that is lost goes back to a checkpoint with no more pages.
LEMMA OnlyAnswersAddPages ==
  ASSUME CrawlInv, [Next]_vars, NEW i \in DOMAIN crawl'.pages \ DOMAIN crawl.pages, mode = "running",
         crawl'.pages[i].kind # "error"
  PROVE  crawl'.pages[i].url \notin excluded /\ item.url \notin excluded
<1>1. CASE Receive
  BY <1>1, ReceiveStep DEF NothingBarredEnters
<1>2. CASE Request
  BY <1>2, RequestsOfTheCrawl
<1>3. CASE Crash
  <2>1. saved.pages \in Seq(CrawlPage) /\ crawl.pages \in Seq(CrawlPage)
        /\ Len(saved.pages) <= Len(crawl.pages)
    BY CrawlFacts, CrawlFields DEF SliceFits
  <2>2. DOMAIN saved.pages \subseteq DOMAIN crawl.pages
    BY <2>1
  <2>3. crawl' = saved
    BY <1>3 DEF Crash
  <2> QED
    BY <2>2, <2>3
<1>4. CASE Pop
  <2>1. crawl'.pages = crawl.pages
    BY <1>4, CrawlFacts DEF Pop, CrawlRecord
  <2> QED
    BY <2>1
<1>5. CASE ~Receive /\ ~Request /\ ~Crash /\ ~Pop
  <2>1. UNCHANGED crawl
    BY <1>5 DEF Next, vars, crawlvars, FetchStep, BackgroundStep, StartSlice, Pause, Stop, Save,
                Exclude, Readmit, EndAuthorization
  <2> QED
    BY <2>1
<1> QED
  BY <1>1, <1>2, <1>3, <1>4, <1>5

\* No slice, pause, crash, redirect or alias makes a crawl keep an address twice,
\* go past what was allowed, forget a link or an alias or take in what is
\* excluded: whatever the web site is.
THEOREM CrawlsStand == Spec => CrawlIsComplete
<1>1. CrawlInv /\ [Next]_vars =>
        [\A i \in DOMAIN crawl'.pages \ DOMAIN crawl.pages :
            mode = "running" /\ crawl'.pages[i].kind # "error" =>
                crawl'.pages[i].url \notin excluded /\ item.url \notin excluded]_vars
  BY OnlyAnswersAddPages
<1>2. Spec => ExcludedStaysOut
  BY <1>1, CrawlStands, PTL DEF Spec, ExcludedStaysOut
<1>3. Spec => [](TypeOK /\ PagesAreDistinct /\ NothingIsForgotten /\ AliasesAreKept)
  BY CrawlHas, CrawlStands, PTL
<1> QED
  BY <1>2, <1>3 DEF CrawlIsComplete

=============================================================================
