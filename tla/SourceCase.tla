----------------------------- MODULE SourceCase -----------------------------
(***************************************************************************)
(* The case of a website, backend/apps/source_proposals: from its          *)
(* introduction (services.py) over responsibility and review claims        *)
(* (responsibility.py, review_claims.py), URL approval and the reservation *)
(* of the host (discovery_workflow.py), Discovery by Celery workers,       *)
(* editing and repair of the proposed profile (source_processing/          *)
(* profiles.py, profile_repair.py), the decision, and revocation           *)
(* (assignments.py).                                                       *)
(*                                                                         *)
(* Each service is one transaction that holds the row of its case, and the *)
(* Source where two cases compete for it: an action.  Discovery and repair *)
(* are not: they read a case, work for minutes without any lock, and write *)
(* in a later transaction.                                                 *)
(*                                                                         *)
(* Time is seen as far as two deadlines: a reservation has expired (24     *)
(* hours), an attempt at Discovery is stale (12 minutes, more than the     *)
(* hard limit of the task, so that its worker is gone by then).            *)
(***************************************************************************)
EXTENDS Naturals, FiniteSets

CONSTANTS
    Case, Host, Operator,
    Submitters,       \* who may have introduced which case: functions on Case
    NoOne,
    MaxRevision,      \* bound: revisions of a case
    MaxTransfers,     \* bound: responsibility_revision of a case
    MaxReservations,  \* bound: reservations made
    MaxVersions,      \* bound: profile versions made
    MaxGenerations,   \* bound: checkpoints of one Discovery
    MaxRepairs        \* bound: repairs under way at once

ASSUME NoOneAssumption == NoOne \notin Case \cup Host \cup Operator
ASSUME BoundsAssumption ==
    /\ MaxRevision \in Nat \ {0} /\ MaxTransfers \in Nat /\ MaxReservations \in Nat
    /\ MaxVersions \in Nat /\ MaxGenerations \in Nat /\ MaxRepairs \in Nat

VARIABLES
    submitter,    \* whose case it is
    row,          \* the SourceProposal of each case
    claim,        \* its open SourceProposalReviewClaim
    reservation,  \* the SourceReservations, in the order of their creation
    version,      \* the SourceProfileVersions, in that order
    assignment,   \* the active SourceAssignment of each host
    active,       \* SourceProfile.active_version of each host, 0 if none
    operator,     \* Source.responsible_operator of each host
    repairs,      \* repairs waiting for the model
    broker,       \* messages of discover_source: it may deliver each at any
                  \* time, any number of times
    fetching      \* how many workers are busy with each message

caseVars == <<submitter, row, claim>>
hostVars == <<assignment, active, operator>>
workVars == <<broker, fetching>>
vars == <<caseVars, reservation, version, hostVars, repairs, workVars>>

Reservation == 1..MaxReservations
Message == [reservation : Reservation, generation : 0..MaxGenerations]
States == {"none", "pending", "changes_requested", "rejected", "approved", "revoked"}
Stages == {"awaiting_url", "queued", "running", "complete", "failed", "released"}

NotIntroduced == [state |-> "none", discarded |-> FALSE, revision |-> 1, host |-> NoOne,
                  source |-> NoOne, responsible |-> NoOne, transfers |-> 0,
                  stage |-> "awaiting_url"]
NoClaim == [by |-> NoOne, revision |-> 0]
NoReservation == [case |-> NoOne, host |-> NoOne, revision |-> 0, released |-> TRUE,
                  expired |-> FALSE, started |-> FALSE, stale |-> FALSE,
                  completed |-> FALSE, generation |-> 0, checkpoint |-> FALSE]
NoAssignment == [case |-> NoOne, version |-> 0]

Init ==
    /\ submitter \in Submitters
    /\ row = [c \in Case |-> NotIntroduced]
    /\ claim = [c \in Case |-> NoClaim]
    /\ reservation = [r \in Reservation |-> NoReservation]
    /\ version = [v \in 1..MaxVersions |-> [reservation |-> 0, decided |-> FALSE]]
    /\ assignment = [h \in Host |-> NoAssignment]
    /\ active = [h \in Host |-> 0]
    /\ operator = [h \in Host |-> NoOne]
    /\ repairs = {} /\ broker = {}
    /\ fetching = [m \in Message |-> 0]

-----------------------------------------------------------------------------
(* Reading the rows.                                                        *)

\* The assignment of case c is not revoked.
Assigned(c) == \E h \in Host : assignment[h].case = c

\* Open in the sense of the submitter's list
IsOpen(c) == row[c].state \in {"pending", "changes_requested"} /\ ~row[c].discarded

(* current_website_cases                                                    *)
CurrentWebsite(s) == {c \in Case : submitter[c] = s /\ (IsOpen(c) \/ Assigned(c))}

\* lock_current_website: no other case of the submitter is current.
OnlyWebsite(c) == CurrentWebsite(submitter[c]) \subseteq {c}

Used == {r \in Reservation : reservation[r].case # NoOne}

\* The number of the next row
Following(S) == Cardinality(S) + 1
Unreleased(r) == r \in Used /\ ~reservation[r].released
Live(r) == Unreleased(r) /\ ~reservation[r].expired

OfRevision(c) ==
    {r \in Used : reservation[r].case = c /\ reservation[r].revision = row[c].revision}
Newest(S) == IF S = {} THEN 0 ELSE CHOOSE n \in S : \A m \in S : m <= n
NewestReservation(c) == Newest(OfRevision(c))
Written == {v \in DOMAIN version : version[v].reservation # 0}
VersionsOf(S) == {v \in Written : version[v].reservation \in S}

\* The version that is up for review, if the reservation is live.
Proposed(c) ==
    LET r == NewestReservation(c)
    IN  IF r # 0 /\ Live(r) THEN Newest(VersionsOf({r})) ELSE 0
Reviewable(v) == v # 0 /\ ~version[v].decided

-----------------------------------------------------------------------------
(* What several services do.                                                *)

(* require_review_claim: the operator is responsible for the pending case,  *)
(* and renews the claim that belongs to that; one that has expired is       *)
(* replaced.                                                                *)
Reviews(o, c) ==
    /\ row[c].state = "pending" /\ row[c].responsible = o
    /\ submitter[c] # o
Claims(o, c, revision) ==
    {[by |-> o, revision |-> revision]} \cup (IF claim[c].by = o THEN {claim[c]} ELSE {})

(* release_reservations                                                     *)
Release(rows, c) ==
    [r \in Reservation |->
        IF rows[r].case = c /\ ~rows[r].released
        THEN [rows[r] EXCEPT !.released = TRUE, !.checkpoint = FALSE]
        ELSE rows[r]]

Decided(v) == IF v = 0 THEN version ELSE [version EXCEPT ![v].decided = TRUE]
NewVersion(r) ==
    [version EXCEPT ![Following(Written)] = [reservation |-> r, decided |-> FALSE]]
Room == Following(Written) <= MaxVersions

-----------------------------------------------------------------------------
(* The submitter.                                                           *)

(* submit_source_proposal of a website not introduced before                *)
Introduce(c, h) ==
    /\ row[c].state = "none" /\ CurrentWebsite(submitter[c]) = {}
    /\ row' = [row EXCEPT ![c].state = "pending", ![c].host = h]
    /\ UNCHANGED <<submitter, claim, reservation, version, hostVars, repairs, workVars>>

(* submit_source_proposal of the corrections: another revision, of the same *)
(* host if it is assigned.                                                  *)
Resubmit(c, h) ==
    /\ row[c].state = "changes_requested" /\ ~row[c].discarded /\ OnlyWebsite(c)
    /\ \A g \in Host : assignment[g].case = c => g = h
    /\ row[c].revision < MaxRevision
    /\ row' = [row EXCEPT ![c].state = "pending", ![c].revision = @ + 1, ![c].host = h,
                          ![c].stage = "awaiting_url"]
    /\ UNCHANGED <<submitter, claim, reservation, version, hostVars, repairs, workVars>>

(* delete_source_proposal_draft                                             *)
Discard(c) ==
    /\ row[c].state = "changes_requested" /\ ~row[c].discarded /\ ~Assigned(c)
    /\ row' = [row EXCEPT ![c].discarded = TRUE]
    /\ UNCHANGED <<submitter, claim, reservation, version, hostVars, repairs, workVars>>

-----------------------------------------------------------------------------
(* Responsibility.                                                          *)

(* record_case_responsibility, as far as the Source of an assigned case     *)
OperatorOf(c, o) ==
    [h \in Host |-> IF assignment[h].case = c /\ row[c].source = h THEN o ELSE operator[h]]

Transferred(c, o) ==
    [row EXCEPT ![c].responsible = o, ![c].transfers = @ + 1]

(* take_responsibility of a case that has nobody                            *)
Take(c, o) ==
    /\ row[c].responsible = NoOne /\ submitter[c] # o /\ ~row[c].discarded
    /\ row[c].state \in {"pending", "changes_requested", "approved"} \/ Assigned(c)
    /\ row[c].transfers < MaxTransfers
    /\ row' = Transferred(c, o)
    /\ operator' = OperatorOf(c, o)
    /\ UNCHANGED <<submitter, claim, reservation, version, assignment, active, repairs,
                   workVars>>

(* claim_source_proposal_review takes the case if nobody has it.            *)
Claim(c, o) ==
    /\ row[c].state = "pending" /\ ~row[c].discarded /\ submitter[c] # o
    /\ \/ row[c].responsible = o /\ UNCHANGED <<row, operator>>
       \/ /\ row[c].responsible = NoOne /\ row[c].transfers < MaxTransfers
          /\ row' = Transferred(c, o)
          /\ operator' = OperatorOf(c, o)
    /\ \E new \in Claims(o, c, row[c].revision) : claim' = [claim EXCEPT ![c] = new]
    /\ UNCHANGED <<submitter, reservation, version, assignment, active, repairs, workVars>>

(* reassign_responsibility by a manager of the queue, to an operator or to  *)
(* nobody; an operator may give up a case of his own.                       *)
Reassign(c, o) ==
    /\ row[c].state # "none" /\ ~row[c].discarded
    /\ row[c].state \notin {"rejected", "revoked"} \/ Assigned(c)
    /\ row[c].responsible # o /\ submitter[c] # o
    /\ row[c].transfers < MaxTransfers
    /\ row' = Transferred(c, o)
    /\ operator' = OperatorOf(c, o)
    /\ claim' = [claim EXCEPT ![c] = NoClaim]
    /\ UNCHANGED <<submitter, reservation, version, assignment, active, repairs, workVars>>

-----------------------------------------------------------------------------
(* The URL and its reservation.                                             *)

\* No reservation is live on the host, and no other case has the assignment.
Available(h, c) ==
    /\ \A r \in Used : reservation[r].host = h => ~Live(r)
    /\ assignment[h].case \in {NoOne, c}

\* Expired reservations of the host are released, and another one is made.
Reserved(h, c, revision) ==
    [r \in Reservation |->
        IF r = Following(Used)
        THEN [NoReservation EXCEPT !.case = c, !.host = h, !.revision = revision,
                                   !.released = FALSE]
        ELSE IF reservation[r].host = h /\ reservation[r].expired
             THEN [reservation[r] EXCEPT !.released = TRUE]
             ELSE reservation[r]]

\* What is sent on commit may be lost with the process or the broker.
MaySend(r, generation) ==
    broker' \in {broker, broker \cup {[reservation |-> r, generation |-> generation]}}

(* approve_url                                                              *)
ApproveUrl(c, o) ==
    /\ OnlyWebsite(c) /\ Reviews(o, c)
    /\ ~\E r \in Used : Live(r) /\ reservation[r].case = c
    /\ Available(row[c].host, c)
    /\ Following(Used) <= MaxReservations
    /\ reservation' = Reserved(row[c].host, c, row[c].revision)
    /\ row' = [row EXCEPT ![c].source = row[c].host, ![c].stage = "queued"]
    /\ \E new \in Claims(o, c, row[c].revision) : claim' = [claim EXCEPT ![c] = new]
    /\ MaySend(Following(Used), 0)
    /\ UNCHANGED <<submitter, version, hostVars, repairs, fetching>>

(* start_profile_review: another Discovery while the approved version stays *)
(* in force.  The case becomes pending, its URL is approved, in one go.     *)
StartProfileReview(c, o) ==
    /\ OnlyWebsite(c)
    /\ row[c].state = "approved" /\ row[c].responsible = o /\ submitter[c] # o
    /\ \E h \in Host : assignment[h].case = c /\ active[h] = assignment[h].version
    /\ row[c].revision < MaxRevision
    /\ ~\E r \in Used : Live(r) /\ reservation[r].case = c
    /\ Available(row[c].host, c)
    /\ Following(Used) <= MaxReservations
    /\ reservation' = Reserved(row[c].host, c, row[c].revision + 1)
    /\ row' = [row EXCEPT ![c].state = "pending", ![c].revision = @ + 1,
                          ![c].source = row[c].host, ![c].stage = "queued"]
    /\ \E new \in Claims(o, c, row[c].revision + 1) : claim' = [claim EXCEPT ![c] = new]
    /\ MaySend(Following(Used), 0)
    /\ UNCHANGED <<submitter, version, hostVars, repairs, fetching>>

(* release_case, by the responsible operator or a manager                   *)
ReleaseCase(c) ==
    /\ row[c].state = "pending"
    /\ reservation' = Release(reservation, c)
    /\ claim' = [claim EXCEPT ![c] = NoClaim]
    /\ row' = [row EXCEPT ![c].stage = "released"]
    /\ UNCHANGED <<submitter, version, hostVars, repairs, workVars>>

-----------------------------------------------------------------------------
(* Discovery.                                                               *)

\* Mutant: a second delivery is not told from the first.
StartAgain(m) ==
    LET r == m.reservation c == reservation[r].case
    IN  /\ m \in broker
        /\ Live(r) /\ ~reservation[r].completed /\ reservation[r].generation = m.generation
        /\ reservation' = [reservation EXCEPT ![r].started = TRUE, ![r].stale = FALSE]
        /\ row' = [row EXCEPT ![c].stage = "running"]
        /\ fetching' = [fetching EXCEPT ![m] = @ + 1]
        /\ UNCHANGED <<submitter, claim, version, hostVars, repairs, broker>>

(* The first transaction of run_discovery; other deliveries change nothing. *)
Start(m) ==
    LET r == m.reservation c == reservation[r].case
    IN  /\ m \in broker
        /\ Live(r) /\ ~reservation[r].started /\ ~reservation[r].completed
        /\ reservation[r].generation = m.generation
        /\ reservation' = [reservation EXCEPT ![r].started = TRUE, ![r].stale = FALSE]
        /\ row' = [row EXCEPT ![c].stage = "running"]
        /\ fetching' = [fetching EXCEPT ![m] = @ + 1]
        /\ UNCHANGED <<submitter, claim, version, hostVars, repairs, broker>>

(* The end of a time slice: the next one has a generation and a message of  *)
(* its own.  Nothing is saved if the reservation has ended meanwhile.       *)
Checkpoint(m) ==
    LET r == m.reservation c == reservation[r].case
    IN  /\ fetching[m] > 0
        /\ fetching' = [fetching EXCEPT ![m] = @ - 1]
        /\ IF /\ reservation[r].generation = m.generation /\ ~reservation[r].completed
              /\ Live(r) /\ row[c].revision = reservation[r].revision
           THEN /\ m.generation < MaxGenerations
                /\ reservation' = [reservation EXCEPT ![r].generation = @ + 1,
                                      ![r].started = FALSE, ![r].checkpoint = TRUE]
                /\ row' = [row EXCEPT ![c].stage = "queued"]
                /\ MaySend(r, m.generation + 1)
           ELSE UNCHANGED <<reservation, row, broker>>
        /\ UNCHANGED <<submitter, claim, version, hostVars, repairs>>

(* The last transaction of run_discovery.  A profile, too little evidence   *)
(* for one, or a failure, which releases the reservation; only that it is   *)
(* completed if the reservation has ended; nothing if another transaction   *)
(* has completed it.                                                        *)
Finish(m, outcome) ==
    LET r == m.reservation c == reservation[r].case
        finished == [reservation EXCEPT ![r] =
                        [@ EXCEPT !.completed = TRUE, !.checkpoint = FALSE]]
        mine == ~reservation[r].completed /\ reservation[r].generation = m.generation
        current == Live(r) /\ row[c].revision = reservation[r].revision
    IN  /\ fetching[m] > 0
        /\ fetching' = [fetching EXCEPT ![m] = @ - 1]
        /\ IF mine /\ current
           THEN /\ outcome = "profile" => Room
                /\ reservation' = IF outcome = "failed" THEN Release(finished, c)
                                  ELSE finished
                /\ row' = [row EXCEPT ![c].stage =
                              IF outcome = "failed" THEN "failed" ELSE "complete"]
                /\ version' = IF outcome = "profile" THEN NewVersion(r) ELSE version
           ELSE /\ reservation' = IF mine THEN finished ELSE reservation
                /\ UNCHANGED <<row, version>>
        /\ UNCHANGED <<submitter, claim, hostVars, repairs, broker>>

\* The worker is lost or killed; its message is gone.
LoseWorker(m) ==
    /\ fetching[m] > 0
    /\ fetching' = [fetching EXCEPT ![m] = @ - 1]
    /\ UNCHANGED <<caseVars, reservation, version, hostVars, repairs, broker>>

\* DISCOVERY_RECOVERY_DELAY has passed: by the hard limit the worker is gone.
GrowStale(r) ==
    /\ Unreleased(r) /\ reservation[r].started /\ ~reservation[r].stale
    /\ \A m \in Message : m.reservation = r => fetching[m] = 0
    /\ reservation' = [reservation EXCEPT ![r].stale = TRUE]
    /\ UNCHANGED <<caseVars, version, hostVars, repairs, workVars>>

(* recover_interrupted_discovery, by the maintenance or by a delivery       *)
Recover(r) ==
    LET c == reservation[r].case
    IN  /\ Unreleased(r) /\ reservation[r].started /\ reservation[r].stale
        /\ ~reservation[r].completed
        /\ reservation' = [reservation EXCEPT ![r] =
               [@ EXCEPT !.completed = TRUE, !.released = TRUE, !.checkpoint = FALSE]]
        /\ row' = IF row[c].revision = reservation[r].revision /\ row[c].state = "pending"
                  THEN [row EXCEPT ![c].stage = "failed"] ELSE row
        /\ UNCHANGED <<submitter, claim, version, hostVars, repairs, workVars>>

\* RESERVATION_DURATION has passed.
Expire(r) ==
    /\ Live(r)
    /\ reservation' = [reservation EXCEPT ![r].expired = TRUE]
    /\ UNCHANGED <<caseVars, version, hostVars, repairs, workVars>>

(* expire_reservations, every minute: expired reservations of a case ...    *)
ExpireReservations(c) ==
    /\ \E r \in Used : reservation[r].case = c /\ Unreleased(r) /\ reservation[r].expired
    /\ reservation' =
          [r \in Reservation |->
              IF reservation[r].case = c /\ Unreleased(r) /\ reservation[r].expired
              THEN [reservation[r] EXCEPT !.released = TRUE, !.checkpoint = FALSE]
              ELSE reservation[r]]
    /\ row' = [row EXCEPT ![c].stage = "released"]
    /\ UNCHANGED <<submitter, claim, version, hostVars, repairs, workVars>>

\* Mutant: the first message is sent again.
RedeliverFirst(r) ==
    /\ Live(r) /\ reservation[r].checkpoint
    /\ ~reservation[r].completed /\ ~reservation[r].started
    /\ broker' = broker \cup {[reservation |-> r, generation |-> 0]}
    /\ UNCHANGED <<caseVars, reservation, version, hostVars, repairs, fetching>>

(* ... and continuations whose checkpoint is committed.                     *)
Redeliver(r) ==
    /\ Live(r) /\ reservation[r].checkpoint
    /\ ~reservation[r].completed /\ ~reservation[r].started
    /\ broker' = broker \cup {[reservation |-> r, generation |-> reservation[r].generation]}
    /\ UNCHANGED <<caseVars, reservation, version, hostVars, repairs, fetching>>

-----------------------------------------------------------------------------
(* The profile and the decision.                                            *)

(* edit_profile: another version, made from the one under review            *)
EditProfile(c, o) ==
    /\ Reviews(o, c) /\ Reviewable(Proposed(c)) /\ Room
    /\ version' = NewVersion(NewestReservation(c))
    /\ \E new \in Claims(o, c, row[c].revision) : claim' = [claim EXCEPT ![c] = new]
    /\ UNCHANGED <<submitter, row, reservation, hostVars, repairs, workVars>>

(* repair_profile, up to the call of the model.  A repair of the same       *)
(* version holds it up for a minute only.                                   *)
BeginRepair(c, o) ==
    /\ Reviews(o, c) /\ Reviewable(Proposed(c)) /\ Cardinality(repairs) < MaxRepairs
    /\ repairs' = repairs \cup {[case |-> c, by |-> o, revision |-> row[c].revision,
                                 version |-> Proposed(c), transfers |-> row[c].transfers]}
    /\ \E new \in Claims(o, c, row[c].revision) : claim' = [claim EXCEPT ![c] = new]
    /\ UNCHANGED <<submitter, row, reservation, version, hostVars, workVars>>

\* Mutant: it is enough that the case is the operator's again.
StillReviewed(p) ==
    /\ Reviews(p.by, p.case) /\ row[p.case].revision = p.revision
    /\ Proposed(p.case) = p.version /\ Reviewable(p.version)

\* The review is still the one that the repair was asked for in.
StillCurrent(p) ==
    /\ Reviews(p.by, p.case) /\ row[p.case].revision = p.revision
    /\ Proposed(p.case) = p.version /\ Reviewable(p.version)
    /\ row[p.case].transfers = p.transfers

(* repair_profile, after the call: another version                          *)
EndRepair(p) ==
    /\ p \in repairs /\ StillCurrent(p) /\ Room
    /\ repairs' = repairs \ {p}
    /\ version' = NewVersion(NewestReservation(p.case))
    /\ \E new \in Claims(p.by, p.case, p.revision) :
           claim' = [claim EXCEPT ![p.case] = new]
    /\ UNCHANGED <<submitter, row, reservation, hostVars, workVars>>

\* The model fails, the rules are refused, the review is another one, or the
\* process ends: what is recorded of that changes nothing else.
FailRepair(p) ==
    /\ p \in repairs
    /\ repairs' = repairs \ {p}
    /\ UNCHANGED <<caseVars, reservation, version, hostVars, workVars>>

(* approve_profile: the version is activated, the case decided, and the     *)
(* assignment made, or given the new approval.                              *)
ApproveProfile(c, o) ==
    LET v == Proposed(c) h == reservation[NewestReservation(c)].host
    IN  /\ OnlyWebsite(c) /\ Reviews(o, c) /\ Reviewable(v)
        /\ assignment[h].case \in {NoOne, c}
        /\ active' = [active EXCEPT ![h] = v]
        /\ reservation' = Release(reservation, c)
        /\ row' = [row EXCEPT ![c].state = "approved"]
        /\ version' = Decided(v)
        /\ claim' = [claim EXCEPT ![c] = NoClaim]
        /\ operator' = IF assignment[h].case = c THEN operator
                       ELSE [operator EXCEPT ![h] = o]
        /\ assignment' = [assignment EXCEPT ![h] = [case |-> c, version |-> v]]
        /\ UNCHANGED <<submitter, repairs, workVars>>

\* Mutant: a decision leaves the reservation alone.
DecideOnly(c, o, outcome) ==
    LET v == Newest(VersionsOf(OfRevision(c)))
    IN  /\ Reviews(o, c)
        /\ v = 0 \/ Reviewable(v)
        /\ row' = [row EXCEPT ![c].state = outcome]
        /\ version' = Decided(v)
        /\ claim' = [claim EXCEPT ![c] = NoClaim]
        /\ UNCHANGED <<submitter, reservation, hostVars, repairs, workVars>>

(* request_source_proposal_changes, reject_source_proposal                  *)
Decide(c, o, outcome) ==
    LET v == Newest(VersionsOf(OfRevision(c)))
    IN  /\ Reviews(o, c)
        /\ v = 0 \/ Reviewable(v)
        /\ reservation' = Release(reservation, c)
        /\ row' = [row EXCEPT ![c].state = outcome]
        /\ version' = Decided(v)
        /\ claim' = [claim EXCEPT ![c] = NoClaim]
        /\ UNCHANGED <<submitter, hostVars, repairs, workVars>>

(* revoke_assignment, as far as the case                                    *)
Revoke(c, o) ==
    \E h \in Host :
        /\ assignment[h].case = c /\ row[c].responsible = o /\ submitter[c] # o
        /\ row[c].revision < MaxRevision
        /\ assignment' = [assignment EXCEPT ![h] = NoAssignment]
        /\ active' = [active EXCEPT ![h] = 0]
        /\ reservation' = Release(reservation, c)
        /\ claim' = [claim EXCEPT ![c] = NoClaim]
        /\ row' = [row EXCEPT ![c].state = "revoked", ![c].revision = @ + 1]
        /\ UNCHANGED <<submitter, version, operator, repairs, workVars>>

-----------------------------------------------------------------------------
End(m) == LoseWorker(m) \/ \E outcome \in {"profile", "nothing", "failed"} : Finish(m, outcome)

Review(c, o) ==
    \/ ApproveUrl(c, o) \/ StartProfileReview(c, o)
    \/ EditProfile(c, o) \/ BeginRepair(c, o) \/ ApproveProfile(c, o) \/ Revoke(c, o)
    \/ \E outcome \in {"changes_requested", "rejected"} : Decide(c, o, outcome)

Next ==
    \/ \E c \in Case :
          \/ Discard(c) \/ ReleaseCase(c) \/ ExpireReservations(c) \/ Reassign(c, NoOne)
          \/ \E h \in Host : Introduce(c, h) \/ Resubmit(c, h)
          \/ \E o \in Operator : Take(c, o) \/ Claim(c, o) \/ Reassign(c, o) \/ Review(c, o)
    \/ \E m \in Message : Start(m) \/ Checkpoint(m) \/ End(m)
    \/ \E r \in Reservation : GrowStale(r) \/ Recover(r) \/ Expire(r) \/ Redeliver(r)
    \/ \E p \in repairs : EndRepair(p) \/ FailRepair(p)

Spec == Init /\ [][Next]_vars

(* Beat runs the maintenance every minute; what the broker has is delivered *)
(* some time; a task ends, by its hard limit if need be; and twelve minutes *)
(* pass.  That 24 hours pass is not assumed: nothing should have to wait    *)
(* for it.                                                                  *)
Fairness ==
    /\ WF_vars(\E m \in Message : Start(m))
    /\ WF_vars(\E m \in Message : Checkpoint(m) \/ End(m))
    /\ WF_vars(\E c \in Case : ExpireReservations(c))
    /\ WF_vars(\E r \in Reservation : GrowStale(r))
    /\ WF_vars(\E r \in Reservation : Recover(r))
    /\ WF_vars(\E r \in Reservation : Redeliver(r))

-----------------------------------------------------------------------------
(* Properties.                                                              *)

\* A SourceProfileRepair that waits for the model, with what was reviewed then.
Repair == [case : Case, by : Operator, revision : 1..MaxRevision, version : 1..MaxVersions,
           transfers : 0..MaxTransfers]

\* Every row, message and repair has its type.
TypeOK ==
    /\ submitter \in Submitters
    /\ row \in [Case -> [state : States, discarded : BOOLEAN, revision : 1..MaxRevision,
                         host : Host \cup {NoOne}, source : Host \cup {NoOne},
                         responsible : Operator \cup {NoOne}, transfers : 0..MaxTransfers,
                         stage : Stages]]
    /\ claim \in [Case -> [by : Operator \cup {NoOne}, revision : 0..MaxRevision]]
    /\ reservation \in [Reservation ->
           [case : Case \cup {NoOne}, host : Host \cup {NoOne}, revision : 0..MaxRevision,
            released : BOOLEAN, expired : BOOLEAN, started : BOOLEAN, stale : BOOLEAN,
            completed : BOOLEAN, generation : 0..MaxGenerations, checkpoint : BOOLEAN]]
    /\ version \in [1..MaxVersions -> [reservation : 0..MaxReservations, decided : BOOLEAN]]
    /\ assignment \in [Host -> [case : Case \cup {NoOne}, version : 0..MaxVersions]]
    /\ active \in [Host -> 0..MaxVersions]
    /\ operator \in [Host -> Operator \cup {NoOne}]
    /\ repairs \subseteq Repair
    /\ broker \subseteq Message /\ fetching \in [Message -> Nat]

\* A submitter has one website at a time, counting what is under review and
\* what is assigned, through corrections, replacements, discarding and
\* revocation (docs/development.md: "A Submitter's current website").
OneCurrentWebsite ==
    \A c, d \in Case :
        /\ submitter[c] = submitter[d]
        /\ IsOpen(c) \/ Assigned(c)
        /\ IsOpen(d) \/ Assigned(d)
        => c = d

\* A host belongs to one case: who has its assignment also has what is
\* reserved on it, nothing is reserved twice, and the assignment is at the
\* host that the case is about.
HostIsExclusive ==
    \A h \in Host :
        /\ \A r, q \in Used :
              /\ Unreleased(r) /\ reservation[r].host = h
              /\ Unreleased(q) /\ reservation[q].host = h
              => r = q
        /\ \A r \in Used : Unreleased(r) /\ reservation[r].host = h =>
              assignment[h].case \in {NoOne, reservation[r].case}
        /\ assignment[h].case # NoOne =>
              /\ row[assignment[h].case].host = h
              /\ row[assignment[h].case].source = h

\* An open claim is of the current revision of a case under review, and of
\* the operator responsible for it: no transfer, decision or revocation
\* leaves a lease behind on which another operator could wait.
ClaimsFollowResponsibility ==
    \A c \in Case : claim[c] # NoClaim =>
        /\ row[c].state = "pending" /\ claim[c].revision = row[c].revision
        /\ claim[c].by = row[c].responsible

\* The Source of an assigned case has the operator of the case, so that
\* exceptions of the extraction reach who may act on them.
SourceKnowsItsOperator ==
    \A h \in Host :
        assignment[h].case # NoOne => operator[h] = row[assignment[h].case].responsible

\* What extraction runs by is what was last approved for this assignment, and
\* an unassigned host has no profile in force; reviewing, rejecting or
\* discovering a replacement changes neither.
ActiveIsApproved ==
    \A h \in Host :
        /\ active[h] = assignment[h].version
        /\ active[h] # 0 =>
              /\ version[active[h]].decided
              /\ reservation[version[active[h]].reservation].case = assignment[h].case
              /\ reservation[version[active[h]].reservation].host = h
              /\ \A v \in VersionsOf({version[active[h]].reservation}) : v <= active[h]

\* What a host is reserved for is going on: an unreleased reservation is of
\* the current revision of a case under review.
ReservedForReview ==
    \A r \in Used : Unreleased(r) =>
        LET c == reservation[r].case
        IN  row[c].state = "pending" /\ row[c].revision = reservation[r].revision

(* The stage that SourceProposalSerializer shows                            *)
Shown(c) ==
    LET r == NewestReservation(c)
    IN  IF row[c].state = "pending" /\ r # 0 /\ ~Live(r) /\ row[c].stage # "failed"
        THEN "released" ELSE row[c].stage

\* The stage that is shown of a case under review is that of its newest
\* reservation, whatever workers, maintenance and competitors have done.
StageTellsDiscovery ==
    \A c \in Case : row[c].state = "pending" =>
        LET r == NewestReservation(c)
        IN  Shown(c) \in
              CASE r = 0                     -> {"awaiting_url", "released"}
                [] r # 0 /\ ~Live(r)         -> {"released", "failed"}
                [] OTHER -> {IF reservation[r].completed THEN "complete"
                             ELSE IF reservation[r].started THEN "running" ELSE "queued"}

\* One worker at a time fetches for a reservation, however often its messages
\* are delivered and however slow a worker is.
OneFetcher ==
    \A m, n \in Message :
        /\ m.reservation = n.reservation
        /\ fetching[m] > 0 /\ fetching[n] > 0
        => m = n /\ fetching[m] = 1

\* A worker that comes to its end after its reservation has ended, or was
\* taken from it, proposes nothing and does not touch the case.
LateWorkersLeaveTheCase ==
    [][\A m \in Message : fetching'[m] < fetching[m] /\ (row' # row \/ version' # version) =>
             /\ Live(m.reservation) /\ ~reservation[m.reservation].completed
             /\ row[reservation[m.reservation].case].state = "pending"]_vars

\* A Discovery that has begun comes to an end, whichever workers and messages
\* of its slices are lost, without waiting for the reservation to expire.
DiscoveryEnds ==
    \A r \in Reservation :
        Live(r) /\ (reservation[r].started \/ reservation[r].checkpoint) ~>
            reservation[r].completed \/ ~Live(r)

\* A host is not held by a reservation that has expired.
ExpiredIsReleased ==
    \A r \in Reservation : Unreleased(r) /\ reservation[r].expired ~> ~Unreleased(r)

\* The rows that cases, hosts, claims, reservations and assignments consist of
\* agree with each other through every order of decisions, transfers and slices.
CasesAreSound ==
    /\ TypeOK /\ OneCurrentWebsite /\ HostIsExclusive /\ ClaimsFollowResponsibility
    /\ SourceKnowsItsOperator /\ ActiveIsApproved /\ ReservedForReview /\ StageTellsDiscovery

\* No Discovery and no expired reservation holds a host for ever.
HostsComeFree == DiscoveryEnds /\ ExpiredIsReleased
=============================================================================
