-------------------------- MODULE SubmissionReview --------------------------
(***************************************************************************)
(* The review of one Submission: backend/apps/submissions/services.py and  *)
(* the views that call it, with the part of catalog/services.py that moves *)
(* the Submission's Listing.  Two Submissions share no row of these        *)
(* operations, so one instance is one Submission.                          *)
(*                                                                         *)
(* Every service locks the Submission row first (SELECT ... FOR UPDATE),   *)
(* so at most one of them is inside its transaction: tx.  The Operators'   *)
(* transactions are two steps, the reads and checks under the lock (Begin) *)
(* and the writes that become visible at COMMIT (Commit), because the      *)
(* sweep release_unavailable_review_claims reads and writes ReviewClaim    *)
(* rows with no lock, between the two.  The Submitter's transactions touch *)
(* no row the sweep touches: one step each.                                *)
(*                                                                         *)
(* Time is relative: a claim has left ticks until expires_at.              *)
(***************************************************************************)
EXTENDS Naturals, FiniteSets

CONSTANTS
    Operators,      \* users with, at some time, the REVIEW_SUBMISSIONS capability
    Submitter,      \* Submission.submitter; may be an Operator too
    ClaimId,        \* identities of the ReviewClaim rows (uuid4)
    NoClaim,        \* SubmissionEvent.review_claim = NULL
    NoTx,           \* nobody holds the lock of the Submission row
    ClaimDuration,  \* REVIEW_CLAIM_DURATION, in ticks
    MaxRevision,    \* bound: the revisions explored
    MaxLate         \* bound: the requests that straddle their view's check

ASSUME ClaimDurationAssumption == ClaimDuration \in Nat \ {0}
ASSUME MaxRevisionAssumption == MaxRevision \in Nat \ {0}
ASSUME MaxLateAssumption == MaxLate \in Nat
ASSUME NoClaimAssumption == NoClaim \notin ClaimId \cup Operators

VARIABLES
    state,            \* Submission.state
    revision,         \* Submission.revision
    complete,         \* fields, consents and media pass _validate_complete_submission
    contact_verified, \* submission_contact_phone_is_verified
    discarded,        \* Submission.discarded_at is not NULL
    listing,          \* state of Submission.listing ("none": no Listing yet)
    shown,            \* the revision whose content the Listing carries
    claims,           \* the ReviewClaim rows
    events,           \* the SubmissionEvent rows (append-only)
    capable,          \* Operators for whom has_capability holds
    late,             \* requests past a view check that no longer holds
    tx,               \* the Operator transaction that holds the row lock
    sweep             \* claims a running sweep has read and will release

submission == <<state, revision, complete, contact_verified, discarded>>
publication == <<listing, shown>>
vars == <<submission, publication, claims, events, capable, late, tx, sweep>>

Users == Operators \cup {Submitter}
Decisions == {"changes_requested", "rejected", "published"}
SubmissionState == {"draft", "pending"} \cup Decisions
ListingState == {"none", "published", "expired", "unavailable", "archived"}
SubmitterRequest == {"save_step", "submit", "request_contact", "verify_contact",
                     "confirm", "mark_unavailable", "archive"}

ReviewClaim == [status : {"unused", "open", "closed"}, operator : Users,
                revision : 0..MaxRevision, left : 0..ClaimDuration]
SubmissionEvent == [revision : 1..MaxRevision, new_state : SubmissionState,
                    actor : Users, claim : ClaimId \cup {NoClaim}]
Transaction == [op : {"claim", "renew", "release"} \cup Decisions,
                actor : Operators, claim : ClaimId, stale : SUBSET ClaimId,
                left : 0..ClaimDuration]

Event(rev, to, by, c) == [revision |-> rev, new_state |-> to, actor |-> by, claim |-> c]

\* _open_claim
OpenClaims == {c \in ClaimId : claims[c].status = "open"}

\* _claim_is_available
Available(c) == claims[c].left > 0 /\ claims[c].operator \in capable

\* _release_claim: released_at is set, no other column
Closing(C) == [c \in ClaimId |->
                 IF c \in C THEN [claims[c] EXCEPT !.status = "closed"] ELSE claims[c]]

\* _validate_complete_submission
Ready == complete /\ contact_verified

Init ==
    /\ state = "draft" /\ revision = 1 /\ discarded = FALSE
    /\ complete = FALSE /\ contact_verified = TRUE
    /\ listing = "none" /\ shown = 0
    /\ claims = [c \in ClaimId |-> [status |-> "unused", operator |-> Submitter,
                                    revision |-> 0, left |-> 0]]
    /\ events = {} /\ capable = Operators
    /\ late = {} /\ tx = NoTx /\ sweep = {}

-----------------------------------------------------------------------------
(* The Submitter.  A view looks the Submission up with discarded_at NULL,   *)
(* without a lock; its service locks the row and does not look again.  A    *)
(* request is late when the Submission was discarded between the two.       *)

Passed(request) == ~discarded \/ request \in late
Served(request) == late' = late \ {request}

(* save_submission_step_for_actor and the four image services, all behind   *)
(* prepare_submission_edit: editing a returned or published revision opens  *)
(* the next one, without its confirmations (review_data = {}); the step     *)
(* itself may complete the draft or take something away from it.            *)
SaveStep ==
    /\ Passed("save_step") /\ tx = NoTx
    /\ state \notin {"pending", "rejected"}
    /\ IF state = "draft"
       THEN UNCHANGED <<state, revision, events>>
       ELSE /\ revision < MaxRevision
            /\ revision' = revision + 1
            /\ state' = "draft"
            /\ events' = events \cup {Event(revision + 1, "draft", Submitter, NoClaim)}
    /\ complete' \in BOOLEAN
    /\ contact_verified' \in BOOLEAN
    /\ Served("save_step")
    /\ UNCHANGED <<discarded, publication, claims, capable, tx, sweep>>

(* request_submission_contact_verification withdraws the consent to publish *)
(* the number along with its verification.                                  *)
RequestContactVerification ==
    /\ Passed("request_contact") /\ tx = NoTx
    /\ state \in {"draft", "changes_requested"}
    /\ complete' = FALSE /\ contact_verified' = FALSE
    /\ Served("request_contact")
    /\ UNCHANGED <<state, revision, discarded, publication, claims, events, capable, tx, sweep>>

\* verify_submission_contact: in every state of the Submission
VerifyContact ==
    /\ Passed("verify_contact") /\ tx = NoTx
    /\ contact_verified' = TRUE
    /\ Served("verify_contact")
    /\ UNCHANGED <<state, revision, complete, discarded, publication, claims, events,
                   capable, tx, sweep>>

\* accounts.verify_phone replaces the account's number: User row, no lock here
AccountPhoneChanges ==
    /\ contact_verified' = ~contact_verified
    /\ UNCHANGED <<state, revision, complete, discarded, publication, claims, events,
                   capable, late, tx, sweep>>

\* process_image and cleanup_abandoned_images: a draft's media settle or go
DraftMediaChanges ==
    /\ tx = NoTx /\ state = "draft"
    /\ complete' = ~complete
    /\ UNCHANGED <<state, revision, contact_verified, discarded, publication, claims,
                   events, capable, late, tx, sweep>>

\* submit_for_review
SubmitForReview ==
    /\ Passed("submit") /\ tx = NoTx
    /\ state = "draft" /\ Ready
    /\ ~\E e \in events : e.revision = revision /\ e.new_state = "pending"
    /\ state' = "pending"
    /\ events' = events \cup {Event(revision, "pending", Submitter, NoClaim)}
    /\ Served("submit")
    /\ UNCHANGED <<revision, complete, contact_verified, discarded, publication, claims,
                   capable, tx, sweep>>

(* discard_submission, which does look at discarded_at under the lock; L is *)
(* what other requests of the Submitter had passed their views by then.     *)
Discard(L) ==
    /\ tx = NoTx /\ ~discarded
    /\ state \in {"draft", "rejected"}
    /\ Cardinality(late \cup L) <= MaxLate
    /\ discarded' = TRUE
    /\ late' = late \cup L
    /\ UNCHANGED <<state, revision, complete, contact_verified, publication, claims,
                   events, capable, tx, sweep>>

-----------------------------------------------------------------------------
(* The Listing.  These lock the Listing row, not the Submission row.        *)

ListingMoves(to) ==
    /\ listing' = to
    /\ UNCHANGED <<submission, shown, claims, events, capable, tx, sweep>>

\* Mutant: confirming does not look at the Listing's state.
ConfirmAnyListing ==
    /\ Passed("confirm") /\ listing # "none"
    /\ ListingMoves("published") /\ Served("confirm")

ConfirmAvailability ==
    /\ Passed("confirm") /\ listing \in {"published", "expired"}
    /\ ListingMoves("published") /\ Served("confirm")

MarkUnavailable ==
    /\ Passed("mark_unavailable") /\ listing = "published"
    /\ ListingMoves("unavailable") /\ Served("mark_unavailable")

ArchiveListing ==
    /\ Passed("archive") /\ listing \notin {"none", "archived"}
    /\ ListingMoves("archived") /\ Served("archive")

\* expire_listings (periodic)
ExpireListing ==
    /\ listing = "published"
    /\ ListingMoves("expired") /\ late' = late

-----------------------------------------------------------------------------
(* The Operators.  Begin: lock, read, check.  A check that fails raises and *)
(* rolls back, so it is no step.  Commit: the writes.                       *)

\* What a transaction intends to write while it holds the row lock.
Locks(op, o, c, stale) ==
    /\ tx = NoTx
    /\ tx' = [op |-> op, actor |-> o, claim |-> c, stale |-> stale, left |-> ClaimDuration]
    /\ UNCHANGED <<submission, publication, claims, events, capable, sweep>>

\* Mutant: another Operator's claim is not looked for.
BeginClaimUnchecked(o, c) ==
    /\ o # Submitter /\ o \in capable \cup late
    /\ state = "pending"
    /\ claims[c].status = "unused"
    /\ Locks("claim", o, c, {})
    /\ late' = late \ {o}

(* claim_submission_review: c is the row to insert.  An available claim of  *)
(* this revision is returned to its Operator or is a conflict for another,  *)
(* with nothing written either way.                                         *)
BeginClaim(o, c) ==
    /\ o # Submitter /\ o \in capable \cup late
    /\ state = "pending"
    /\ claims[c].status = "unused"
    /\ \A d \in OpenClaims : ~Available(d) \/ claims[d].revision # revision
    /\ Locks("claim", o, c, OpenClaims)
    /\ late' = late \ {o}

\* what renew, release and the decisions all require of the open claim
Holds(o, c) == c \in OpenClaims /\ Available(c) /\ claims[c].operator = o

\* renew_submission_review_claim
BeginRenew(o, c) ==
    /\ o # Submitter /\ Holds(o, c) /\ claims[c].revision = revision
    /\ Locks("renew", o, c, {}) /\ UNCHANGED late

\* release_submission_review_claim, and force_release for any available claim
BeginRelease(o, c) ==
    /\ o # Submitter /\ c \in OpenClaims /\ Available(c)
    /\ Locks("release", o, c, {}) /\ UNCHANGED late

(* ensure_current_review_claim before request_submission_changes,           *)
(* reject_submission and approve_submission; reviewed is the revision the   *)
(* Operator's request names.                                                *)
BeginDecision(outcome, o, c, reviewed) ==
    /\ o # Submitter
    /\ reviewed = revision /\ state = "pending"
    /\ Holds(o, c) /\ claims[c].revision = reviewed
    /\ outcome = "published" => Ready
    /\ Locks(outcome, o, c, {}) /\ UNCHANGED late

CommitClaim ==
    /\ tx # NoTx /\ tx.op = "claim"
    /\ claims' = [Closing(tx.stale) EXCEPT ![tx.claim] =
                    [status |-> "open", operator |-> tx.actor,
                     revision |-> revision, left |-> tx.left]]
    /\ tx' = NoTx
    /\ UNCHANGED <<submission, publication, events, capable, late, sweep>>

\* update_fields = (renewed_at, expires_at): a release made meanwhile stands
CommitRenew ==
    /\ tx # NoTx /\ tx.op = "renew"
    /\ claims' = [claims EXCEPT ![tx.claim].left = tx.left]
    /\ tx' = NoTx
    /\ UNCHANGED <<submission, publication, events, capable, late, sweep>>

CommitRelease ==
    /\ tx # NoTx /\ tx.op = "release"
    /\ claims' = Closing({tx.claim})
    /\ tx' = NoTx
    /\ UNCHANGED <<submission, publication, events, capable, late, sweep>>

\* What a decision writes, with to as the new state and show as the revision
\* the Listing carries if the decision is an approval.
Decides(to, show, closed) ==
    /\ tx # NoTx /\ tx.op \in Decisions
    /\ state' = to
    /\ events' = events \cup {Event(revision, tx.op, tx.actor, tx.claim)}
    /\ claims' = Closing(closed)
    /\ IF tx.op = "published"
       THEN listing' = "published" /\ shown' = show
       ELSE UNCHANGED publication
    /\ tx' = NoTx
    /\ UNCHANGED <<revision, complete, contact_verified, discarded, capable, late, sweep>>

\* Mutant: the state is not saved.
CommitDecisionUnsaved == Decides(state, revision, {tx.claim})
\* Mutant: the Listing of an earlier approval keeps its content.
CommitDecisionOldContent ==
    Decides(tx.op, IF listing = "none" THEN revision ELSE shown, {tx.claim})
\* Mutant: the claim is left open.
CommitDecisionKeepsClaim == Decides(tx.op, revision, {})

(* _record_transition and the release of the claim; an approval has         *)
(* materialised and published the Listing before them.                      *)
CommitDecision == Decides(tx.op, revision, {tx.claim})

\* a validation error, a database error or a lost process: ROLLBACK
Rollback ==
    /\ tx # NoTx
    /\ tx' = NoTx
    /\ UNCHANGED <<submission, publication, claims, events, capable, late, sweep>>

-----------------------------------------------------------------------------
(* release_unavailable_review_claims, run by every read of the queue: one   *)
(* unlocked read of the open claims, then one save after another.  Several  *)
(* may run; sweep holds what any of them has yet to save.                   *)

SweepRead ==
    /\ sweep' = sweep \cup {c \in OpenClaims : ~Available(c)}
    /\ UNCHANGED <<submission, publication, claims, events, capable, late, tx>>

SweepSave(c) ==
    /\ c \in sweep
    /\ claims' = Closing({c})
    /\ sweep' = sweep \ {c}
    /\ UNCHANGED <<submission, publication, events, capable, late, tx>>

-----------------------------------------------------------------------------
(* Accounts and time.                                                       *)

(* A capability is withdrawn; the Operator may have passed the permission   *)
(* check of the claim view just before.                                     *)
LoseCapability(o, L) ==
    /\ o \in capable
    /\ L \subseteq {o} /\ Cardinality(late \cup L) <= MaxLate
    /\ capable' = capable \ {o}
    /\ late' = late \cup L
    /\ UNCHANGED <<submission, publication, claims, events, tx, sweep>>

GainCapability(o) ==
    /\ o \in Operators \ capable
    /\ capable' = capable \cup {o}
    /\ late' = late \ {o}
    /\ UNCHANGED <<submission, publication, claims, events, tx, sweep>>

Elapsed(n) == IF n > 0 THEN n - 1 ELSE 0

Tick ==
    /\ claims' = [c \in ClaimId |-> [claims[c] EXCEPT !.left = Elapsed(@)]]
    /\ tx' = IF tx = NoTx THEN tx ELSE [tx EXCEPT !.left = Elapsed(@)]
    /\ UNCHANGED <<submission, publication, events, capable, late, sweep>>

SubmitterNext ==
    \/ SaveStep \/ RequestContactVerification \/ VerifyContact
    \/ SubmitForReview
    \/ \E L \in SUBSET SubmitterRequest : Discard(L)
    \/ ConfirmAvailability \/ MarkUnavailable \/ ArchiveListing

OperatorNext ==
    \/ \E o \in Operators, c \in ClaimId :
          \/ BeginClaim(o, c) \/ BeginRenew(o, c) \/ BeginRelease(o, c)
          \/ \E outcome \in Decisions, reviewed \in 1..MaxRevision :
                BeginDecision(outcome, o, c, reviewed)
    \/ CommitClaim \/ CommitRenew \/ CommitRelease \/ CommitDecision \/ Rollback

EnvironmentNext ==
    \/ AccountPhoneChanges \/ DraftMediaChanges \/ ExpireListing
    \/ SweepRead \/ \E c \in ClaimId : SweepSave(c)
    \/ \E o \in Operators : GainCapability(o) \/ \E L \in SUBSET {o} : LoseCapability(o, L)
    \/ Tick

Next == SubmitterNext \/ OperatorNext \/ EnvironmentNext

Spec == Init /\ [][Next]_vars

-----------------------------------------------------------------------------
(* Properties.                                                              *)

\* The columns hold what their types allow, and so does the transaction.
TypeOK ==
    /\ state \in SubmissionState /\ revision \in 1..MaxRevision
    /\ complete \in BOOLEAN /\ contact_verified \in BOOLEAN /\ discarded \in BOOLEAN
    /\ listing \in ListingState /\ shown \in 0..MaxRevision
    /\ claims \in [ClaimId -> ReviewClaim]
    /\ events \subseteq SubmissionEvent
    /\ capable \subseteq Operators /\ late \subseteq SubmitterRequest \cup Operators
    /\ tx = NoTx \/ tx \in Transaction
    /\ sweep \subseteq ClaimId

DecisionEvents == {e \in events : e.new_state \in Decisions}

\* A Review Claim makes one Operator responsible for the revision under
\* review: open claims exist only while the Submission is pending, for its
\* current revision, never for its Submitter, and never two at once, although
\* no constraint spans two revisions and the sweep writes without the lock.
OneResponsibleOperator ==
    /\ \A c \in OpenClaims : /\ state = "pending"
                             /\ claims[c].revision = revision
                             /\ claims[c].operator # Submitter
    /\ \A c, d \in OpenClaims : c = d

\* Every decision was made by an Operator other than the Submitter under that
\* Operator's own claim of the very revision decided, a revision that had been
\* submitted, and the claim is over: neither a renewal nor a late sweep can
\* leave a decided claim open.
DecisionsAreClaimed ==
    \A e \in DecisionEvents :
        /\ e.actor # Submitter
        /\ e.claim \in ClaimId
        /\ claims[e.claim].operator = e.actor
        /\ claims[e.claim].revision = e.revision
        /\ claims[e.claim].status = "closed"
        /\ \E f \in events : f.revision = e.revision /\ f.new_state = "pending"

\* A revision is decided once: competing Operators, expiries and takeovers
\* never produce two decisions about the same revision.
OneDecisionPerRevision ==
    \A e, f \in DecisionEvents : e.revision = f.revision => e = f

\* The append-only history tells the state: a revision is pending exactly from
\* its PENDING event to its decision, and a draft's revision is fresh, so that
\* the constraint one_pending_transition_per_submission_revision never stops a
\* Submitter from submitting.
HistoryTellsState ==
    LET now == {e.new_state : e \in {f \in events : f.revision = revision}}
    IN  /\ state = "draft" => now \subseteq {"draft"}
        /\ state = "pending" => "pending" \in now /\ now \cap Decisions = {}
        /\ state \in Decisions => state \in now
        /\ \A e \in events : e.revision <= revision

\* The Listing carries the content of the latest approved revision, whatever
\* the Submitter drafts, submits or has rejected after it; there is no Listing
\* before an approval.
ListingCarriesApprovedRevision ==
    LET approved == {e.revision : e \in {f \in events : f.new_state = "published"}}
    IN  IF listing = "none" THEN shown = 0 /\ approved = {}
        ELSE shown \in approved /\ \A rev \in approved : rev <= shown

\* A released ReviewClaim is never open again: not by the commit of a renewal
\* that read it open before the sweep released it.
ClosedClaimsStayClosed ==
    [][\A c \in ClaimId : claims[c].status = "closed" => claims'[c].status = "closed"]_vars

\* A Listing goes live only by the approval of a revision that was pending
\* until this step, or by the confirmation of an expired Listing, which changes
\* none of its content: what the owner took down stays down until a review.
LiveOnlyByReviewOrConfirmation ==
    [][listing' = "published" /\ listing # "published" =>
          \/ /\ state = "pending" /\ state' = "published" /\ shown' = revision
             /\ \E e \in events' \ events : e.new_state = "published" /\ e.revision = revision
          \/ listing = "expired" /\ shown' = shown]_vars

\* Discarding is for drafts and rejected Submissions: a Submission under review
\* is never a discarded one (views.py "Discard a draft or rejected Submission";
\* tests/test_submissions.py: the DELETE of a pending one answers 403 and its
\* owner still reads it).
ReviewedIsNotDiscarded == state = "pending" => ~discarded

-----------------------------------------------------------------------------
(* What the review promises: module ReviewDesk.  An Operator whose decision *)
(* is being written holds the desk although the sweep may close the claim.  *)

Nobody == NoClaim

Responsible ==
    IF tx # NoTx /\ tx.op \in Decisions THEN claims[tx.claim].operator
    ELSE IF OpenClaims = {} THEN Nobody
    ELSE claims[CHOOSE c \in OpenClaims : TRUE].operator

Verdicts == {[revision |-> e.revision, by |-> e.actor, outcome |-> e.new_state] :
                e \in DecisionEvents}

Desk == INSTANCE ReviewDesk
            WITH phase <- state, holder <- Responsible, verdicts <- Verdicts

\* The review implements the desk: only the Operator responsible decides.
ReviewImplementsDesk == Desk!Spec

(* One Operator at a time has a revision, and what they gave back stays given  *)
(* back, whatever the sweep writes.                                            *)
ResponsibilityHolds == [](TypeOK /\ OneResponsibleOperator) /\ ClosedClaimsStayClosed

(* Each revision is decided at most once, by whoever had claimed it, and the   *)
(* history alone tells what became of it.                                      *)
DecisionsAreSound == DecisionsAreClaimed /\ OneDecisionPerRevision /\ HistoryTellsState
=============================================================================
