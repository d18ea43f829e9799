------------------------- MODULE SourcePublication -------------------------
(***************************************************************************)
(* What becomes of the pages extracted from one external Source:           *)
(* backend/apps/source_proposals, from the Extraction Requests to the      *)
(* Listings they publish or withdraw.  Every operation here locks the      *)
(* Source row first, so each is one step.  How a request is worked on, in  *)
(* which checkpoints and attempts, is not seen from here: a request stays  *)
(* open until Finish, the completion transaction of run_extraction, and    *)
(* requests finish in any order.                                           *)
(*                                                                         *)
(* Requests are numbered in the order of their creation, which is the      *)
(* order (created_at, id) that retention.py and exceptions.py compare.     *)
(***************************************************************************)
EXTENDS Naturals, FiniteSets

CONSTANTS
    Url,            \* the pages of the Source
    Website,        \* the approved website URL, an entry page without a Listing
    MaxRequests,    \* bound: Extraction Requests
    MaxVersions,    \* bound: approvals of a profile version
    MaxProcessing,  \* bound: Source.processing_revision
    MaxModeChanges  \* bound: publication-mode changes of an approval

ASSUME WebsiteAssumption == Website \notin Url
ASSUME RequestsAssumption == MaxRequests \in Nat
ASSUME VersionsAssumption == MaxVersions \in Nat \ {0}
ASSUME ProcessingAssumption == MaxProcessing \in Nat
ASSUME ModeChangesAssumption == MaxModeChanges \in Nat

VARIABLES
    source,      \* assignment, approval, publication mode and processing state
    issued,      \* Extraction Requests created
    requests,    \* the Extraction Requests, with the state of their runs
    candidate,   \* the External Listing candidate of each request and page
    listing,     \* the Listing of each page
    latest,      \* SourceExtractionException.last_run, as a request; 0: no row
    withdrawals, \* ExtractionRun.withdrawals
    excluded,    \* pages matched by an active SourceExclusion
    lifted,      \* the requests that existed when a page's exclusion was removed
    fenced,      \* history: the requests before the latest pause, resume,
                 \* version or revocation
    switched     \* history: the requests before the latest such or mode change

vars == <<source, issued, requests, candidate, listing, latest, withdrawals,
          excluded, lifted, fenced, switched>>
results == <<candidate, listing, latest, withdrawals>>
rules == <<excluded, lifted>>

RequestId == 1..MaxRequests
Grant == [assignment : 0..MaxVersions, version : 0..MaxVersions,
          processing : 0..MaxProcessing, automatic : BOOLEAN,
          mode : 0..MaxModeChanges]
SourceRow == [active : BOOLEAN, paused : BOOLEAN, grant : Grant]
Request == [entry : Url \cup {Website}, grant : Grant,
            state : {"none", "open", "complete", "failed", "cancelled"}]
Candidate == [state : {"none", "pending", "published", "rejected", "cancelled"},
              superseded : BOOLEAN, valid : BOOLEAN]
Listing == [state : {"none", "published", "expired", "unavailable"}, by : 0..MaxRequests]

Outcome == {"unseen", "valid", "invalid", "withdrawn", "failed", "excluded"}

NoCandidate == [state |-> "none", superseded |-> FALSE, valid |-> FALSE]

(* authorized: the assignment that the request was created under is the     *)
(* current one, processing goes on at the same revision, and the profile    *)
(* version of the request is the active one.                                *)
Authorized(r) ==
    LET own == requests[r].grant
        now == source.grant
    IN  /\ source.active /\ ~source.paused
        /\ own.assignment = now.assignment
        /\ own.processing = now.processing
        /\ own.version = now.version

\* The first profile has been approved: the Source has its assignment.
Init ==
    /\ \E automatic \in BOOLEAN :
          source = [active |-> TRUE, paused |-> FALSE,
                    grant |-> [assignment |-> 1, version |-> 1, processing |-> 0,
                               automatic |-> automatic, mode |-> 0]]
    /\ issued = 0
    /\ requests = [r \in RequestId |-> [entry |-> Website, grant |-> source.grant,
                                        state |-> "none"]]
    /\ candidate = [r \in RequestId |-> [u \in Url |-> NoCandidate]]
    /\ listing = [u \in Url |-> [state |-> "none", by |-> 0]]
    /\ latest = [u \in Url |-> 0]
    /\ withdrawals = [r \in RequestId |-> {}]
    /\ excluded = {} /\ lifted = [u \in Url |-> 0]
    /\ fenced = 0 /\ switched = 0

-----------------------------------------------------------------------------
(* Requests.                                                                *)

(* submit_request under the Source as s: an open request for the same page  *)
(* under the same assignment, version and processing revision is returned   *)
(* instead of a new one.                                                    *)
Submit(e, s) ==
    IF \E r \in RequestId :
          /\ requests[r].state = "open" /\ requests[r].entry = e
          /\ requests[r].grant.assignment = s.grant.assignment
          /\ requests[r].grant.version = s.grant.version
          /\ requests[r].grant.processing = s.grant.processing
    THEN UNCHANGED <<issued, requests>>
    ELSE /\ issued < MaxRequests
         /\ issued' = issued + 1
         /\ requests' = [requests EXCEPT ![issued + 1] =
                            [entry |-> e, grant |-> s.grant, state |-> "open"]]

\* by the representative, the responsible Operator or the schedule
\* (assignment_can_submit)
SubmitRequest(e) ==
    /\ source.active /\ ~source.paused
    /\ Submit(e, source)
    /\ UNCHANGED <<source, results, rules, fenced, switched>>

\* run_extraction begins another attempt of a failed request
RetryRequest(r) ==
    /\ requests[r].state = "failed"
    /\ requests' = [requests EXCEPT ![r].state = "open"]
    /\ UNCHANGED <<source, issued, results, rules, fenced, switched>>

-----------------------------------------------------------------------------
(* The completion transaction of run_extraction.                            *)

Finished(r, state) == requests' = [requests EXCEPT ![r].state = state]

\* matching_exclusion(since = the creation of r): an exclusion removed after
\* that counts
Held(r, u) == u \in excluded \/ r <= lifted[u]

\* A candidate of a later request stands for the page.
Newer(r, u) ==
    \E q \in RequestId : q > r /\ candidate[q][u].state # "none" /\ ~candidate[q][u].superseded

\* retire_results: nothing is left that would pass validation
Retired(c) == [c EXCEPT !.superseded = TRUE, !.valid = FALSE]

Extracted(found) == {u \in Url : found[u] \in {"valid", "invalid"}}

\* Mutant: whatever finishes last is current.
ReplacedByCompletion(r, found, posted) ==
    [q \in RequestId |-> [u \in Url |->
        IF u \notin Extracted(found) THEN candidate[q][u]
        ELSE IF q = r
             THEN [state |-> IF u \in posted THEN "published" ELSE "pending",
                   superseded |-> FALSE, valid |-> found[u] = "valid"]
             ELSE IF candidate[q][u].state = "none" THEN candidate[q][u]
                  ELSE Retired(candidate[q][u])]]

(* create_run_candidates and replace_obsolete_results for the pages that    *)
(* run r extracted; posted are those among them published right away.       *)
Replaced(r, found, posted) ==
    [q \in RequestId |-> [u \in Url |->
        IF u \notin Extracted(found) THEN candidate[q][u]
        ELSE IF q = r
             THEN IF Newer(r, u)
                  THEN [state |-> "pending", superseded |-> TRUE, valid |-> FALSE]
                  ELSE [state |-> IF u \in posted THEN "published" ELSE "pending",
                        superseded |-> FALSE, valid |-> found[u] = "valid"]
             ELSE IF candidate[q][u].state = "none" \/ Newer(r, u)
                  THEN candidate[q][u]
                  ELSE Retired(candidate[q][u])]]

(* publish_automatic_candidates: request and approval are automatic, under  *)
(* the same change of mode, and the page is not held by an exclusion.       *)
Posted(r, found) ==
    IF /\ requests[r].grant.automatic /\ source.grant.automatic
       /\ requests[r].grant.mode = source.grant.mode
    THEN {u \in Url : found[u] = "valid" /\ ~Newer(r, u) /\ ~Held(r, u)}
    ELSE {}

\* Mutant: record_exceptions keeps every withdrawal of the run.
GoneInAnyOrder(r, found) == {u \in Url : found[u] = "withdrawn" /\ ~Held(r, u)}

(* Positive evidence that the page is gone, unless an exclusion matches it  *)
(* or a later request has already reported on the page (record_exceptions). *)
Gone(r, found) ==
    {u \in Url : found[u] = "withdrawn" /\ ~Held(r, u) /\ latest[u] <= r}

Reported(r, found) ==
    [u \in Url |->
        IF \/ found[u] \in {"unseen"}
           \/ found[u] = "withdrawn" /\ Held(r, u)
           \/ latest[u] > r
        THEN latest[u] ELSE r]

\* withdraw_listings, after publication
Shown(r, posted, gone) ==
    [u \in Url |->
        IF u \in posted THEN [state |-> "published", by |-> r]
        ELSE IF u \in gone /\ listing[u].state = "published"
             THEN [listing[u] EXCEPT !.state = "unavailable"]
             ELSE listing[u]]

(* The run ends complete, or failed when some page or the run itself failed *)
(* and no page was extracted.                                               *)
Finish(r, found) ==
    /\ requests[r].state = "open" /\ Authorized(r)
    /\ \A u \in Url : found[u] = "excluded" => Held(r, u)
    /\ LET posted == Posted(r, found)
           gone == Gone(r, found)
       IN  /\ candidate' = Replaced(r, found, posted)
           /\ listing' = Shown(r, posted, gone)
           /\ withdrawals' = [withdrawals EXCEPT ![r] = gone]
    /\ latest' = Reported(r, found)
    /\ \/ Finished(r, "complete")
       \/ Extracted(found) = {} /\ Finished(r, "failed")
    /\ UNCHANGED <<source, issued, rules, fenced, switched>>

(* AuthorizationEnded, because the request is not authorized any more or a  *)
(* page led outside the Source's domain: everything found is dropped.       *)
FinishCancelled(r) ==
    /\ requests[r].state = "open"
    /\ Finished(r, "cancelled")
    /\ withdrawals' = [withdrawals EXCEPT ![r] = {}]
    /\ UNCHANGED <<source, issued, candidate, listing, latest, rules, fenced, switched>>

-----------------------------------------------------------------------------
(* The responsible Operator's decisions about candidates.                   *)

Pending(r, u) == candidate[r][u].state = "pending" /\ ~candidate[r][u].superseded

\* publish_candidate and materialize_external_listing for pages P of run r
Publish(r, P) ==
    /\ candidate' = [candidate EXCEPT ![r] = [u \in Url |->
                        IF u \in P THEN [@[u] EXCEPT !.state = "published"] ELSE @[u]]]
    /\ listing' = [u \in Url |-> IF u \in P THEN [state |-> "published", by |-> r]
                                 ELSE listing[u]]
    /\ UNCHANGED <<source, issued, requests, latest, withdrawals, rules, fenced, switched>>

\* approve_run: every publishable candidate of the run at once
ApproveRun(r) ==
    LET P == {u \in Url : Pending(r, u) /\ candidate[r][u].valid /\ u \notin excluded}
    IN  /\ requests[r].state = "complete" /\ Authorized(r)
        /\ P # {}
        /\ Publish(r, P)

\* approve_external_listing_candidate, and each item of a bulk approval
ApproveCandidate(r, u) ==
    /\ Authorized(r)
    /\ Pending(r, u) /\ candidate[r][u].valid /\ u \notin excluded
    /\ Publish(r, {u})

\* reject_external_listing_candidate
RejectCandidate(r, u) ==
    /\ Authorized(r) /\ Pending(r, u)
    /\ candidate' = [candidate EXCEPT ![r][u].state = "rejected"]
    /\ UNCHANGED <<source, issued, requests, listing, latest, withdrawals, rules,
                   fenced, switched>>

-----------------------------------------------------------------------------
(* The responsible Operator's decisions about the Source.                   *)

\* Every request so far is overtaken: wholly, or for automatic publication.
Overtakes == fenced' = issued /\ switched' = issued
OvertakesMode == fenced' = fenced /\ switched' = issued

\* change_processing(pause): advance_processing_revision
Pause ==
    /\ source.active /\ ~source.paused
    /\ source.grant.processing < MaxProcessing
    /\ source' = [source EXCEPT !.paused = TRUE, !.grant.processing = @ + 1]
    /\ Overtakes
    /\ UNCHANGED <<issued, requests, results, rules>>

(* change_processing(resume): the revision again, a mode, and a request for *)
(* the website.                                                             *)
Resume(automatic) ==
    /\ source.active /\ source.paused
    /\ source.grant.processing < MaxProcessing
    /\ source.grant.mode < MaxModeChanges
    /\ source' = [source EXCEPT !.paused = FALSE,
                    !.grant = [source.grant EXCEPT !.processing = @ + 1, !.mode = @ + 1,
                                        !.automatic = automatic]]
    /\ Submit(Website, source')
    /\ Overtakes
    /\ UNCHANGED <<results, rules>>

\* change_publication_mode
ChangeMode ==
    /\ source.active
    /\ source.grant.mode < MaxModeChanges
    /\ source' = [source EXCEPT !.grant =
                    [source.grant EXCEPT !.automatic = ~@, !.mode = @ + 1]]
    /\ OvertakesMode
    /\ UNCHANGED <<issued, requests, results, rules>>

(* approve_profile replacing the active version: a new approval with its    *)
(* own mode, the revision, and a request unless processing is paused.       *)
ApproveVersion(automatic) ==
    /\ source.active
    /\ source.grant.version < MaxVersions /\ source.grant.processing < MaxProcessing
    /\ source' = [source EXCEPT !.grant =
                    [source.grant EXCEPT !.version = @ + 1, !.processing = @ + 1,
                                          !.mode = 0, !.automatic = automatic]]
    /\ IF source.paused THEN UNCHANGED <<issued, requests>> ELSE Submit(Website, source')
    /\ Overtakes
    /\ UNCHANGED <<results, rules>>

OwnedBy(a) == {r \in RequestId : requests[r].state # "none" /\ requests[r].grant.assignment = a}

\* Mutant: only the candidates that still stand lead to Listings.
RevokeStandingOnly ==
    LET own == OwnedBy(source.grant.assignment)
    IN  /\ source.active
        /\ source' = [source EXCEPT !.active = FALSE]
        /\ requests' = [r \in RequestId |->
                          IF r \in own /\ requests[r].state # "complete"
                          THEN [requests[r] EXCEPT !.state = "cancelled"] ELSE requests[r]]
        /\ candidate' = [r \in RequestId |-> [u \in Url |->
                          IF r \in own /\ candidate[r][u].state = "pending"
                          THEN [candidate[r][u] EXCEPT !.state = "cancelled"]
                          ELSE candidate[r][u]]]
        /\ listing' = [u \in Url |->
                          IF /\ listing[u].state = "published"
                             /\ \E r \in own : /\ candidate[r][u].state = "published"
                                              /\ ~candidate[r][u].superseded
                          THEN [listing[u] EXCEPT !.state = "unavailable"] ELSE listing[u]]
        /\ Overtakes
        /\ UNCHANGED <<issued, latest, withdrawals, rules>>

(* revoke_assignment: unfinished requests and pending candidates are        *)
(* cancelled, the Listings linked to a candidate of the case withdrawn.     *)
Revoke ==
    LET own == OwnedBy(source.grant.assignment)
    IN  /\ source.active
        /\ source' = [source EXCEPT !.active = FALSE]
        /\ requests' = [r \in RequestId |->
                          IF r \in own /\ requests[r].state # "complete"
                          THEN [requests[r] EXCEPT !.state = "cancelled"] ELSE requests[r]]
        /\ candidate' = [r \in RequestId |-> [u \in Url |->
                          IF r \in own /\ candidate[r][u].state = "pending"
                          THEN [candidate[r][u] EXCEPT !.state = "cancelled"]
                          ELSE candidate[r][u]]]
        /\ listing' = [u \in Url |->
                          IF /\ listing[u].state = "published"
                             /\ \E r \in own : candidate[r][u].state = "published"
                          THEN [listing[u] EXCEPT !.state = "unavailable"] ELSE listing[u]]
        /\ Overtakes
        /\ UNCHANGED <<issued, latest, withdrawals, rules>>

\* approve_profile of another case for the same Source: a new assignment
Assign(automatic) ==
    /\ ~source.active
    /\ source.grant.version < MaxVersions
    /\ source' = [source EXCEPT !.active = TRUE,
                    !.grant = [source.grant EXCEPT !.assignment = @ + 1, !.version = @ + 1,
                                        !.mode = 0, !.automatic = automatic]]
    /\ UNCHANGED <<issued, requests, results, rules, fenced, switched>>

\* add_exclusion: what it holds, Held and Publish look up
Exclude(u) ==
    /\ source.active /\ u \notin excluded
    /\ excluded' = excluded \cup {u}
    /\ UNCHANGED <<source, issued, requests, results, lifted, fenced, switched>>

\* remove_exclusion
Lift(u) ==
    /\ source.active /\ u \in excluded
    /\ excluded' = excluded \ {u}
    /\ lifted' = [lifted EXCEPT ![u] = issued]
    /\ UNCHANGED <<source, issued, requests, results, fenced, switched>>

TakeDown(u, state) ==
    /\ listing[u].state = "published"
    /\ listing' = [listing EXCEPT ![u].state = state]
    /\ UNCHANGED <<source, issued, requests, candidate, latest, withdrawals, rules,
                   fenced, switched>>

\* withdraw_excluded_listings
WithdrawExcluded(u) == source.active /\ u \in excluded /\ TakeDown(u, "unavailable")

\* expire_listings (periodic)
ExpireListing(u) == TakeDown(u, "expired")

RequestNext ==
    \/ \E e \in Url \cup {Website} : SubmitRequest(e)
    \/ \E r \in RequestId :
          \/ RetryRequest(r) \/ FinishCancelled(r)
          \/ \E found \in [Url -> Outcome] : Finish(r, found)

CandidateNext ==
    \E r \in RequestId :
        \/ ApproveRun(r)
        \/ \E u \in Url : ApproveCandidate(r, u) \/ RejectCandidate(r, u)

SourceNext ==
    \/ Pause \/ ChangeMode \/ Revoke
    \/ \E automatic \in BOOLEAN :
          Resume(automatic) \/ ApproveVersion(automatic) \/ Assign(automatic)
    \/ \E u \in Url : Exclude(u) \/ Lift(u) \/ WithdrawExcluded(u) \/ ExpireListing(u)

Next == RequestNext \/ CandidateNext \/ SourceNext

Spec == Init /\ [][Next]_vars

-----------------------------------------------------------------------------
(* Properties.                                                              *)

\* Every row has its type; a request exists exactly when it was issued.
TypeOK ==
    /\ source \in SourceRow
    /\ issued \in 0..MaxRequests
    /\ requests \in [RequestId -> Request]
    /\ \A r \in RequestId : requests[r].state # "none" <=> r <= issued
    /\ candidate \in [RequestId -> [Url -> Candidate]]
    /\ listing \in [Url -> Listing]
    /\ latest \in [Url -> 0..MaxRequests]
    /\ withdrawals \in [RequestId -> SUBSET Url]
    /\ excluded \subseteq Url
    /\ lifted \in [Url -> 0..issued]
    /\ fenced \in 0..issued /\ switched \in 0..issued

\* However the runs finish, one extraction stands for a page: of two
\* candidates of a page, that of the earlier request is superseded
\* (retention.py: "Request ordering, rather than completion ordering").
OneCurrentResult ==
    \A u \in Url : \A q, r \in RequestId :
        q < r /\ candidate[q][u].state # "none" /\ candidate[r][u].state # "none"
            => candidate[q][u].superseded

\* What a Listing says never goes back to an earlier request's extraction,
\* neither by a run that finishes late nor by a late approval.
ContentNeverGoesBack ==
    [][\A u \in Url : listing'[u].by >= listing[u].by]_vars

\* A live Listing was extracted under the assignment in force: revoking takes
\* every page of the case down, whichever of its requests published it and
\* whatever superseded the candidate since, and no run brings one back.
LiveOnlyUnderAssignment ==
    \A u \in Url : listing[u].state = "published" =>
        /\ source.active
        /\ listing[u].by \in OwnedBy(source.grant.assignment)

Republished(u) == listing'[u].state = "published" /\ listing'[u] # listing[u]

\* Pausing, resuming, a new profile version and a revocation each overtake the
\* requests before them for ever: no run or approval publishes what such a
\* request found, however the Source changed since.
OvertakenNeverPublish ==
    [][\A u \in Url : Republished(u) => listing'[u].by > fenced]_vars

\* Automatic publication is granted to later requests only: a run publishes by
\* itself only what was requested after the latest change of mode, and never a
\* page that was excluded at any time since (docs/development.md: removal does
\* not release held candidates for automatic publication).
AutomaticOnlyWhenGranted ==
    [][\A r \in RequestId, u \in Url :
          candidate[r][u].state = "none" /\ candidate'[r][u].state = "published" =>
              r > switched /\ u \notin excluded /\ r > lifted[u]]_vars

\* Evidence that a page is gone takes the Listing down only if it is no older
\* than what the Listing shows: an earlier run that finishes late never hides
\* what a later one published.
OlderEvidenceNeverHides ==
    [][\A u \in Url :
          listing[u].state = "published" /\ listing'[u].state = "unavailable" =>
              \/ ~source'.active
              \/ u \in excluded
              \/ \E r \in RequestId : r >= listing[u].by /\ u \in withdrawals'[r]]_vars

(* What is live was published under an authority that was in force throughout. *)
PublicationIsAuthorized ==
    /\ [](TypeOK /\ LiveOnlyUnderAssignment)
    /\ OvertakenNeverPublish /\ AutomaticOnlyWhenGranted

(* A page has one result in force, and never an older one after a newer.       *)
ContentStands == [](TypeOK /\ OneCurrentResult) /\ ContentNeverGoesBack
=============================================================================
