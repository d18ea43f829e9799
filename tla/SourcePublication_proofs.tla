---------------------- MODULE SourcePublication_proofs ----------------------
(***************************************************************************)
(* Theorems about SourcePublication for every number of pages, requests,   *)
(* versions, processing revisions and changes of mode.                     *)
(***************************************************************************)
EXTENDS SourcePublication, TLAPS

-----------------------------------------------------------------------------
(* Typing.                                                                 *)

LEMMA SubmitType ==
    ASSUME TypeOK, NEW e \in Url \cup {Website}, NEW s \in SourceRow, Submit(e, s)
    PROVE  /\ issued' \in 0..MaxRequests /\ issued' >= issued
           /\ requests' \in [RequestId -> Request]
           /\ \A r \in RequestId : requests'[r].state # "none" <=> r <= issued'
<1> USE RequestsAssumption DEF TypeOK
<1>1. CASE UNCHANGED <<issued, requests>>
  BY <1>1
<1>2. CASE issued < MaxRequests /\ issued' = issued + 1
           /\ requests' = [requests EXCEPT ![issued + 1] =
                              [entry |-> e, grant |-> s.grant, state |-> "open"]]
  <2>1. [entry |-> e, grant |-> s.grant, state |-> "open"] \in Request
    BY DEF Request, SourceRow
  <2>2. issued + 1 \in RequestId
    BY <1>2 DEF RequestId
  <2>3. requests' \in [RequestId -> Request]
    BY <1>2, <2>1, <2>2
  <2>4. \A r \in RequestId : requests'[r].state # "none" <=> r <= issued'
    BY <1>2, <2>2 DEF RequestId
  <2> QED
    BY <1>2, <2>3, <2>4
<1> QED
  BY <1>1, <1>2 DEF Submit

\* what every conclusion of a request leaves typed
LEMMA FinishedType ==
    ASSUME TypeOK, NEW r \in RequestId, requests[r].state # "none",
           NEW state \in {"open", "complete", "failed", "cancelled"}, Finished(r, state)
    PROVE  /\ requests' \in [RequestId -> Request]
           /\ \A q \in RequestId : requests'[q].state # "none" <=> q <= issued
<1>1. requests' = [requests EXCEPT ![r] = [requests[r] EXCEPT !.state = state]]
  BY DEF Finished
<1>2. [requests[r] EXCEPT !.state = state] \in Request
  BY DEF TypeOK, Request
<1>3. \A q \in RequestId : requests'[q].state # "none" <=> requests[q].state # "none"
  BY <1>1 DEF TypeOK, Request
<1> QED
  BY <1>1, <1>2, <1>3 DEF TypeOK

LEMMA CandidateType ==
    ASSUME NEW c \in Candidate
    PROVE  /\ Retired(c) \in Candidate
           /\ \A state \in {"published", "rejected", "cancelled"} :
                 [c EXCEPT !.state = state] \in Candidate
BY DEF Candidate, Retired

LEMMA ListingType ==
    ASSUME NEW l \in Listing
    PROVE  /\ \A state \in {"expired", "unavailable"} : [l EXCEPT !.state = state] \in Listing
           /\ \A r \in RequestId : [state |-> "published", by |-> r] \in Listing
BY RequestsAssumption DEF Listing, RequestId

LEMMA ReplacedType ==
    ASSUME TypeOK, NEW r \in RequestId, NEW found \in [Url -> Outcome], NEW posted
    PROVE  Replaced(r, found, posted) \in [RequestId -> [Url -> Candidate]]
<1>1. \A q \in RequestId, u \in Url :
         candidate[q][u] \in Candidate /\ Retired(candidate[q][u]) \in Candidate
  BY CandidateType DEF TypeOK
<1>2. \A b \in BOOLEAN, v \in BOOLEAN, p \in {"pending", "published"} :
         [state |-> p, superseded |-> b, valid |-> v] \in Candidate
  BY DEF Candidate
<1>3. ASSUME NEW q \in RequestId, NEW u \in Url
      PROVE  Replaced(r, found, posted)[q][u] \in Candidate
  <2>1. (found[u] = "valid") \in BOOLEAN
    OBVIOUS
  <2> QED
    BY <1>1, <1>2, <2>1 DEF Replaced
<1>4. Replaced(r, found, posted) =
         [q \in RequestId |-> [u \in Url |-> Replaced(r, found, posted)[q][u]]]
  BY DEF Replaced
<1> QED
  BY <1>3, <1>4

LEMMA FinishType ==
    ASSUME TypeOK, NEW r \in RequestId, NEW found \in [Url -> Outcome], Finish(r, found)
    PROVE  TypeOK'
<1>1. requests[r].state = "open"
  BY DEF Finish
<1>2. /\ requests' \in [RequestId -> Request]
      /\ \A q \in RequestId : requests'[q].state # "none" <=> q <= issued
  <2>1. Finished(r, "complete") \/ Finished(r, "failed")
    BY DEF Finish
  <2> QED
    BY <1>1, <2>1, FinishedType
<1>3. candidate' \in [RequestId -> [Url -> Candidate]]
  BY ReplacedType DEF Finish
<1>4. listing' \in [Url -> Listing]
  <2>1. \A u \in Url : [state |-> "published", by |-> r] \in Listing
                       /\ listing[u] \in Listing
                       /\ [listing[u] EXCEPT !.state = "unavailable"] \in Listing
    BY ListingType DEF TypeOK
  <2> QED
    BY <2>1 DEF Finish, Shown
<1>5. latest' \in [Url -> 0..MaxRequests]
  BY RequestsAssumption DEF Finish, Reported, TypeOK, RequestId
<1>6. withdrawals' \in [RequestId -> SUBSET Url]
  <2>1. Gone(r, found) \in SUBSET Url
    BY DEF Gone
  <2>2. withdrawals' = [withdrawals EXCEPT ![r] = Gone(r, found)]
    BY DEF Finish
  <2> QED
    BY <2>1, <2>2 DEF TypeOK, results
<1>7. UNCHANGED <<source, issued, rules, fenced, switched>>
  BY DEF Finish
<1> QED
  BY <1>2, <1>3, <1>4, <1>5, <1>6, <1>7 DEF TypeOK, rules

LEMMA PublishType ==
    ASSUME TypeOK, NEW r \in RequestId, NEW P, Publish(r, P)
    PROVE  TypeOK'
<1>1. candidate' \in [RequestId -> [Url -> Candidate]]
  <2> DEFINE row == [u \in Url |-> IF u \in P THEN [candidate[r][u] EXCEPT !.state = "published"]
                                  ELSE candidate[r][u]]
  <2>1. row \in [Url -> Candidate]
    BY CandidateType DEF TypeOK
  <2>2. candidate' = [candidate EXCEPT ![r] = row]
    BY DEF Publish
  <2> HIDE DEF row
  <2> QED
    BY <2>1, <2>2 DEF TypeOK
<1>2. listing' \in [Url -> Listing]
  BY ListingType DEF Publish, TypeOK
<1> QED
  BY <1>1, <1>2 DEF Publish, TypeOK, rules

Has(g, a, v, p, m) ==
    g \in Grant /\ g.assignment = a /\ g.version = v /\ g.processing = p /\ g.mode = m

\* what becomes of the fields of a grant
LEMMA GrantType ==
    ASSUME NEW g \in Grant, NEW p \in 0..MaxProcessing, NEW m \in 0..MaxModeChanges,
           NEW v \in 0..MaxVersions, NEW a \in 0..MaxVersions, NEW b \in BOOLEAN
    PROVE  /\ Has([g EXCEPT !.processing = p], g.assignment, g.version, p, g.mode)
           /\ Has([g EXCEPT !.automatic = b, !.mode = m],
                  g.assignment, g.version, g.processing, m)
           /\ Has([g EXCEPT !.processing = p, !.mode = m, !.automatic = b],
                  g.assignment, g.version, p, m)
           /\ Has([g EXCEPT !.version = v, !.processing = p, !.mode = m, !.automatic = b],
                  g.assignment, v, p, m)
           /\ Has([g EXCEPT !.assignment = a, !.version = v, !.mode = m, !.automatic = b],
                  a, v, g.processing, m)
<1> USE DEF Has, Grant
<1>1. Has([g EXCEPT !.processing = p], g.assignment, g.version, p, g.mode)
  OBVIOUS
<1>2. Has([g EXCEPT !.automatic = b, !.mode = m], g.assignment, g.version, g.processing, m)
  OBVIOUS
<1>3. Has([g EXCEPT !.processing = p, !.mode = m, !.automatic = b],
          g.assignment, g.version, p, m)
  OBVIOUS
<1>4. Has([g EXCEPT !.version = v, !.processing = p, !.mode = m, !.automatic = b],
          g.assignment, v, p, m)
  OBVIOUS
<1>5. Has([g EXCEPT !.assignment = a, !.version = v, !.mode = m, !.automatic = b],
          a, v, g.processing, m)
  OBVIOUS
<1> QED
  BY <1>1, <1>2, <1>3, <1>4, <1>5

\* An assignment comes with a version of its own, so versions bound assignments.
Typed == TypeOK /\ source.grant.assignment <= source.grant.version

Row(active, paused, a, v, p, m) ==
    /\ source' \in SourceRow
    /\ source'.active = active /\ source'.paused = paused
    /\ Has(source'.grant, a, v, p, m)

\* The Source row after each operation of its responsible Operator.
LEMMA SourceStep ==
    ASSUME Typed
    PROVE  LET g == source.grant
           IN  /\ Pause => Row(TRUE, TRUE, g.assignment, g.version, g.processing + 1, g.mode)
               /\ ChangeMode =>
                     Row(TRUE, source.paused, g.assignment, g.version, g.processing, g.mode + 1)
               /\ Revoke =>
                     Row(FALSE, source.paused, g.assignment, g.version, g.processing, g.mode)
               /\ \A b \in BOOLEAN :
                     /\ Resume(b) =>
                           Row(TRUE, FALSE, g.assignment, g.version, g.processing + 1, g.mode + 1)
                     /\ ApproveVersion(b) =>
                           Row(TRUE, source.paused, g.assignment, g.version + 1,
                               g.processing + 1, 0)
                     /\ Assign(b) =>
                           Row(TRUE, source.paused, g.assignment + 1, g.version + 1,
                               g.processing, 0)
<1> DEFINE g == source.grant
<1> USE VersionsAssumption, ProcessingAssumption, ModeChangesAssumption
<1>0. /\ source \in SourceRow /\ g \in Grant
      /\ g.assignment \in 0..MaxVersions /\ g.version \in 0..MaxVersions
      /\ g.processing \in 0..MaxProcessing /\ g.mode \in 0..MaxModeChanges
      /\ g.automatic \in BOOLEAN /\ g.assignment <= g.version
  BY DEF Typed, TypeOK, SourceRow, Grant
<1>1. ASSUME NEW n \in Grant, NEW b \in BOOLEAN
      PROVE  /\ LET s == [source EXCEPT !.grant = n]
                IN  s \in SourceRow /\ s.active = source.active
                    /\ s.paused = source.paused /\ s.grant = n
             /\ LET s == [source EXCEPT !.paused = b, !.grant = n]
                IN  s \in SourceRow /\ s.active = source.active /\ s.paused = b /\ s.grant = n
             /\ LET s == [source EXCEPT !.active = b, !.grant = n]
                IN  s \in SourceRow /\ s.active = b /\ s.paused = source.paused /\ s.grant = n
             /\ LET s == [source EXCEPT !.active = b]
                IN  s \in SourceRow /\ s.active = b /\ s.paused = source.paused /\ s.grant = g
  <2>1. LET s == [source EXCEPT !.grant = n]
        IN  s \in SourceRow /\ s.active = source.active
            /\ s.paused = source.paused /\ s.grant = n
    BY <1>0 DEF SourceRow
  <2>2. LET s == [source EXCEPT !.paused = b, !.grant = n]
        IN  s \in SourceRow /\ s.active = source.active /\ s.paused = b /\ s.grant = n
    BY <1>0 DEF SourceRow
  <2>3. LET s == [source EXCEPT !.active = b, !.grant = n]
        IN  s \in SourceRow /\ s.active = b /\ s.paused = source.paused /\ s.grant = n
    BY <1>0 DEF SourceRow
  <2>4. LET s == [source EXCEPT !.active = b]
        IN  s \in SourceRow /\ s.active = b /\ s.paused = source.paused /\ s.grant = g
    BY <1>0 DEF SourceRow
  <2> QED
    BY <2>1, <2>2, <2>3, <2>4
<1>2. Pause => Row(TRUE, TRUE, g.assignment, g.version, g.processing + 1, g.mode)
  <2> SUFFICES ASSUME Pause
               PROVE  Row(TRUE, TRUE, g.assignment, g.version, g.processing + 1, g.mode)
    OBVIOUS
  <2> DEFINE n == [g EXCEPT !.processing = g.processing + 1]
  <2>1. source' = [source EXCEPT !.paused = TRUE, !.grant = n] /\ source.active
    BY DEF Pause
  <2>2. g.processing + 1 \in 0..MaxProcessing
    BY <1>0 DEF Pause
  <2>3. Has(n, g.assignment, g.version, g.processing + 1, g.mode)
    BY <1>0, <2>2, GrantType
  <2> HIDE DEF n
  <2> QED
    BY <1>1, <2>1, <2>3 DEF Row, Has
<1>3. ChangeMode =>
        Row(TRUE, source.paused, g.assignment, g.version, g.processing, g.mode + 1)
  <2> SUFFICES ASSUME ChangeMode
               PROVE  Row(TRUE, source.paused, g.assignment, g.version, g.processing, g.mode + 1)
    OBVIOUS
  <2> DEFINE n == [g EXCEPT !.automatic = ~g.automatic, !.mode = g.mode + 1]
  <2>1. source' = [source EXCEPT !.grant = n] /\ source.active
    BY DEF ChangeMode
  <2>2. g.mode + 1 \in 0..MaxModeChanges /\ (~g.automatic) \in BOOLEAN
    BY <1>0 DEF ChangeMode
  <2>3. Has(n, g.assignment, g.version, g.processing, g.mode + 1)
    BY <1>0, <2>2, GrantType
  <2> HIDE DEF n
  <2> QED
    BY <1>1, <2>1, <2>3 DEF Row, Has
<1>4. Revoke => Row(FALSE, source.paused, g.assignment, g.version, g.processing, g.mode)
  <2>1. Revoke => source' = [source EXCEPT !.active = FALSE]
    BY DEF Revoke
  <2> QED
    BY <1>0, <1>1, <2>1 DEF Row, Has
<1>5. ASSUME NEW b \in BOOLEAN, Resume(b)
      PROVE  Row(TRUE, FALSE, g.assignment, g.version, g.processing + 1, g.mode + 1)
  <2> DEFINE n == [g EXCEPT !.processing = g.processing + 1, !.mode = g.mode + 1,
                            !.automatic = b]
  <2>1. source' = [source EXCEPT !.paused = FALSE, !.grant = n] /\ source.active
    BY <1>5 DEF Resume
  <2>2. g.processing + 1 \in 0..MaxProcessing /\ g.mode + 1 \in 0..MaxModeChanges
    BY <1>0, <1>5 DEF Resume
  <2>3. Has(n, g.assignment, g.version, g.processing + 1, g.mode + 1)
    BY <1>0, <2>2, GrantType
  <2> HIDE DEF n
  <2> QED
    BY <1>1, <2>1, <2>3 DEF Row, Has
<1>6. ASSUME NEW b \in BOOLEAN, ApproveVersion(b)
      PROVE  Row(TRUE, source.paused, g.assignment, g.version + 1, g.processing + 1, 0)
  <2> DEFINE n == [g EXCEPT !.version = g.version + 1, !.processing = g.processing + 1,
                            !.mode = 0, !.automatic = b]
  <2>1. source' = [source EXCEPT !.grant = n] /\ source.active
    BY <1>6 DEF ApproveVersion
  <2>2. /\ g.processing + 1 \in 0..MaxProcessing /\ g.version + 1 \in 0..MaxVersions
        /\ 0 \in 0..MaxModeChanges
    BY <1>0, <1>6 DEF ApproveVersion
  <2>3. Has(n, g.assignment, g.version + 1, g.processing + 1, 0)
    BY <1>0, <2>2, GrantType
  <2> HIDE DEF n
  <2> QED
    BY <1>1, <2>1, <2>3 DEF Row, Has
<1>7. ASSUME NEW b \in BOOLEAN, Assign(b)
      PROVE  Row(TRUE, source.paused, g.assignment + 1, g.version + 1, g.processing, 0)
  <2> DEFINE n == [g EXCEPT !.assignment = g.assignment + 1, !.version = g.version + 1,
                            !.mode = 0, !.automatic = b]
  <2>1. source' = [source EXCEPT !.active = TRUE, !.grant = n]
    BY <1>7 DEF Assign
  <2>2. /\ g.version + 1 \in 0..MaxVersions /\ g.assignment + 1 \in 0..MaxVersions
        /\ 0 \in 0..MaxModeChanges
    BY <1>0, <1>7 DEF Assign
  <2>3. Has(n, g.assignment + 1, g.version + 1, g.processing, 0)
    BY <1>0, <2>2, GrantType
  <2> HIDE DEF n
  <2> QED
    BY <1>1, <2>1, <2>3 DEF Row, Has
<1> QED
  BY <1>2, <1>3, <1>4, <1>5, <1>6, <1>7

LEMMA RevokeType ==
    ASSUME Typed, Revoke
    PROVE  TypeOK'
<1>1. requests' \in [RequestId -> Request]
  <2>1. \A r \in RequestId : [requests[r] EXCEPT !.state = "cancelled"] \in Request
    BY DEF Typed, TypeOK, Request
  <2> QED
    BY <2>1 DEF Revoke, Typed, TypeOK
<1>2. \A r \in RequestId : requests'[r].state # "none" <=> requests[r].state # "none"
  <2>1. ASSUME NEW r \in RequestId, requests'[r] # requests[r]
        PROVE  requests[r].state # "none" /\ requests'[r].state = "cancelled"
    <3>1. r \in OwnedBy(source.grant.assignment)
          /\ requests'[r] = [requests[r] EXCEPT !.state = "cancelled"]
      BY <2>1 DEF Revoke
    <3>2. requests[r] \in Request
      BY DEF Typed, TypeOK
    <3> QED
      BY <3>1, <3>2 DEF OwnedBy, Request
  <2> QED
    BY <2>1
<1>3. candidate' \in [RequestId -> [Url -> Candidate]]
  BY CandidateType DEF Revoke, Typed, TypeOK
<1>4. listing' \in [Url -> Listing]
  BY ListingType DEF Revoke, Typed, TypeOK
<1>5. source' \in SourceRow
  BY SourceStep DEF Row
<1> QED
  BY <1>1, <1>2, <1>3, <1>4, <1>5 DEF Revoke, Overtakes, rules, Typed, TypeOK

LEMMA TypeStep == Typed /\ [Next]_vars => TypeOK'
<1> SUFFICES ASSUME Typed, [Next]_vars
             PROVE  TypeOK'
  OBVIOUS
<1>0. TypeOK
  BY DEF Typed
<1>1. CASE UNCHANGED vars
  BY <1>0, <1>1 DEF vars, results, rules, TypeOK
<1>2. ASSUME NEW e \in Url \cup {Website}, SubmitRequest(e)
      PROVE  TypeOK'
  <2>1. Submit(e, source) /\ source \in SourceRow
        /\ UNCHANGED <<source, results, rules, fenced, switched>>
    BY <1>0, <1>2 DEF SubmitRequest, TypeOK
  <2>2. /\ issued' \in 0..MaxRequests /\ issued' >= issued
        /\ requests' \in [RequestId -> Request]
        /\ \A r \in RequestId : requests'[r].state # "none" <=> r <= issued'
    BY <1>0, <2>1, SubmitType
  <2> QED
    BY <1>0, <2>1, <2>2 DEF TypeOK, results, rules
<1>3. ASSUME NEW r \in RequestId, RetryRequest(r) \/ FinishCancelled(r)
      PROVE  TypeOK'
  <2>1. Finished(r, "open") \/ Finished(r, "cancelled")
    BY <1>3 DEF RetryRequest, FinishCancelled, Finished
  <2>2. requests[r].state # "none"
    BY <1>3 DEF RetryRequest, FinishCancelled
  <2>3. /\ requests' \in [RequestId -> Request]
        /\ \A q \in RequestId : requests'[q].state # "none" <=> q <= issued
    BY <1>0, <2>1, <2>2, FinishedType
  <2>4. withdrawals' \in [RequestId -> SUBSET Url]
    BY <1>0, <1>3 DEF RetryRequest, FinishCancelled, results, TypeOK
  <2> QED
    BY <1>0, <1>3, <2>3, <2>4 DEF RetryRequest, FinishCancelled, results, rules, TypeOK
<1>4. ASSUME NEW r \in RequestId, NEW found \in [Url -> Outcome], Finish(r, found)
      PROVE  TypeOK'
  BY <1>0, <1>4, FinishType
<1>5. ASSUME NEW r \in RequestId, ApproveRun(r) \/ \E u \in Url : ApproveCandidate(r, u)
      PROVE  TypeOK'
  BY <1>0, <1>5, PublishType DEF ApproveRun, ApproveCandidate
<1>6. ASSUME NEW r \in RequestId, NEW u \in Url, RejectCandidate(r, u)
      PROVE  TypeOK'
  <2>1. candidate' \in [RequestId -> [Url -> Candidate]]
    <3>1. [candidate[r][u] EXCEPT !.state = "rejected"] \in Candidate
      BY <1>0, CandidateType DEF TypeOK
    <3> QED
      BY <1>0, <1>6, <3>1 DEF RejectCandidate, TypeOK
  <2> QED
    BY <1>0, <1>6, <2>1 DEF RejectCandidate, rules, TypeOK
<1>7. CASE Pause \/ ChangeMode
  <2>1. source' \in SourceRow
    BY <1>7, SourceStep DEF Row
  <2> QED
    BY <1>0, <1>7, <2>1 DEF Pause, ChangeMode, Overtakes, OvertakesMode, results, rules, TypeOK
<1>8. ASSUME NEW b \in BOOLEAN, Resume(b) \/ ApproveVersion(b)
      PROVE  TypeOK'
  <2>1. source' \in SourceRow
    BY <1>8, SourceStep DEF Row
  <2>2. CASE Submit(Website, source')
    <3>1. /\ issued' \in 0..MaxRequests /\ issued' >= issued
          /\ requests' \in [RequestId -> Request]
          /\ \A r \in RequestId : requests'[r].state # "none" <=> r <= issued'
      BY <1>0, <2>1, <2>2, SubmitType
    <3>2. fenced' = issued /\ switched' = issued /\ UNCHANGED <<results, rules>>
      BY <1>8 DEF Resume, ApproveVersion, Overtakes
    <3> QED
      BY <1>0, <2>1, <3>1, <3>2 DEF results, rules, TypeOK
  <2>3. CASE UNCHANGED <<issued, requests>>
    BY <1>0, <1>8, <2>1, <2>3 DEF Resume, ApproveVersion, Overtakes, results, rules, TypeOK
  <2> QED
    BY <1>8, <2>2, <2>3 DEF Resume, ApproveVersion
<1>9. ASSUME NEW b \in BOOLEAN, Assign(b)
      PROVE  TypeOK'
  <2>1. source' \in SourceRow
    BY <1>9, SourceStep DEF Row
  <2> QED
    BY <1>0, <1>9, <2>1 DEF Assign, results, rules, TypeOK
<1>10. ASSUME NEW u \in Url, Exclude(u) \/ Lift(u)
       PROVE  TypeOK'
  BY <1>0, <1>10 DEF Exclude, Lift, results, TypeOK
<1>11. ASSUME NEW u \in Url, WithdrawExcluded(u) \/ ExpireListing(u)
       PROVE  TypeOK'
  <2>1. \E state \in {"expired", "unavailable"} : TakeDown(u, state)
    BY <1>11 DEF WithdrawExcluded, ExpireListing
  <2>2. PICK state \in {"expired", "unavailable"} : TakeDown(u, state)
    BY <2>1
  <2>3. listing' \in [Url -> Listing]
    <3>1. [listing[u] EXCEPT !.state = state] \in Listing
      BY <1>0, ListingType DEF TypeOK
    <3> QED
      BY <1>0, <2>2, <3>1 DEF TakeDown, TypeOK
  <2> QED
    BY <1>0, <2>2, <2>3 DEF TakeDown, rules, TypeOK
<1> QED
  BY <1>1, <1>2, <1>3, <1>4, <1>5, <1>6, <1>7, <1>8, <1>9, <1>10, <1>11, RevokeType
  DEF Next, RequestNext, CandidateNext, SourceNext

LEMMA TypeInit == Init => Typed
<1> SUFFICES ASSUME Init
             PROVE  Typed
  OBVIOUS
<1> USE RequestsAssumption, VersionsAssumption, ProcessingAssumption, ModeChangesAssumption
<1>1. PICK automatic \in BOOLEAN :
         source = [active |-> TRUE, paused |-> FALSE,
                   grant |-> [assignment |-> 1, version |-> 1, processing |-> 0,
                              automatic |-> automatic, mode |-> 0]]
  BY DEF Init
<1>2. source.grant = [assignment |-> 1, version |-> 1, processing |-> 0,
                      automatic |-> automatic, mode |-> 0]
  BY <1>1
<1>3. source.grant \in Grant /\ source.grant.assignment = source.grant.version
  BY <1>2 DEF Grant
<1>4. source \in SourceRow
  BY <1>1, <1>3 DEF SourceRow
<1>5. requests \in [RequestId -> Request] /\ \A r \in RequestId : requests[r].state = "none"
  BY <1>3 DEF Init, Request
<1>6. NoCandidate \in Candidate
  BY DEF NoCandidate, Candidate
<1>7. listing \in [Url -> Listing]
  BY DEF Init, Listing
<1>8. source.grant.assignment <= source.grant.version
  BY <1>3 DEF Grant
<1>9. candidate \in [RequestId -> [Url -> Candidate]]
  BY <1>6 DEF Init
<1>10. /\ issued = 0 /\ fenced = 0 /\ switched = 0 /\ excluded = {}
       /\ latest \in [Url -> 0..MaxRequests] /\ lifted \in [Url -> 0..issued]
       /\ withdrawals \in [RequestId -> SUBSET Url]
  BY DEF Init
<1>11. \A r \in RequestId : requests[r].state # "none" <=> r <= issued
  BY <1>5, <1>10 DEF RequestId
<1> QED
  BY <1>4, <1>5, <1>7, <1>8, <1>9, <1>10, <1>11 DEF Typed, TypeOK

LEMMA TypedStep == Typed /\ [Next]_vars => Typed'
<1> SUFFICES ASSUME Typed, [Next]_vars
             PROVE  source'.grant.assignment <= source'.grant.version
  BY TypeStep DEF Typed
<1>0. source.grant.assignment \in Nat /\ source.grant.version \in Nat
      /\ source.grant.assignment <= source.grant.version
  BY VersionsAssumption DEF Typed, TypeOK, SourceRow, Grant
<1>1. CASE source' = source
  BY <1>0, <1>1
<1>2. CASE Pause \/ ChangeMode \/ Revoke
  BY <1>0, <1>2, SourceStep DEF Row, Has
<1>3. ASSUME NEW b \in BOOLEAN, Resume(b) \/ ApproveVersion(b) \/ Assign(b)
      PROVE  source'.grant.assignment <= source'.grant.version
  <2> DEFINE g == source.grant
  <2>1. \/ Row(TRUE, FALSE, g.assignment, g.version, g.processing + 1, g.mode + 1)
        \/ Row(TRUE, source.paused, g.assignment, g.version + 1, g.processing + 1, 0)
        \/ Row(TRUE, source.paused, g.assignment + 1, g.version + 1, g.processing, 0)
    BY <1>3, SourceStep
  <2> QED
    BY <1>0, <2>1 DEF Row, Has
<1> QED
  BY <1>1, <1>2, <1>3
  DEF Next, RequestNext, CandidateNext, SourceNext, SubmitRequest, RetryRequest, FinishCancelled,
      Finish, ApproveRun, ApproveCandidate, RejectCandidate, Publish, Exclude, Lift,
      WithdrawExcluded, ExpireListing, TakeDown, vars

\* Every row of the Source keeps its type, and a request exists exactly when it
\* was issued.
THEOREM TypeCorrect == Spec => []TypeOK
<1>1. Spec => []Typed
  BY TypeInit, TypedStep, PTL DEF Spec
<1>2. Typed => TypeOK
  BY DEF Typed
<1> QED
  BY <1>1, <1>2, PTL

-----------------------------------------------------------------------------
(* Authority: what a request was granted, and what the Source grants now.  *)

\* A request keeps the grant it was created with, and that is the Source's at
\* that moment.
RequestsAdvance ==
    /\ issued' >= issued
    /\ \A r \in RequestId : r <= issued => requests'[r].grant = requests[r].grant
    /\ \A r \in RequestId : issued < r /\ r <= issued' => requests'[r].grant = source'.grant

LEMMA SubmitAdvances ==
    ASSUME Typed, NEW e, Submit(e, source')
    PROVE  RequestsAdvance
<1>0. issued \in Nat /\ requests \in [RequestId -> Request]
  BY RequestsAssumption DEF Typed, TypeOK
<1>1. CASE UNCHANGED <<issued, requests>>
  BY <1>0, <1>1 DEF RequestsAdvance, RequestId
<1>2. CASE issued < MaxRequests /\ issued' = issued + 1
           /\ requests' = [requests EXCEPT ![issued + 1] =
                              [entry |-> e, grant |-> source'.grant, state |-> "open"]]
  BY <1>0, <1>2, RequestsAssumption DEF RequestsAdvance, RequestId
<1> QED
  BY <1>1, <1>2 DEF Submit

LEMMA RequestsStep == Typed /\ [Next]_vars => RequestsAdvance
<1> SUFFICES ASSUME Typed, [Next]_vars
             PROVE  RequestsAdvance
  OBVIOUS
<1>0. issued \in Nat /\ requests \in [RequestId -> Request]
  BY RequestsAssumption DEF Typed, TypeOK
<1>1. CASE UNCHANGED <<issued, requests>>
  BY <1>0, <1>1 DEF RequestsAdvance, RequestId
<1>2. ASSUME NEW e, SubmitRequest(e)
      PROVE  RequestsAdvance
  <2>1. Submit(e, source')
    BY <1>2 DEF SubmitRequest, Submit
  <2> QED
    BY <2>1, SubmitAdvances
<1>3. ASSUME NEW b \in BOOLEAN, Resume(b) \/ ApproveVersion(b)
      PROVE  RequestsAdvance
  BY <1>1, <1>3, SubmitAdvances DEF Resume, ApproveVersion
<1>4. ASSUME NEW r \in RequestId, NEW state, Finished(r, state), issued' = issued
      PROVE  RequestsAdvance
  <2>1. \A q \in RequestId : requests'[q].grant = requests[q].grant
    BY <1>0, <1>4 DEF Finished, Request
  <2> QED
    BY <1>0, <1>4, <2>1 DEF RequestsAdvance, RequestId
<1>5. ASSUME NEW r \in RequestId,
             \/ RetryRequest(r) \/ FinishCancelled(r)
             \/ \E found \in [Url -> Outcome] : Finish(r, found)
      PROVE  RequestsAdvance
  <2>1. issued' = issued /\ \E state : Finished(r, state)
    BY <1>5 DEF RetryRequest, FinishCancelled, Finish, Finished
  <2> QED
    BY <1>4, <2>1
<1>6. CASE Revoke
  <2>1. \A q \in RequestId : requests'[q].grant = requests[q].grant
    BY <1>0, <1>6 DEF Revoke, Request
  <2>2. issued' = issued
    BY <1>6 DEF Revoke
  <2> QED
    BY <1>0, <2>1, <2>2 DEF RequestsAdvance, RequestId
<1> QED
  BY <1>1, <1>2, <1>3, <1>5, <1>6
  DEF Next, RequestNext, CandidateNext, SourceNext, Pause, ChangeMode, Assign,
      ApproveRun, ApproveCandidate, RejectCandidate, Publish, Exclude, Lift,
      WithdrawExcluded, ExpireListing, TakeDown, vars

\* The assignment, version, processing revision and mode revision in force, and
\* which requests are overtaken with them.
Moves(a, v, p, m) ==
    /\ source'.grant.assignment = a /\ source'.grant.version = v
    /\ source'.grant.processing = p /\ source'.grant.mode = m

SourceAdvances ==
    LET g == source.grant
    IN  \/ source' = source /\ fenced' = fenced /\ switched' = switched
        \/ /\ Moves(g.assignment, g.version, g.processing, g.mode + 1)
           /\ source'.active = source.active /\ fenced' = fenced /\ switched' = issued
        \/ /\ \/ Moves(g.assignment, g.version, g.processing + 1, g.mode)
              \/ Moves(g.assignment, g.version, g.processing + 1, g.mode + 1)
              \/ Moves(g.assignment, g.version + 1, g.processing + 1, 0)
              \/ Moves(g.assignment, g.version, g.processing, g.mode) /\ ~source'.active
           /\ fenced' = issued /\ switched' = issued
        \/ /\ Moves(g.assignment + 1, g.version + 1, g.processing, 0)
           /\ fenced' = fenced /\ switched' = switched

LEMMA SourceStepAdvances == Typed /\ [Next]_vars => SourceAdvances
<1> SUFFICES ASSUME Typed, [Next]_vars
             PROVE  SourceAdvances
  OBVIOUS
<1> DEFINE g == source.grant
<1>1. CASE UNCHANGED <<source, fenced, switched>>
  BY <1>1 DEF SourceAdvances
<1>2. CASE Pause
  <2>1. Row(TRUE, TRUE, g.assignment, g.version, g.processing + 1, g.mode)
    BY <1>2, SourceStep
  <2> QED
    BY <1>2, <2>1 DEF Pause, Overtakes, Row, Has, Moves, SourceAdvances
<1>3. CASE ChangeMode
  <2>1. Row(TRUE, source.paused, g.assignment, g.version, g.processing, g.mode + 1)
    BY <1>3, SourceStep
  <2> QED
    BY <1>3, <2>1 DEF ChangeMode, OvertakesMode, Row, Has, Moves, SourceAdvances
<1>4. CASE Revoke
  <2>1. Row(FALSE, source.paused, g.assignment, g.version, g.processing, g.mode)
    BY <1>4, SourceStep
  <2> QED
    BY <1>4, <2>1 DEF Revoke, Overtakes, Row, Has, Moves, SourceAdvances
<1>5. ASSUME NEW b \in BOOLEAN, Resume(b)
      PROVE  SourceAdvances
  <2>1. Row(TRUE, FALSE, g.assignment, g.version, g.processing + 1, g.mode + 1)
    BY <1>5, SourceStep
  <2> QED
    BY <1>5, <2>1 DEF Resume, Overtakes, Row, Has, Moves, SourceAdvances
<1>6. ASSUME NEW b \in BOOLEAN, ApproveVersion(b)
      PROVE  SourceAdvances
  <2>1. Row(TRUE, source.paused, g.assignment, g.version + 1, g.processing + 1, 0)
    BY <1>6, SourceStep
  <2> QED
    BY <1>6, <2>1 DEF ApproveVersion, Overtakes, Row, Has, Moves, SourceAdvances
<1>7. ASSUME NEW b \in BOOLEAN, Assign(b)
      PROVE  SourceAdvances
  <2>1. Row(TRUE, source.paused, g.assignment + 1, g.version + 1, g.processing, 0)
    BY <1>7, SourceStep
  <2> QED
    BY <1>7, <2>1 DEF Assign, Row, Has, Moves, SourceAdvances
<1> QED
  BY <1>1, <1>2, <1>3, <1>4, <1>5, <1>6, <1>7
  DEF Next, RequestNext, CandidateNext, SourceNext, SubmitRequest, RetryRequest, FinishCancelled,
      Finish, ApproveRun, ApproveCandidate, RejectCandidate, Publish, Exclude, Lift,
      WithdrawExcluded, ExpireListing, TakeDown, vars

\* No request was granted more than the Source has granted.
GrantedBefore(r) ==
    LET own == requests[r].grant
        now == source.grant
    IN  /\ own.assignment <= now.assignment /\ own.version <= now.version
        /\ own.processing <= now.processing
        /\ own.version = now.version => own.mode <= now.mode

\* What a request has lost for ever: versions and processing revisions only
\* grow, and a revoked Source comes back with another version.
Overtaken(r) ==
    \/ ~source.active
    \/ requests[r].grant.version < source.grant.version
    \/ requests[r].grant.processing < source.grant.processing

AuthorityInv ==
    /\ Typed
    /\ \A r \in RequestId : r <= issued => GrantedBefore(r)
    /\ \A r \in RequestId : r <= fenced => Overtaken(r)
    /\ \A r \in RequestId :
          r <= switched => Overtaken(r) \/ requests[r].grant.mode < source.grant.mode

\* The fields of a grant are numbers, now and after a step.
Numbers == \A g \in {source.grant} \cup {requests[r].grant : r \in RequestId} :
              /\ g.assignment \in Nat /\ g.version \in Nat
              /\ g.processing \in Nat /\ g.mode \in Nat

LEMMA TypedNumbers == Typed => Numbers
BY VersionsAssumption, ProcessingAssumption, ModeChangesAssumption
DEF Typed, TypeOK, SourceRow, Request, Grant, Numbers

LEMMA AuthorityStep == AuthorityInv /\ [Next]_vars => AuthorityInv'
<1> SUFFICES ASSUME AuthorityInv, [Next]_vars
             PROVE  AuthorityInv'
  OBVIOUS
<1>0. Typed /\ Typed' /\ RequestsAdvance /\ SourceAdvances /\ Numbers
  BY TypedStep, RequestsStep, SourceStepAdvances, TypedNumbers DEF AuthorityInv
<1>1. Typed' => Numbers'
  BY TypedNumbers, PTL
<1>2. issued \in Nat /\ issued' \in Nat /\ issued' >= issued /\ fenced <= issued
      /\ switched <= issued /\ RequestId \subseteq Nat /\ fenced \in Nat /\ switched \in Nat
  BY <1>0, RequestsAssumption DEF Typed, TypeOK, RequestsAdvance, RequestId
<1>3. ASSUME NEW r \in RequestId, r <= issued, requests'[r].grant = requests[r].grant
      PROVE  /\ GrantedBefore(r)'
             /\ r <= fenced' => Overtaken(r)'
             /\ r <= switched' => Overtaken(r)' \/ requests'[r].grant.mode < source'.grant.mode
  <2> DEFINE own == requests[r].grant
             now == source.grant
  <2>0. /\ own.assignment \in Nat /\ own.version \in Nat
        /\ own.processing \in Nat /\ own.mode \in Nat
        /\ now.assignment \in Nat /\ now.version \in Nat
        /\ now.processing \in Nat /\ now.mode \in Nat
    BY <1>0 DEF Numbers
  <2>1. /\ GrantedBefore(r)
        /\ r <= fenced => Overtaken(r)
        /\ r <= switched => Overtaken(r) \/ own.mode < now.mode
    BY <1>3 DEF AuthorityInv
  <2>2. CASE source' = source /\ fenced' = fenced /\ switched' = switched
    BY <1>3, <2>1, <2>2 DEF GrantedBefore, Overtaken
  <2>3. CASE /\ Moves(now.assignment, now.version, now.processing, now.mode + 1)
             /\ source'.active = source.active /\ fenced' = fenced /\ switched' = issued
    BY <1>3, <2>0, <2>1, <2>3 DEF GrantedBefore, Overtaken, Moves
  <2>4. CASE /\ \/ Moves(now.assignment, now.version, now.processing + 1, now.mode)
                \/ Moves(now.assignment, now.version, now.processing + 1, now.mode + 1)
                \/ Moves(now.assignment, now.version + 1, now.processing + 1, 0)
                \/ Moves(now.assignment, now.version, now.processing, now.mode) /\ ~source'.active
             /\ fenced' = issued /\ switched' = issued
    BY <1>3, <2>0, <2>1, <2>4 DEF GrantedBefore, Overtaken, Moves
  <2>5. CASE /\ Moves(now.assignment + 1, now.version + 1, now.processing, 0)
             /\ fenced' = fenced /\ switched' = switched
    BY <1>3, <2>0, <2>1, <2>5 DEF GrantedBefore, Overtaken, Moves
  <2> QED
    BY <1>0, <2>2, <2>3, <2>4, <2>5 DEF SourceAdvances
<1>4. ASSUME NEW r \in RequestId, issued < r, r <= issued', requests'[r].grant = source'.grant
      PROVE  /\ GrantedBefore(r)'
             /\ ~(r <= fenced') /\ ~(r <= switched')
  <2>1. fenced' <= issued /\ switched' <= issued /\ fenced' \in Nat /\ switched' \in Nat
    BY <1>0, <1>2 DEF SourceAdvances
  <2>2. GrantedBefore(r)'
    BY <1>0, <1>1, <1>4 DEF GrantedBefore, Numbers
  <2> QED
    BY <1>2, <1>4, <2>1, <2>2
<1>5. \A r \in RequestId : r <= fenced' \/ r <= switched' => r <= issued'
  BY <1>0, <1>2 DEF SourceAdvances
<1> QED
  BY <1>0, <1>2, <1>3, <1>4, <1>5 DEF AuthorityInv, RequestsAdvance

LEMMA AuthorityInit == Init => AuthorityInv
<1> SUFFICES ASSUME Init
             PROVE  AuthorityInv
  OBVIOUS
<1>1. issued = 0 /\ fenced = 0 /\ switched = 0
  BY DEF Init
<1> QED
  BY <1>1, TypeInit DEF AuthorityInv, RequestId

\* Versions, processing revisions and changes of mode fence what was requested
\* before them, through every sequence of pauses, approvals and revocations.
THEOREM AuthorityInvariant == Spec => []AuthorityInv
<1> QED
  BY AuthorityInit, AuthorityStep, PTL DEF Spec

LEMMA OvertakenIsUnauthorized ==
    ASSUME AuthorityInv, NEW r \in RequestId
    PROVE  /\ Overtaken(r) => ~Authorized(r)
           /\ r <= fenced => ~Authorized(r)
BY TypedNumbers DEF AuthorityInv, Overtaken, Authorized, Numbers

-----------------------------------------------------------------------------
(* Results: candidates, exceptions and Listings.                           *)

Exists(r, u) == candidate[r][u].state # "none"
Stands(r, u) == Exists(r, u) /\ ~candidate[r][u].superseded

\* Only a complete request has candidates, of pages it has reported on; the newest
\* candidate of a page stands, and no other; a Listing shows a candidate that was
\* published.
ResultInv ==
    /\ Typed
    /\ \A r \in RequestId, u \in Url :
          Exists(r, u) => requests[r].state = "complete" /\ r <= latest[u]
    /\ OneCurrentResult
    /\ \A r \in RequestId, u \in Url :
          Exists(r, u) => \E q \in RequestId : r <= q /\ Stands(q, u)
    /\ \A u \in Url : listing[u].by > 0 => candidate[listing[u].by][u].state = "published"

LEMMA ResultInit == Init => ResultInv
<1> SUFFICES ASSUME Init
             PROVE  ResultInv
  OBVIOUS
<1>1. \A r \in RequestId, u \in Url : ~Exists(r, u)
  BY DEF Init, Exists, NoCandidate
<1>2. \A u \in Url : ~(listing[u].by > 0)
  BY DEF Init
<1> QED
  BY <1>1, <1>2, TypeInit DEF ResultInv, OneCurrentResult, Exists

\* What does not matter to the invariant: decisions about pending candidates,
\* and Listings taken down.
ResultsKept ==
    /\ \A r \in RequestId, u \in Url :
          /\ Exists(r, u)' <=> Exists(r, u)
          /\ candidate'[r][u].superseded = candidate[r][u].superseded
          /\ candidate[r][u].state = "published" => candidate'[r][u].state = "published"
    /\ \A u \in Url : listing'[u].by = listing[u].by
    /\ latest' = latest
    /\ \A r \in RequestId : requests[r].state = "complete" => requests'[r].state = "complete"

LEMMA KeptResults ==
    ASSUME ResultInv, Typed', ResultsKept
    PROVE  ResultInv'
<1>1. /\ RequestId \subseteq Nat
      /\ \A u \in Url : listing[u].by \in 0..MaxRequests
  BY RequestsAssumption DEF ResultInv, Typed, TypeOK, RequestId, Listing
<1>2. \A r \in RequestId, u \in Url :
         /\ Exists(r, u)' <=> Exists(r, u)
         /\ Stands(r, u)' <=> Stands(r, u)
  BY DEF ResultsKept, Stands
<1>3. \A r \in RequestId, u \in Url :
         Exists(r, u)' => requests'[r].state = "complete" /\ r <= latest'[u]
  BY <1>1, <1>2 DEF ResultInv, ResultsKept
<1>4. OneCurrentResult'
  BY DEF ResultInv, ResultsKept, OneCurrentResult, Exists
<1>5. \A r \in RequestId, u \in Url :
         Exists(r, u)' => \E q \in RequestId : r <= q /\ Stands(q, u)'
  BY <1>2 DEF ResultInv
<1>6. \A u \in Url : listing'[u].by > 0 => candidate'[listing'[u].by][u].state = "published"
  BY <1>1, RequestsAssumption DEF ResultInv, ResultsKept, RequestId
<1> QED
  BY <1>3, <1>4, <1>5, <1>6 DEF ResultInv

\* What the completion of run r makes of the candidates of a page.
LEMMA ReplacedCandidates ==
    ASSUME Typed, NEW r \in RequestId, NEW found \in [Url -> Outcome], NEW u \in Url,
           NEW q \in RequestId, NEW posted
    PROVE  LET new == Replaced(r, found, posted)[q][u]
           IN  /\ u \notin Extracted(found) => new = candidate[q][u]
               /\ u \in Extracted(found) /\ q = r =>
                     /\ new.state = IF u \in posted /\ ~Newer(r, u)
                                    THEN "published" ELSE "pending"
                     /\ new.superseded <=> Newer(r, u)
               /\ u \in Extracted(found) /\ q # r => new.state = candidate[q][u].state
               /\ u \in Extracted(found) /\ q # r /\ Newer(r, u) => new = candidate[q][u]
               /\ u \in Extracted(found) /\ q # r /\ ~Newer(r, u) /\ Exists(q, u) =>
                     new.superseded
<1>1. candidate[q][u] \in Candidate
  BY DEF Typed, TypeOK
<1>2. Retired(candidate[q][u]).state = candidate[q][u].state
      /\ Retired(candidate[q][u]).superseded
  BY <1>1 DEF Candidate, Retired
<1>3. CASE u \notin Extracted(found)
  BY <1>3 DEF Replaced
<1>4. CASE u \in Extracted(found) /\ q = r
  BY <1>4 DEF Replaced
<1>5. CASE u \in Extracted(found) /\ q # r
  BY <1>2, <1>5 DEF Replaced, Exists
<1> QED
  BY <1>3, <1>4, <1>5

LEMMA FinishResults ==
    ASSUME ResultInv, NEW r \in RequestId, NEW found \in [Url -> Outcome], Finish(r, found),
           Typed'
    PROVE  ResultInv'
<1> DEFINE posted == Posted(r, found)
<1>0. /\ Typed /\ requests[r].state = "open" /\ RequestId \subseteq Nat
      /\ \A u \in Url : latest[u] \in Nat
      /\ \A q \in RequestId : candidate'[q] = Replaced(r, found, posted)[q]
  BY RequestsAssumption DEF ResultInv, Typed, TypeOK, RequestId, Finish
<1>1. \A u \in posted : u \in Extracted(found) /\ ~Newer(r, u)
  BY DEF Posted, Extracted
<1> HIDE DEF posted
<1>2. \A q \in RequestId, u \in Url :
         /\ u \notin Extracted(found) => candidate'[q][u] = candidate[q][u]
         /\ u \in Extracted(found) /\ q = r =>
               /\ candidate'[r][u].state = IF u \in posted THEN "published" ELSE "pending"
               /\ candidate'[r][u].superseded <=> Newer(r, u)
         /\ u \in Extracted(found) /\ q # r => candidate'[q][u].state = candidate[q][u].state
         /\ u \in Extracted(found) /\ q # r /\ Newer(r, u) =>
               candidate'[q][u] = candidate[q][u]
         /\ u \in Extracted(found) /\ q # r /\ ~Newer(r, u) /\ Exists(q, u) =>
               candidate'[q][u].superseded
  BY <1>0, <1>1, ReplacedCandidates
<1>3. \A q \in RequestId, u \in Url :
         Exists(q, u)' <=> Exists(q, u) \/ (q = r /\ u \in Extracted(found))
  BY <1>2 DEF Exists
<1>4. \A q \in RequestId, u \in Url :
         Exists(q, u)' => requests'[q].state = "complete" /\ q <= latest'[u]
  <2>1. \A u \in Url : latest'[u] = Reported(r, found)[u]
    BY DEF Finish
  <2>2. \A u \in Url : latest'[u] \in {latest[u], r} /\ latest'[u] >= latest[u]
    BY <1>0, <2>1 DEF Reported
  <2>3. \A u \in Extracted(found) : latest'[u] >= r
    BY <1>0, <2>1 DEF Reported, Extracted
  <2>4. \A q \in RequestId, u \in Url :
           Exists(q, u) => requests[q].state = "complete" /\ q <= latest[u]
    BY DEF ResultInv
  <2>7. \A q \in RequestId : requests[q].state = "complete" => requests'[q] = requests[q]
    BY <1>0 DEF Finish, Finished, Typed, TypeOK
  <2>8. Extracted(found) # {} => requests'[r].state = "complete"
    BY DEF Finish, Finished, ResultInv, Typed, TypeOK, Request
  <2>5. \A u \in Url : latest'[u] \in Nat
    BY <1>0, <2>2
  <2>6. ASSUME NEW q \in RequestId, NEW u \in Url, Exists(q, u)'
        PROVE  requests'[q].state = "complete" /\ q <= latest'[u]
    <3>1. CASE Exists(q, u)
      BY <1>0, <2>2, <2>4, <2>5, <2>7, <3>1
    <3>2. CASE q = r /\ u \in Extracted(found)
      BY <1>0, <2>3, <2>8, <3>2
    <3> QED
      BY <1>3, <2>6, <3>1, <3>2
  <2> QED
    BY <2>6
\* without a newer candidate that stands there is no newer one at all
<1>5. \A q \in RequestId, u \in Url : ~Newer(r, u) /\ Exists(q, u) => q <= r
  <2> SUFFICES ASSUME NEW q \in RequestId, NEW u \in Url, ~Newer(r, u), Exists(q, u)
               PROVE  q <= r
    OBVIOUS
  <2>1. PICK s \in RequestId : q <= s /\ Stands(s, u)
    BY DEF ResultInv
  <2>2. ~(s > r)
    BY <2>1 DEF Newer, Stands, Exists
  <2> QED
    BY <1>0, <2>1, <2>2
<1>6. OneCurrentResult'
  <2> SUFFICES ASSUME NEW u \in Url, NEW p \in RequestId, NEW q \in RequestId, p < q,
                      Exists(p, u)', Exists(q, u)'
               PROVE  candidate'[p][u].superseded
    BY DEF OneCurrentResult, Exists
  <2>0. \A x \in RequestId, y \in RequestId :
           x < y /\ Exists(x, u) /\ Exists(y, u) => candidate[x][u].superseded
    BY DEF ResultInv, OneCurrentResult, Exists
  <2>1. CASE u \notin Extracted(found)
    BY <1>2, <1>3, <2>0, <2>1
  <2>2. CASE u \in Extracted(found) /\ Newer(r, u)
    <3>1. CASE p = r
      BY <1>2, <2>2, <3>1
    <3>2. CASE p # r /\ q # r
      BY <1>2, <1>3, <2>0, <2>2, <3>2
    <3>3. CASE p # r /\ q = r
      <4>1. PICK s \in RequestId : s > r /\ Exists(s, u)
        BY <2>2 DEF Newer, Exists
      <4>2. p < s
        BY <1>0, <3>3, <4>1
      <4> QED
        BY <1>2, <1>3, <2>0, <2>2, <3>3, <4>1, <4>2
    <3> QED
      BY <3>1, <3>2, <3>3
  <2>3. CASE u \in Extracted(found) /\ ~Newer(r, u)
    <3>1. p # r
      BY <1>0, <1>3, <1>5, <2>3
    <3> QED
      BY <1>2, <1>3, <2>3, <3>1
  <2> QED
    BY <2>1, <2>2, <2>3
<1>7. \A q \in RequestId, u \in Url :
         Exists(q, u)' => \E s \in RequestId : q <= s /\ Stands(s, u)'
  <2> SUFFICES ASSUME NEW q \in RequestId, NEW u \in Url, Exists(q, u)'
               PROVE  \E s \in RequestId : q <= s /\ Stands(s, u)'
    OBVIOUS
  <2>0. Exists(q, u) => \E s \in RequestId : q <= s /\ Stands(s, u)
    BY DEF ResultInv
  <2>1. CASE u \notin Extracted(found)
    <3>1. \A s \in RequestId : Stands(s, u)' <=> Stands(s, u)
      BY <1>2, <2>1 DEF Stands, Exists
    <3> QED
      BY <1>3, <2>0, <2>1, <3>1
  <2>2. CASE u \in Extracted(found) /\ Newer(r, u)
    <3>1. \A s \in RequestId : s # r => (Stands(s, u)' <=> Stands(s, u))
      BY <1>2, <2>2 DEF Stands, Exists
    <3>2. PICK t \in RequestId : t > r /\ Stands(t, u)
      BY <2>2 DEF Newer, Stands, Exists
    <3>3. CASE Exists(q, u)
      <4>1. PICK s \in RequestId : q <= s /\ Stands(s, u)
        BY <2>0, <3>3
      <4> QED
        BY <1>0, <3>1, <3>2, <4>1
    <3>4. CASE q = r
      BY <1>0, <3>1, <3>2, <3>4
    <3> QED
      BY <1>3, <3>3, <3>4
  <2>3. CASE u \in Extracted(found) /\ ~Newer(r, u)
    <3>1. Stands(r, u)'
      BY <1>2, <2>3 DEF Stands, Exists
    <3>2. q <= r
      BY <1>0, <1>3, <1>5, <2>3
    <3> QED
      BY <3>1, <3>2
  <2> QED
    BY <2>1, <2>2, <2>3
<1>8. \A u \in Url : listing'[u].by > 0 => candidate'[listing'[u].by][u].state = "published"
  <2> SUFFICES ASSUME NEW u \in Url, listing'[u].by > 0
               PROVE  candidate'[listing'[u].by][u].state = "published"
    OBVIOUS
  <2>1. CASE u \in posted
    <3>1. listing'[u].by = r
      BY <2>1 DEF Finish, Shown, posted
    <3> QED
      BY <1>1, <1>2, <2>1, <3>1
  <2>2. CASE u \notin posted
    <3>1. listing'[u].by = listing[u].by
      BY <1>0, <2>2 DEF Finish, Shown, posted, Typed, TypeOK, Listing
    <3>2. listing[u].by \in RequestId /\ candidate[listing[u].by][u].state = "published"
      BY <1>0, <3>1, RequestsAssumption DEF ResultInv, Typed, TypeOK, Listing, RequestId
    <3>3. listing[u].by # r
      BY <1>0, <3>2 DEF ResultInv, Exists
    <3> QED
      BY <1>2, <3>1, <3>2, <3>3
  <2> QED
    BY <2>1, <2>2
<1> QED
  BY <1>4, <1>6, <1>7, <1>8 DEF ResultInv

LEMMA CompleteStays ==
    Typed /\ [Next]_vars =>
        \A r \in RequestId : requests[r].state = "complete" => requests'[r].state = "complete"
<1> SUFFICES ASSUME Typed, [Next]_vars, NEW r \in RequestId, requests[r].state = "complete"
             PROVE  requests'[r].state = "complete"
  OBVIOUS
<1>0. requests \in [RequestId -> Request] /\ issued \in Nat
      /\ \A q \in RequestId : requests[q].state # "none" <=> q <= issued
  BY RequestsAssumption DEF Typed, TypeOK
<1>1. CASE requests' = requests
  BY <1>1
<1>2. ASSUME NEW e, NEW s, Submit(e, s)
      PROVE  requests'[r].state = "complete"
  <2>1. r # issued + 1
    BY <1>0, RequestsAssumption DEF RequestId
  <2> QED
    BY <1>0, <1>1, <1>2, <2>1 DEF Submit
<1>3. ASSUME NEW q \in RequestId, NEW state, requests[q].state # "complete", Finished(q, state)
      PROVE  requests'[r].state = "complete"
  BY <1>0, <1>3 DEF Finished
<1>4. ASSUME NEW q \in RequestId,
             \/ RetryRequest(q) \/ FinishCancelled(q)
             \/ \E found \in [Url -> Outcome] : Finish(q, found)
      PROVE  requests'[r].state = "complete"
  <2>1. requests[q].state # "complete" /\ \E state : Finished(q, state)
    BY <1>4 DEF RetryRequest, FinishCancelled, Finish, Finished
  <2> QED
    BY <1>3, <2>1
<1>5. CASE Revoke
  BY <1>0, <1>5 DEF Revoke
<1> QED
  BY <1>1, <1>2, <1>4, <1>5
  DEF Next, RequestNext, CandidateNext, SourceNext, SubmitRequest, Pause, ChangeMode, Resume,
      ApproveVersion, Assign, ApproveRun, ApproveCandidate, RejectCandidate, Publish, Exclude,
      Lift, WithdrawExcluded, ExpireListing, TakeDown, vars

LEMMA PublishResults ==
    ASSUME ResultInv, NEW r \in RequestId, NEW P \in SUBSET Url, Publish(r, P),
           \A u \in P : Pending(r, u), Typed'
    PROVE  ResultInv'
<1>1. /\ requests' = requests /\ latest' = latest /\ Typed
      /\ \A u \in Url : listing[u].by \in 0..MaxRequests
  BY DEF Publish, ResultInv, Typed, TypeOK, Listing
<1>2. \A q \in RequestId, u \in Url :
         /\ q = r /\ u \in P => /\ candidate'[q][u].state = "published"
                                /\ candidate'[q][u].superseded = candidate[q][u].superseded
         /\ ~(q = r /\ u \in P) => candidate'[q][u] = candidate[q][u]
  <2> SUFFICES ASSUME NEW q \in RequestId, NEW u \in Url
               PROVE  /\ q = r /\ u \in P =>
                            /\ candidate'[q][u].state = "published"
                            /\ candidate'[q][u].superseded = candidate[q][u].superseded
                      /\ ~(q = r /\ u \in P) => candidate'[q][u] = candidate[q][u]
    OBVIOUS
  <2>1. candidate \in [RequestId -> [Url -> Candidate]] /\ candidate[q][u] \in Candidate
    BY <1>1 DEF Typed, TypeOK
  <2>2. [candidate[q][u] EXCEPT !.state = "published"].state = "published"
        /\ [candidate[q][u] EXCEPT !.state = "published"].superseded = candidate[q][u].superseded
    BY <2>1 DEF Candidate
  <2>3. candidate'[q][u] = IF q = r /\ u \in P
                           THEN [candidate[q][u] EXCEPT !.state = "published"]
                           ELSE candidate[q][u]
    BY <2>1 DEF Publish
  <2> QED
    BY <2>2, <2>3
<1>3. \A q \in RequestId, u \in Url :
         /\ Exists(q, u)' <=> Exists(q, u)
         /\ Stands(q, u)' <=> Stands(q, u)
         /\ candidate'[q][u].superseded = candidate[q][u].superseded
  BY <1>2 DEF Exists, Stands, Pending
<1>4. \A q \in RequestId, u \in Url :
         Exists(q, u)' => requests'[q].state = "complete" /\ q <= latest'[u]
  BY <1>1, <1>3 DEF ResultInv
<1>5. OneCurrentResult'
  BY <1>3 DEF ResultInv, OneCurrentResult, Exists
<1>6. \A q \in RequestId, u \in Url :
         Exists(q, u)' => \E s \in RequestId : q <= s /\ Stands(s, u)'
  BY <1>3 DEF ResultInv
<1>7. ASSUME NEW u \in Url, listing'[u].by > 0
      PROVE  candidate'[listing'[u].by][u].state = "published"
  <2>1. CASE u \in P
    BY <1>2, <2>1 DEF Publish
  <2>2. CASE u \notin P
    <3>1. listing'[u].by = listing[u].by
      BY <2>2 DEF Publish
    <3>2. listing[u].by \in RequestId /\ candidate[listing[u].by][u].state = "published"
      BY <1>1, <1>7, <3>1, RequestsAssumption DEF ResultInv, RequestId
    <3> QED
      BY <1>2, <2>2, <3>1, <3>2
  <2> QED
    BY <2>1, <2>2
<1> QED
  BY <1>4, <1>5, <1>6, <1>7 DEF ResultInv

LEMMA ResultStep == ResultInv /\ [Next]_vars => ResultInv'
<1> SUFFICES ASSUME ResultInv, [Next]_vars
             PROVE  ResultInv'
  OBVIOUS
<1>0. /\ Typed /\ Typed'
      /\ \A r \in RequestId : requests[r].state = "complete" => requests'[r].state = "complete"
      /\ candidate \in [RequestId -> [Url -> Candidate]] /\ listing \in [Url -> Listing]
  BY TypedStep, CompleteStays DEF ResultInv, Typed, TypeOK
<1>1. CASE UNCHANGED <<candidate, latest>> /\ \A u \in Url : listing'[u].by = listing[u].by
  BY <1>0, <1>1, KeptResults DEF ResultsKept, Exists
<1>2. ASSUME NEW u \in Url, WithdrawExcluded(u) \/ ExpireListing(u)
      PROVE  ResultInv'
  <2>1. \E state : TakeDown(u, state)
    BY <1>2 DEF WithdrawExcluded, ExpireListing
  <2>2. PICK state : TakeDown(u, state)
    BY <2>1
  <2>3. \A v \in Url : listing'[v].by = listing[v].by
    BY <1>0, <2>2 DEF TakeDown, Listing
  <2> QED
    BY <1>1, <2>2, <2>3 DEF TakeDown
<1>3. ASSUME NEW r \in RequestId, NEW found \in [Url -> Outcome], Finish(r, found)
      PROVE  ResultInv'
  BY <1>0, <1>3, FinishResults
<1>4. ASSUME NEW r \in RequestId, ApproveRun(r) \/ \E u \in Url : ApproveCandidate(r, u)
      PROVE  ResultInv'
  <2>1. \E P \in SUBSET Url : Publish(r, P) /\ \A u \in P : Pending(r, u)
    <3>1. CASE ApproveRun(r)
      <4> DEFINE P == {u \in Url : Pending(r, u) /\ candidate[r][u].valid /\ u \notin excluded}
      <4>1. Publish(r, P) /\ P \in SUBSET Url /\ \A u \in P : Pending(r, u)
        BY <3>1 DEF ApproveRun
      <4> QED
        BY <4>1
    <3>2. ASSUME NEW u \in Url, ApproveCandidate(r, u)
          PROVE  Publish(r, {u}) /\ {u} \in SUBSET Url /\ \A v \in {u} : Pending(r, v)
      BY <3>2 DEF ApproveCandidate
    <3> QED
      BY <1>4, <3>1, <3>2
  <2> QED
    BY <1>0, <2>1, PublishResults
<1>5. ASSUME NEW r \in RequestId, NEW u \in Url, RejectCandidate(r, u)
      PROVE  ResultInv'
  <2>1. candidate' = [candidate EXCEPT ![r] = [candidate[r] EXCEPT ![u] =
                        [candidate[r][u] EXCEPT !.state = "rejected"]]]
    BY <1>5 DEF RejectCandidate
  <2>2. [candidate[r][u] EXCEPT !.state = "rejected"].state = "rejected"
        /\ [candidate[r][u] EXCEPT !.state = "rejected"].superseded = candidate[r][u].superseded
    BY <1>0 DEF Candidate
  <2>3. \A q \in RequestId, v \in Url :
           IF q = r /\ v = u
           THEN candidate'[q][v].state = "rejected"
                /\ candidate'[q][v].superseded = candidate[q][v].superseded
           ELSE candidate'[q][v] = candidate[q][v]
    BY <1>0, <2>1, <2>2
  <2>4. candidate[r][u].state = "pending" /\ UNCHANGED <<requests, listing, latest>>
    BY <1>5 DEF RejectCandidate, Pending
  <2>5. ResultsKept
    BY <2>3, <2>4 DEF ResultsKept, Exists
  <2> QED
    BY <1>0, <2>5, KeptResults
<1>6. CASE Revoke
  <2>1. \A q \in RequestId, v \in Url :
           \/ candidate'[q][v] = candidate[q][v]
           \/ /\ candidate[q][v].state = "pending" /\ candidate'[q][v].state = "cancelled"
              /\ candidate'[q][v].superseded = candidate[q][v].superseded
    BY <1>0, <1>6 DEF Revoke, Candidate
  <2>2. \A v \in Url : listing'[v].by = listing[v].by
    BY <1>0, <1>6 DEF Revoke, Listing
  <2>3. ResultsKept
    BY <1>0, <1>6, <2>1, <2>2 DEF Revoke, ResultsKept, Exists
  <2> QED
    BY <1>0, <2>3, KeptResults
<1> QED
  BY <1>1, <1>2, <1>3, <1>4, <1>5, <1>6
  DEF Next, RequestNext, CandidateNext, SourceNext, SubmitRequest, RetryRequest,
      FinishCancelled, Pause, ChangeMode, Resume, ApproveVersion, Assign, Exclude, Lift,
      results, vars

\* Requests are compared by creation, whatever the order they finish in.
THEOREM ResultInvariant == Spec => []ResultInv
<1> QED
  BY ResultInit, ResultStep, PTL DEF Spec

\* Of two extractions of a page the earlier one is superseded.
THEOREM OneResultStands == Spec => []OneCurrentResult
<1>1. ResultInv => OneCurrentResult
  BY DEF ResultInv
<1> QED
  BY <1>1, ResultInvariant, PTL

-----------------------------------------------------------------------------
(* How the Listing of a page moves.                                        *)

Stays(u) == listing'[u] = listing[u]
TakenDown(u) ==
    /\ listing[u].state = "published" /\ listing'[u].state # "published"
    /\ listing'[u].by = listing[u].by

\* published by an authorized request, than which no candidate is newer
PublishedBy(r, u) ==
    /\ listing'[u].state = "published" /\ listing'[u].by = r
    /\ Authorized(r) /\ requests[r].state # "none" /\ r <= issued
    /\ \A q \in RequestId : Exists(q, u) => q <= r
    /\ source' = source

LEMMA ApprovedIsNewest ==
    ASSUME ResultInv, NEW r \in RequestId, NEW u \in Url, Pending(r, u)
    PROVE  /\ \A q \in RequestId : Exists(q, u) => q <= r
           /\ requests[r].state # "none"
<1>1. RequestId \subseteq Nat
  BY RequestsAssumption DEF RequestId
<1>2. ASSUME NEW q \in RequestId, Exists(q, u)
      PROVE  q <= r
  BY <1>1, <1>2 DEF ResultInv, OneCurrentResult, Pending, Exists
<1> QED
  BY <1>2 DEF ResultInv, Pending, Exists

LEMMA FinishedIsNewest ==
    ASSUME ResultInv, NEW r \in RequestId, NEW u \in Url, ~Newer(r, u)
    PROVE  \A q \in RequestId : Exists(q, u) => q <= r
<1>1. RequestId \subseteq Nat
  BY RequestsAssumption DEF RequestId
<1> SUFFICES ASSUME NEW q \in RequestId, Exists(q, u)
             PROVE  q <= r
  OBVIOUS
<1>2. PICK s \in RequestId : q <= s /\ Stands(s, u)
  BY DEF ResultInv
<1>3. ~(s > r)
  BY <1>2 DEF Newer, Stands, Exists
<1> QED
  BY <1>1, <1>2, <1>3

LEMMA ListingStep ==
    ASSUME ResultInv, [Next]_vars, NEW u \in Url
    PROVE  Stays(u) \/ TakenDown(u) \/ \E r \in RequestId : PublishedBy(r, u)
<1>0. /\ Typed /\ listing \in [Url -> Listing] /\ listing[u] \in Listing
      /\ \A r \in RequestId : requests[r].state # "none" <=> r <= issued
  BY DEF ResultInv, Typed, TypeOK
<1>1. ASSUME NEW v \in Url, WithdrawExcluded(v) \/ ExpireListing(v)
      PROVE  Stays(u) \/ TakenDown(u)
  <2>1. \E state \in {"expired", "unavailable"} : TakeDown(v, state)
    BY <1>1 DEF WithdrawExcluded, ExpireListing
  <2> QED
    BY <1>0, <2>1 DEF TakeDown, Stays, TakenDown, Listing
<1>2. CASE Revoke
  BY <1>0, <1>2 DEF Revoke, Stays, TakenDown, Listing
<1>3. ASSUME NEW r \in RequestId, NEW found \in [Url -> Outcome], Finish(r, found)
      PROVE  Stays(u) \/ TakenDown(u) \/ PublishedBy(r, u)
  <2>1. CASE u \in Posted(r, found)
    <3>1. \A q \in RequestId : Exists(q, u) => q <= r
      BY <2>1, FinishedIsNewest DEF Posted
    <3>2. listing'[u] = [state |-> "published", by |-> r]
      BY <1>3, <2>1 DEF Finish, Shown
    <3> QED
      BY <1>0, <1>3, <3>1, <3>2 DEF Finish, PublishedBy
  <2>2. CASE u \notin Posted(r, found)
    BY <1>0, <1>3, <2>2 DEF Finish, Shown, Stays, TakenDown, Listing
  <2> QED
    BY <2>1, <2>2
<1>4. ASSUME NEW r \in RequestId, ApproveRun(r) \/ \E v \in Url : ApproveCandidate(r, v)
      PROVE  Stays(u) \/ PublishedBy(r, u)
  <2>1. Authorized(r) /\ \E P \in SUBSET Url : Publish(r, P) /\ \A v \in P : Pending(r, v)
    <3>1. CASE ApproveRun(r)
      <4> DEFINE P == {v \in Url : Pending(r, v) /\ candidate[r][v].valid /\ v \notin excluded}
      <4>1. Authorized(r) /\ Publish(r, P) /\ P \in SUBSET Url /\ \A v \in P : Pending(r, v)
        BY <3>1 DEF ApproveRun
      <4> QED
        BY <4>1
    <3>2. ASSUME NEW v \in Url, ApproveCandidate(r, v)
          PROVE  /\ Authorized(r) /\ Publish(r, {v}) /\ {v} \in SUBSET Url
                 /\ \A x \in {v} : Pending(r, x)
      BY <3>2 DEF ApproveCandidate
    <3> QED
      BY <1>4, <3>1, <3>2
  <2>2. PICK P \in SUBSET Url : Publish(r, P) /\ \A v \in P : Pending(r, v)
    BY <2>1
  <2>3. CASE u \in P
    <3>1. /\ \A q \in RequestId : Exists(q, u) => q <= r
          /\ requests[r].state # "none"
      BY <2>2, <2>3, ApprovedIsNewest
    <3> QED
      BY <1>0, <2>1, <2>2, <2>3, <3>1 DEF Publish, PublishedBy
  <2>4. CASE u \notin P
    BY <2>2, <2>4 DEF Publish, Stays
  <2> QED
    BY <2>3, <2>4
<1>5. CASE UNCHANGED listing
  BY <1>5 DEF Stays
<1> QED
  BY <1>1, <1>2, <1>3, <1>4, <1>5
  DEF Next, RequestNext, CandidateNext, SourceNext, SubmitRequest, RetryRequest,
      FinishCancelled, RejectCandidate, Pause, ChangeMode, Resume, ApproveVersion, Assign,
      Exclude, Lift, results, vars

\* What a page's Listing says comes from ever later requests.
THEOREM ContentAdvances == Spec => ContentNeverGoesBack
<1>1. ResultInv /\ [Next]_vars => [\A u \in Url : listing'[u].by >= listing[u].by]_vars
  <2> SUFFICES ASSUME ResultInv, [Next]_vars, NEW u \in Url
               PROVE  listing'[u].by >= listing[u].by
    OBVIOUS
  <2>1. listing[u].by \in 0..MaxRequests /\ RequestId \subseteq Nat
    BY RequestsAssumption DEF ResultInv, Typed, TypeOK, Listing, RequestId
  <2>2. CASE Stays(u) \/ TakenDown(u)
    BY <2>1, <2>2, RequestsAssumption DEF Stays, TakenDown
  <2>3. ASSUME NEW r \in RequestId, PublishedBy(r, u)
        PROVE  listing'[u].by >= listing[u].by
    <3>1. CASE listing[u].by = 0
      BY <2>1, <2>3, <3>1 DEF PublishedBy
    <3>2. CASE listing[u].by > 0
      <4>1. listing[u].by \in RequestId /\ Exists(listing[u].by, u)
        BY <2>1, <3>2, RequestsAssumption DEF ResultInv, Exists, RequestId
      <4> QED
        BY <2>1, <2>3, <4>1 DEF PublishedBy
    <3> QED
      BY <2>1, <3>1, <3>2, RequestsAssumption
  <2> QED
    BY <2>2, <2>3, ListingStep
<1> QED
  BY <1>1, ResultInvariant, PTL DEF Spec, ContentNeverGoesBack

\* Nothing found for a request that was overtaken is ever published.
THEOREM OvertakenPublishNothing == Spec => OvertakenNeverPublish
<1>1. ResultInv /\ AuthorityInv /\ [Next]_vars =>
         [\A u \in Url : Republished(u) => listing'[u].by > fenced]_vars
  <2> SUFFICES ASSUME ResultInv, AuthorityInv, [Next]_vars, NEW u \in Url, Republished(u)
               PROVE  listing'[u].by > fenced
    OBVIOUS
  <2>1. ~Stays(u) /\ ~TakenDown(u)
    BY DEF Republished, Stays, TakenDown
  <2>2. PICK r \in RequestId : PublishedBy(r, u)
    BY <2>1, ListingStep
  <2>3. ~(r <= fenced) /\ r \in Nat /\ fenced \in Nat
    BY <2>2, OvertakenIsUnauthorized, RequestsAssumption
    DEF PublishedBy, ResultInv, Typed, TypeOK, RequestId
  <2> QED
    BY <2>2, <2>3 DEF PublishedBy
<1> QED
  BY <1>1, ResultInvariant, AuthorityInvariant, PTL DEF Spec, OvertakenNeverPublish

\* Without an Operator, only what was requested under the present automatic mode
\* is published, and never a page that was excluded since.
THEOREM AutomaticIsGranted == Spec => AutomaticOnlyWhenGranted
<1> DEFINE Granted(r, u) == candidate[r][u].state = "none" /\ candidate'[r][u].state = "published"
                               => r > switched /\ u \notin excluded /\ r > lifted[u]
<1>1. ResultInv /\ AuthorityInv /\ [Next]_vars => [\A r \in RequestId, u \in Url : Granted(r, u)]_vars
  <2> SUFFICES ASSUME ResultInv, AuthorityInv, [Next]_vars, NEW r \in RequestId, NEW u \in Url,
                      candidate[r][u].state = "none", candidate'[r][u].state = "published"
               PROVE  r > switched /\ u \notin excluded /\ r > lifted[u]
    OBVIOUS
  <2>0. /\ Typed /\ r \in Nat /\ switched \in Nat /\ lifted[u] \in Nat
        /\ candidate \in [RequestId -> [Url -> Candidate]] /\ Numbers
    BY RequestsAssumption, TypedNumbers DEF ResultInv, Typed, TypeOK, RequestId
  <2>1. ASSUME NEW q \in RequestId, NEW found \in [Url -> Outcome], Finish(q, found)
        PROVE  r > switched /\ u \notin excluded /\ r > lifted[u]
    <3>1. candidate'[r][u] = Replaced(q, found, Posted(q, found))[r][u]
      BY <2>1 DEF Finish
    <3>2. q = r /\ u \in Posted(r, found)
      BY <2>0, <3>1, ReplacedCandidates
    <3>3. /\ requests[r].grant.mode = source.grant.mode /\ ~Held(r, u) /\ Authorized(r)
      BY <2>1, <3>2 DEF Posted, Finish
    <3>4. ~(r <= switched)
      BY <2>0, <3>3, OvertakenIsUnauthorized DEF AuthorityInv, Numbers
    <3> QED
      BY <2>0, <3>3, <3>4 DEF Held
  <2>2. ASSUME NEW q \in RequestId, NEW P \in SUBSET Url, Publish(q, P),
               \A v \in P : Pending(q, v)
        PROVE  FALSE
    BY <2>0, <2>2 DEF Publish, Pending
  <2>3. ASSUME NEW q \in RequestId, ApproveRun(q) \/ \E v \in Url : ApproveCandidate(q, v)
        PROVE  FALSE
    <3>1. CASE ApproveRun(q)
      <4> DEFINE P == {v \in Url : Pending(q, v) /\ candidate[q][v].valid /\ v \notin excluded}
      <4>1. Publish(q, P) /\ P \in SUBSET Url /\ \A v \in P : Pending(q, v)
        BY <3>1 DEF ApproveRun
      <4> QED
        BY <2>2, <4>1
    <3>2. ASSUME NEW v \in Url, ApproveCandidate(q, v)
          PROVE  FALSE
      <4>1. Publish(q, {v}) /\ {v} \in SUBSET Url /\ \A x \in {v} : Pending(q, x)
        BY <3>2 DEF ApproveCandidate
      <4> QED
        BY <2>2, <4>1
    <3> QED
      BY <2>3, <3>1, <3>2
  <2>4. ASSUME NEW q \in RequestId, NEW v \in Url, RejectCandidate(q, v)
        PROVE  FALSE
    <3>1. candidate[q][v] \in Candidate /\ candidate[q][v].state = "pending"
      BY <2>0, <2>4 DEF RejectCandidate, Pending
    <3>2. [candidate[q][v] EXCEPT !.state = "rejected"].state = "rejected"
      BY <3>1 DEF Candidate
    <3> QED
      BY <2>0, <2>4, <3>1, <3>2 DEF RejectCandidate
  <2>5. ~Revoke
    BY <2>0 DEF Revoke
  <2>6. candidate' # candidate
    OBVIOUS
  <2> QED
    BY <2>1, <2>3, <2>4, <2>5, <2>6
    DEF Next, RequestNext, CandidateNext, SourceNext, SubmitRequest, RetryRequest,
        FinishCancelled, Pause, ChangeMode, Resume, ApproveVersion, Assign, Exclude, Lift,
        WithdrawExcluded, ExpireListing, TakeDown, results, vars
<1> QED
  BY <1>1, ResultInvariant, AuthorityInvariant, PTL DEF Spec, AutomaticOnlyWhenGranted

\* Evidence older than what the Listing shows does not take it down.
THEOREM OlderEvidenceHidesNothing == Spec => OlderEvidenceNeverHides
<1> DEFINE Justified(u) == listing[u].state = "published" /\ listing'[u].state = "unavailable" =>
              \/ ~source'.active
              \/ u \in excluded
              \/ \E r \in RequestId : r >= listing[u].by /\ u \in withdrawals'[r]
<1>1. ResultInv /\ [Next]_vars => [\A u \in Url : Justified(u)]_vars
  <2> SUFFICES ASSUME ResultInv, [Next]_vars, NEW u \in Url,
                      listing[u].state = "published", listing'[u].state = "unavailable"
               PROVE  \/ ~source'.active
                      \/ u \in excluded
                      \/ \E r \in RequestId : r >= listing[u].by /\ u \in withdrawals'[r]
    OBVIOUS
  <2>0. /\ Typed /\ listing \in [Url -> Listing] /\ RequestId \subseteq Nat
        /\ withdrawals \in [RequestId -> SUBSET Url] /\ latest[u] \in Nat
        /\ listing[u].by \in 0..MaxRequests
    BY RequestsAssumption DEF ResultInv, Typed, TypeOK, RequestId, Listing
  <2>1. listing[u].by <= latest[u]
    <3>1. CASE listing[u].by = 0
      BY <2>0, <3>1
    <3>2. CASE listing[u].by > 0
      <4>1. listing[u].by \in RequestId /\ Exists(listing[u].by, u)
        BY <2>0, <3>2, RequestsAssumption DEF ResultInv, Exists, RequestId
      <4> QED
        BY <4>1 DEF ResultInv
    <3> QED
      BY <2>0, <3>1, <3>2, RequestsAssumption
  <2>2. ASSUME NEW r \in RequestId, NEW found \in [Url -> Outcome], Finish(r, found)
        PROVE  r >= listing[u].by /\ u \in withdrawals'[r]
    <3>1. u \in Gone(r, found)
      BY <2>0, <2>2 DEF Finish, Shown, Listing
    <3>2. withdrawals'[r] = Gone(r, found)
      BY <2>0, <2>2 DEF Finish
    <3> QED
      BY <2>0, <2>1, <3>1, <3>2, RequestsAssumption DEF Gone
  <2>3. ASSUME NEW r \in RequestId, ApproveRun(r) \/ \E v \in Url : ApproveCandidate(r, v)
        PROVE  FALSE
    BY <2>3 DEF ApproveRun, ApproveCandidate, Publish
  <2>4. ASSUME NEW v \in Url, WithdrawExcluded(v)
        PROVE  u \in excluded
    BY <2>0, <2>4 DEF WithdrawExcluded, TakeDown, Listing
  <2>5. ASSUME NEW v \in Url, ExpireListing(v)
        PROVE  FALSE
    BY <2>0, <2>5 DEF ExpireListing, TakeDown, Listing
  <2>6. Revoke => ~source'.active
    BY SourceStep, <2>0 DEF Row
  <2>7. listing' # listing
    OBVIOUS
  <2> QED
    BY <2>2, <2>3, <2>4, <2>5, <2>6, <2>7
    DEF Next, RequestNext, CandidateNext, SourceNext, SubmitRequest, RetryRequest,
        FinishCancelled, RejectCandidate, Pause, ChangeMode, Resume, ApproveVersion, Assign,
        Exclude, Lift, results, vars
<1> QED
  BY <1>1, ResultInvariant, PTL DEF Spec, OlderEvidenceNeverHides

-----------------------------------------------------------------------------
(* Live Listings.                                                          *)

\* As long as it is active, the Source keeps its assignment.
LEMMA AssignmentStays ==
    Typed /\ [Next]_vars /\ source.active /\ ~Revoke =>
        source'.active /\ source'.grant.assignment = source.grant.assignment
<1> SUFFICES ASSUME Typed, [Next]_vars, source.active, ~Revoke
             PROVE  source'.active /\ source'.grant.assignment = source.grant.assignment
  OBVIOUS
<1> DEFINE g == source.grant
<1>1. CASE source' = source
  BY <1>1
<1>2. CASE Pause \/ ChangeMode
  <2>1. \/ Row(TRUE, TRUE, g.assignment, g.version, g.processing + 1, g.mode)
        \/ Row(TRUE, source.paused, g.assignment, g.version, g.processing, g.mode + 1)
    BY <1>2, SourceStep
  <2> QED
    BY <2>1 DEF Row, Has
<1>3. ASSUME NEW b \in BOOLEAN, Resume(b) \/ ApproveVersion(b)
      PROVE  source'.active /\ source'.grant.assignment = source.grant.assignment
  <2>1. \/ Row(TRUE, FALSE, g.assignment, g.version, g.processing + 1, g.mode + 1)
        \/ Row(TRUE, source.paused, g.assignment, g.version + 1, g.processing + 1, 0)
    BY <1>3, SourceStep
  <2> QED
    BY <2>1 DEF Row, Has
<1> QED
  BY <1>1, <1>2, <1>3
  DEF Next, RequestNext, CandidateNext, SourceNext, SubmitRequest, RetryRequest, FinishCancelled,
      Finish, ApproveRun, ApproveCandidate, RejectCandidate, Publish, Assign, Exclude, Lift,
      WithdrawExcluded, ExpireListing, TakeDown, vars

LEMMA LiveStep ==
    ResultInv /\ LiveOnlyUnderAssignment /\ [Next]_vars => LiveOnlyUnderAssignment'
<1> SUFFICES ASSUME ResultInv, LiveOnlyUnderAssignment, [Next]_vars, NEW u \in Url,
                    listing'[u].state = "published"
             PROVE  source'.active /\ listing'[u].by \in OwnedBy(source.grant.assignment)'
  BY DEF LiveOnlyUnderAssignment
<1>0. Typed /\ Typed' /\ RequestsAdvance
  BY TypedStep, RequestsStep DEF ResultInv
<1>1. OwnedBy(source.grant.assignment) \subseteq RequestId
  BY DEF OwnedBy
<1>2. ASSUME NEW r \in OwnedBy(source.grant.assignment),
             source'.grant.assignment = source.grant.assignment
      PROVE  r \in OwnedBy(source.grant.assignment)'
  <2>1. r \in Nat /\ issued \in Nat /\ issued' \in Nat /\ r <= issued
    BY <1>0, <1>1, <1>2, RequestsAssumption DEF Typed, TypeOK, RequestId, OwnedBy
  <2>2. requests'[r].grant = requests[r].grant /\ r <= issued'
    BY <1>0, <1>1, <1>2, <2>1 DEF RequestsAdvance
  <2>3. requests'[r].state # "none"
    BY <1>0, <1>1, <2>2 DEF Typed, TypeOK
  <2> QED
    BY <1>1, <1>2, <2>2, <2>3 DEF OwnedBy
<1>3. CASE Stays(u)
  <2>1. source.active /\ listing[u].by \in OwnedBy(source.grant.assignment)
    BY <1>3 DEF Stays, LiveOnlyUnderAssignment
  <2>2. ~Revoke
    <3> SUFFICES ASSUME Revoke
                 PROVE  FALSE
      OBVIOUS
    <3>1. listing[u].by > 0 /\ listing[u].state = "published"
      BY <1>1, <1>3, <2>1, RequestsAssumption DEF Stays, RequestId
    <3>2. candidate[listing[u].by][u].state = "published"
      BY <3>1 DEF ResultInv
    <3>3. listing'[u] = [listing[u] EXCEPT !.state = "unavailable"]
      BY <2>1, <3>1, <3>2 DEF Revoke
    <3> QED
      BY <1>0, <1>3, <3>1, <3>3 DEF Stays, Typed, TypeOK, Listing
  <2> QED
    BY <1>0, <1>2, <1>3, <2>1, <2>2, AssignmentStays DEF Stays
<1>4. ASSUME NEW r \in RequestId, PublishedBy(r, u)
      PROVE  source'.active /\ listing'[u].by \in OwnedBy(source.grant.assignment)'
  <2>1. r \in OwnedBy(source.grant.assignment) /\ source' = source /\ source.active
    BY <1>4 DEF PublishedBy, Authorized, OwnedBy
  <2> QED
    BY <1>2, <1>4, <2>1 DEF PublishedBy
<1>5. ~TakenDown(u)
  BY DEF TakenDown
<1> QED
  BY <1>3, <1>4, <1>5, ListingStep

\* A revoked assignment leaves nothing live, whatever superseded its results.
THEOREM LiveIsAssigned == Spec => []LiveOnlyUnderAssignment
<1>1. Init => LiveOnlyUnderAssignment
  BY DEF Init, LiveOnlyUnderAssignment
<1> QED
  BY <1>1, LiveStep, ResultInvariant, PTL DEF Spec

-----------------------------------------------------------------------------
(* What the runs check, from the parts proved above.                        *)

\* What is live is live under the assignment in force, and neither an
\* overtaken request nor an automatic publication nobody granted puts it there.
THEOREM AuthorityIsKept == Spec => PublicationIsAuthorized
<1> QED
  BY TypeCorrect, LiveIsAssigned, OvertakenPublishNothing, AutomaticIsGranted, PTL
  DEF PublicationIsAuthorized

\* A page has one result in force, and its Listing never shows an older one
\* after a newer.
THEOREM ResultsStand == Spec => ContentStands
<1> QED
  BY TypeCorrect, OneResultStands, ContentAdvances, PTL DEF ContentStands

=============================================================================
