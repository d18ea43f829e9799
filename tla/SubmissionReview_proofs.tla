----------------------- MODULE SubmissionReview_proofs -----------------------
(***************************************************************************)
(* Theorems about SubmissionReview for every set of Operators and claims,  *)
(* every claim duration and every bound on revisions and late requests;    *)
(* and about SubmissionImages for every number of images and workers.      *)
(***************************************************************************)
EXTENDS SubmissionReview, SubmissionImages, FiniteSetTheorems, FunctionTheorems,
        SequenceTheorems, TLAPS

USE ClaimDurationAssumption, MaxRevisionAssumption, NoClaimAssumption

-----------------------------------------------------------------------------
(* Typing.                                                                 *)

LEMMA ElapsedType ==
    ASSUME NEW n \in 0..ClaimDuration
    PROVE  Elapsed(n) \in 0..ClaimDuration
BY DEF Elapsed

LEMMA ClosingType ==
    ASSUME claims \in [ClaimId -> ReviewClaim], NEW C
    PROVE  Closing(C) \in [ClaimId -> ReviewClaim]
BY DEF Closing, ReviewClaim

LEMMA TypeInit == Init => TypeOK
<1> SUFFICES ASSUME Init
             PROVE  TypeOK
  OBVIOUS
<1>1. claims \in [ClaimId -> ReviewClaim]
  BY DEF Init, ReviewClaim, Users
<1>2. 0 \in 0..MaxRevision /\ 1 \in 1..MaxRevision
  OBVIOUS
<1> QED
  BY <1>1, <1>2 DEF Init, TypeOK, SubmissionState, ListingState

LEMMA TypeStep == TypeOK /\ [Next]_vars => TypeOK'
<1> SUFFICES ASSUME TypeOK, [Next]_vars
             PROVE  TypeOK'
  OBVIOUS
<1> USE DEF TypeOK
<1>1. CASE SaveStep
  BY <1>1 DEF SaveStep, Served, Event, SubmissionEvent, SubmissionState, Decisions,
              Users, publication
<1>2. CASE RequestContactVerification
  BY <1>2 DEF RequestContactVerification, Served, publication
<1>3. CASE VerifyContact
  BY <1>3 DEF VerifyContact, Served, publication
<1>4. CASE SubmitForReview
  BY <1>4 DEF SubmitForReview, Served, Event, SubmissionEvent, SubmissionState,
              Users, publication
<1>5. ASSUME NEW L \in SUBSET SubmitterRequest, Discard(L)
      PROVE  TypeOK'
  BY <1>5 DEF Discard, publication
<1>6. CASE ConfirmAvailability \/ MarkUnavailable \/ ArchiveListing \/ ExpireListing
  BY <1>6 DEF ConfirmAvailability, MarkUnavailable, ArchiveListing, ExpireListing,
              ListingMoves, Served, ListingState, submission
<1>7. ASSUME NEW o \in Operators, NEW c \in ClaimId,
             BeginClaim(o, c) \/ BeginRenew(o, c) \/ BeginRelease(o, c)
      PROVE  TypeOK'
  BY <1>7 DEF BeginClaim, BeginRenew, BeginRelease, Locks, Transaction, OpenClaims,
              submission, publication
<1>8. ASSUME NEW o \in Operators, NEW c \in ClaimId, NEW outcome \in Decisions,
             NEW reviewed \in 1..MaxRevision, BeginDecision(outcome, o, c, reviewed)
      PROVE  TypeOK'
  BY <1>8 DEF BeginDecision, Locks, Transaction, submission, publication
<1>9. CASE CommitClaim
  <2>1. tx \in Transaction /\ claims' = [Closing(tx.stale) EXCEPT ![tx.claim] =
                  [status |-> "open", operator |-> tx.actor,
                   revision |-> revision, left |-> tx.left]]
    BY <1>9 DEF CommitClaim
  <2>2. claims' \in [ClaimId -> ReviewClaim]
    BY <2>1, ClosingType DEF Transaction, ReviewClaim, Users
  <2> QED
    BY <1>9, <2>2 DEF CommitClaim, submission, publication
<1>10. CASE CommitRenew
  <2>1. tx \in Transaction /\ claims' = [claims EXCEPT ![tx.claim].left = tx.left]
    BY <1>10 DEF CommitRenew
  <2>2. claims' \in [ClaimId -> ReviewClaim]
    BY <2>1 DEF Transaction, ReviewClaim
  <2> QED
    BY <1>10, <2>2 DEF CommitRenew, submission, publication
<1>11. CASE CommitRelease
  BY <1>11, ClosingType DEF CommitRelease, submission, publication
<1>12. CASE CommitDecision
  <2>1. tx \in Transaction /\ tx.op \in Decisions
    BY <1>12 DEF CommitDecision, Decides
  <2>2. Event(revision, tx.op, tx.actor, tx.claim) \in SubmissionEvent
    BY <2>1 DEF Event, SubmissionEvent, SubmissionState, Transaction, Users
  <2>3. listing' \in ListingState /\ shown' \in 0..MaxRevision
    BY <1>12 DEF CommitDecision, Decides, ListingState, publication
  <2> QED
    BY <1>12, <2>1, <2>2, <2>3, ClosingType DEF CommitDecision, Decides, SubmissionState
<1>13. CASE Rollback \/ SweepRead
  BY <1>13 DEF Rollback, SweepRead, OpenClaims, submission, publication
<1>14. ASSUME NEW c \in ClaimId, SweepSave(c)
       PROVE  TypeOK'
  BY <1>14, ClosingType DEF SweepSave, submission, publication
<1>15. CASE AccountPhoneChanges \/ DraftMediaChanges
  BY <1>15 DEF AccountPhoneChanges, DraftMediaChanges, publication
<1>16. ASSUME NEW o \in Operators,
              GainCapability(o) \/ \E L \in SUBSET {o} : LoseCapability(o, L)
       PROVE  TypeOK'
  BY <1>16 DEF GainCapability, LoseCapability, submission, publication
<1>17. CASE Tick
  <2>1. claims' \in [ClaimId -> ReviewClaim]
    BY <1>17, ElapsedType DEF Tick, ReviewClaim
  <2>2. tx' = NoTx \/ tx' \in Transaction
    BY <1>17, ElapsedType DEF Tick, Transaction
  <2> QED
    BY <1>17, <2>1, <2>2 DEF Tick, submission, publication
<1>18. CASE UNCHANGED vars
  BY <1>18 DEF vars, submission, publication
<1> QED
  BY <1>1, <1>2, <1>3, <1>4, <1>5, <1>6, <1>7, <1>8, <1>9, <1>10, <1>11, <1>12, <1>13,
     <1>14, <1>15, <1>16, <1>17, <1>18
  DEF Next, SubmitterNext, OperatorNext, EnvironmentNext

\* Every column and every transaction keeps its type.
THEOREM TypeCorrect == Spec => []TypeOK
<1>1. Init => TypeOK
  BY TypeInit
<1>2. TypeOK /\ [Next]_vars => TypeOK'
  BY TypeStep
<1> QED
  BY <1>1, <1>2, PTL DEF Spec

-----------------------------------------------------------------------------
(* The inductive invariant of the review.                                  *)

\* What an Operator's checks established still holds when the writes come,
\* except that a sweep may have closed claims meanwhile: the Submission is
\* pending; the row to insert is new, and it replaces every open claim; the
\* claim a decision rests on is its Operator's, and the only one.
TxWellFormed ==
    tx # NoTx =>
        /\ state = "pending"
        /\ tx.actor # Submitter
        /\ IF tx.op = "claim"
           THEN claims[tx.claim].status = "unused" /\ OpenClaims \subseteq tx.stale
           ELSE claims[tx.claim].status # "unused"
        /\ tx.op \in Decisions =>
              /\ claims[tx.claim].operator = tx.actor
              /\ claims[tx.claim].revision = revision
              /\ OpenClaims \subseteq {tx.claim}

\* A sweep only ever holds rows that exist.
SweepWellFormed == \A c \in sweep : claims[c].status # "unused"

ReviewInv ==
    /\ TypeOK
    /\ OneResponsibleOperator
    /\ DecisionsAreClaimed
    /\ OneDecisionPerRevision
    /\ HistoryTellsState
    /\ TxWellFormed
    /\ SweepWellFormed

LEMMA ReviewInit == Init => ReviewInv
<1> SUFFICES ASSUME Init
             PROVE  ReviewInv
  OBVIOUS
<1>1. OpenClaims = {} /\ DecisionEvents = {}
  BY DEF Init, OpenClaims, DecisionEvents
<1> QED
  BY <1>1, TypeInit DEF Init, ReviewInv, OneResponsibleOperator, DecisionsAreClaimed,
     OneDecisionPerRevision, HistoryTellsState, TxWellFormed, SweepWellFormed, Decisions

\* A step that only closes claims, and at most ends or ages the transaction,
\* preserves the invariant: this is what makes the unlocked sweep harmless.
LEMMA ClosingPreserves ==
    ASSUME ReviewInv, TypeOK',
           UNCHANGED <<state, revision, events>>,
           \A c \in ClaimId :
              /\ claims'[c].operator = claims[c].operator
              /\ claims'[c].revision = claims[c].revision
              /\ \/ claims'[c].status = claims[c].status
                 \/ claims[c].status # "unused" /\ claims'[c].status = "closed",
           tx' # NoTx => /\ tx # NoTx /\ tx'.op = tx.op /\ tx'.actor = tx.actor
                         /\ tx'.claim = tx.claim /\ tx'.stale = tx.stale,
           \A c \in sweep' : claims[c].status # "unused"
    PROVE  ReviewInv'
<1> USE DEF ReviewInv
<1>1. OpenClaims' \subseteq OpenClaims
  BY DEF OpenClaims
<1>2. OneResponsibleOperator'
  BY <1>1 DEF OneResponsibleOperator, OpenClaims
<1>3. DecisionEvents' = DecisionEvents
  BY DEF DecisionEvents
<1>4. DecisionsAreClaimed'
  BY <1>3 DEF DecisionsAreClaimed
<1>5. OneDecisionPerRevision' /\ HistoryTellsState'
  BY <1>3 DEF OneDecisionPerRevision, HistoryTellsState
<1>6. TxWellFormed'
  BY <1>1 DEF TxWellFormed, TypeOK, Transaction
<1>7. SweepWellFormed'
  BY DEF SweepWellFormed, TypeOK
<1> QED
  BY <1>2, <1>4, <1>5, <1>6, <1>7

\* Editing a returned or published revision opens a fresh one: no event speaks
\* of it yet, and no claim is open while nothing is pending.
LEMMA SaveStepPreserves ==
    ASSUME ReviewInv, TypeOK', SaveStep
    PROVE  ReviewInv'
<1> USE DEF ReviewInv
<1>1. CASE state = "draft"
  BY <1>1, ClosingPreserves DEF SaveStep, SweepWellFormed
<1>2. CASE state # "draft"
  <2>1. /\ state \in {"changes_requested", "published"} /\ state' = "draft"
        /\ revision' = revision + 1 /\ revision \in Nat
        /\ events' = events \cup {Event(revision + 1, "draft", Submitter, NoClaim)}
        /\ UNCHANGED <<claims, tx, sweep>> /\ tx = NoTx
    BY <1>2 DEF SaveStep, TypeOK, SubmissionState, Decisions
  <2>2. OpenClaims = {} /\ OpenClaims' = {}
    BY <2>1 DEF OneResponsibleOperator, OpenClaims
  <2>3. DecisionEvents' = DecisionEvents
    BY <2>1 DEF DecisionEvents, Event, Decisions
  <2>4. OneResponsibleOperator' /\ TxWellFormed' /\ SweepWellFormed'
    BY <2>1, <2>2 DEF OneResponsibleOperator, TxWellFormed, SweepWellFormed
  <2>5. DecisionsAreClaimed' /\ OneDecisionPerRevision'
    BY <2>1, <2>3 DEF DecisionsAreClaimed, OneDecisionPerRevision
  <2>6. \A e \in events' : e.revision <= revision'
    BY <2>1 DEF HistoryTellsState, Event, TypeOK, SubmissionEvent
  <2>7. \A e \in events' : e.revision = revision' => e.new_state = "draft"
    BY <2>1 DEF HistoryTellsState, Event, TypeOK, SubmissionEvent
  <2>8. HistoryTellsState'
    BY <2>1, <2>6, <2>7 DEF HistoryTellsState, Decisions
  <2> QED
    BY <2>4, <2>5, <2>8
<1> QED
  BY <1>1, <1>2

\* A submitted revision has no decision yet: it was a fresh draft.
LEMMA SubmitPreserves ==
    ASSUME ReviewInv, TypeOK', SubmitForReview
    PROVE  ReviewInv'
<1> USE DEF ReviewInv
<1>1. /\ state = "draft" /\ state' = "pending"
      /\ revision' = revision /\ revision \in Nat
      /\ events' = events \cup {Event(revision, "pending", Submitter, NoClaim)}
      /\ UNCHANGED <<claims, tx, sweep>> /\ tx = NoTx
  BY DEF SubmitForReview, TypeOK
<1>2. OpenClaims = {} /\ OpenClaims' = {}
  BY <1>1 DEF OneResponsibleOperator, OpenClaims
<1>3. DecisionEvents' = DecisionEvents
  BY <1>1 DEF DecisionEvents, Event, Decisions
<1>4. OneResponsibleOperator' /\ TxWellFormed' /\ SweepWellFormed'
  BY <1>1, <1>2 DEF OneResponsibleOperator, TxWellFormed, SweepWellFormed
<1>5. DecisionsAreClaimed' /\ OneDecisionPerRevision'
  BY <1>1, <1>3 DEF DecisionsAreClaimed, OneDecisionPerRevision
<1>6. \A e \in events' : e.revision <= revision'
  BY <1>1 DEF HistoryTellsState, Event
<1>7. \A e \in events' : e.revision = revision' => e.new_state \notin Decisions
  BY <1>1 DEF HistoryTellsState, Event, Decisions
<1>8. \E e \in events' : e.revision = revision' /\ e.new_state = "pending"
  <2> DEFINE submitted == Event(revision, "pending", Submitter, NoClaim)
  <2>1. submitted \in events'
    BY <1>1
  <2>2. submitted.revision = revision' /\ submitted.new_state = "pending"
    BY <1>1 DEF Event
  <2> HIDE DEF submitted
  <2> QED
    BY <2>1, <2>2
<1>9. HistoryTellsState'
  BY <1>1, <1>6, <1>7, <1>8 DEF HistoryTellsState, Decisions
<1> QED
  BY <1>4, <1>5, <1>9

\* The checks of a transaction establish what its commit relies on.
LEMMA BeginPreserves ==
    ASSUME ReviewInv, TypeOK', NEW o \in Operators, NEW c \in ClaimId,
           \/ BeginClaim(o, c) \/ BeginRenew(o, c) \/ BeginRelease(o, c)
           \/ \E outcome \in Decisions, reviewed \in 1..MaxRevision :
                 BeginDecision(outcome, o, c, reviewed)
    PROVE  ReviewInv'
<1> USE DEF ReviewInv
<1>1. UNCHANGED <<state, revision, events, claims, sweep>> /\ tx'.actor = o /\ tx'.claim = c
  BY DEF BeginClaim, BeginRenew, BeginRelease, BeginDecision, Locks, submission
<1>2. OpenClaims' = OpenClaims /\ DecisionEvents' = DecisionEvents
  BY <1>1 DEF OpenClaims, DecisionEvents
<1>3. /\ OneResponsibleOperator' /\ DecisionsAreClaimed' /\ OneDecisionPerRevision'
      /\ HistoryTellsState' /\ SweepWellFormed'
  BY <1>1, <1>2 DEF OneResponsibleOperator, DecisionsAreClaimed, OneDecisionPerRevision,
     HistoryTellsState, SweepWellFormed
<1>4. TxWellFormed'
  <2>1. CASE BeginClaim(o, c)
    BY <2>1, <1>1, <1>2 DEF BeginClaim, Locks, TxWellFormed, Decisions
  <2>2. CASE BeginRenew(o, c) \/ BeginRelease(o, c)
    BY <2>2, <1>1, <1>2 DEF BeginRenew, BeginRelease, Locks, Holds, TxWellFormed, Decisions,
       OpenClaims, OneResponsibleOperator
  <2>3. ASSUME NEW outcome \in Decisions, NEW reviewed \in 1..MaxRevision,
               BeginDecision(outcome, o, c, reviewed)
        PROVE  TxWellFormed'
    <3>1. c \in OpenClaims /\ OpenClaims \subseteq {c}
      BY <2>3 DEF BeginDecision, Holds, OneResponsibleOperator
    <3> QED
      BY <2>3, <3>1, <1>1, <1>2 DEF BeginDecision, Locks, Holds, TxWellFormed, Decisions,
         OpenClaims
  <2> QED
    BY <2>1, <2>2, <2>3
<1> QED
  BY <1>3, <1>4

\* The inserted claim replaces every open one: nobody else had slipped in.
LEMMA CommitClaimPreserves ==
    ASSUME ReviewInv, TypeOK', CommitClaim
    PROVE  ReviewInv'
<1> USE DEF ReviewInv
<1>1. /\ tx \in Transaction /\ tx.op = "claim" /\ tx' = NoTx /\ tx # NoTx
      /\ tx.claim \in ClaimId /\ tx.actor # Submitter
      /\ state = "pending" /\ claims[tx.claim].status = "unused"
      /\ OpenClaims \subseteq tx.stale
      /\ UNCHANGED <<state, revision, events, sweep>>
  BY DEF CommitClaim, TxWellFormed, TypeOK, Transaction, submission
<1>2. claims'[tx.claim] = [status |-> "open", operator |-> tx.actor,
                           revision |-> revision, left |-> tx.left]
  BY <1>1 DEF CommitClaim, Closing
<1>3. \A c \in ClaimId \ {tx.claim} :
         claims'[c] = IF c \in tx.stale THEN [claims[c] EXCEPT !.status = "closed"] ELSE claims[c]
  BY <1>1 DEF CommitClaim, Closing
<1>4. OpenClaims' = {tx.claim}
  BY <1>1, <1>2, <1>3 DEF OpenClaims, TypeOK, ReviewClaim
<1>5. OneResponsibleOperator'
  BY <1>1, <1>2, <1>4 DEF OneResponsibleOperator
<1>6. DecisionEvents' = DecisionEvents
  BY <1>1 DEF DecisionEvents
<1>7. \A c \in ClaimId : claims[c].status = "closed" =>
         /\ claims'[c].status = "closed"
         /\ claims'[c].operator = claims[c].operator
         /\ claims'[c].revision = claims[c].revision
  BY <1>1, <1>3 DEF TypeOK, ReviewClaim
<1>8. DecisionsAreClaimed' /\ OneDecisionPerRevision' /\ HistoryTellsState'
  BY <1>1, <1>6, <1>7 DEF DecisionsAreClaimed, OneDecisionPerRevision, HistoryTellsState
<1>9. SweepWellFormed'
  BY <1>1, <1>2, <1>3 DEF SweepWellFormed, TypeOK, ReviewClaim
<1>10. TxWellFormed'
  BY <1>1 DEF TxWellFormed
<1> QED
  BY <1>5, <1>8, <1>9, <1>10

\* A decision ends the only claim there is, and is the revision's first.
LEMMA CommitDecisionPreserves ==
    ASSUME ReviewInv, TypeOK', CommitDecision
    PROVE  ReviewInv'
<1> USE DEF ReviewInv
<1> DEFINE decision == Event(revision, tx.op, tx.actor, tx.claim)
<1>1. /\ tx \in Transaction /\ tx.op \in Decisions /\ tx' = NoTx /\ tx # NoTx
      /\ tx.claim \in ClaimId /\ tx.actor # Submitter /\ state = "pending"
      /\ claims[tx.claim].status # "unused"
      /\ claims[tx.claim].operator = tx.actor /\ claims[tx.claim].revision = revision
      /\ OpenClaims \subseteq {tx.claim}
      /\ state' = tx.op /\ events' = events \cup {decision}
      /\ claims' = Closing({tx.claim}) /\ UNCHANGED <<revision, sweep>>
  BY DEF CommitDecision, Decides, TxWellFormed, TypeOK, Transaction, Decisions
<1>2. \A c \in ClaimId :
         /\ claims'[c].operator = claims[c].operator
         /\ claims'[c].revision = claims[c].revision
         /\ claims'[c].status = IF c = tx.claim THEN "closed" ELSE claims[c].status
  BY <1>1 DEF Closing, TypeOK, ReviewClaim
<1>3. OpenClaims' = {}
  BY <1>1, <1>2 DEF OpenClaims
<1>4. /\ decision.revision = revision /\ decision.new_state = tx.op
      /\ decision.actor = tx.actor /\ decision.claim = tx.claim
  BY DEF Event
<1>5. DecisionEvents' = DecisionEvents \cup {decision}
  BY <1>1, <1>4 DEF DecisionEvents
<1>6. \A e \in DecisionEvents : e.revision # revision
  BY <1>1 DEF HistoryTellsState, DecisionEvents
<1>7. OneDecisionPerRevision'
  BY <1>4, <1>5, <1>6 DEF OneDecisionPerRevision
<1>8. \E f \in events : f.revision = revision /\ f.new_state = "pending"
  BY <1>1 DEF HistoryTellsState
<1>9. DecisionsAreClaimed'
  <2> SUFFICES ASSUME NEW e \in DecisionEvents'
               PROVE  /\ e.actor # Submitter /\ e.claim \in ClaimId
                      /\ claims'[e.claim].operator = e.actor
                      /\ claims'[e.claim].revision = e.revision
                      /\ claims'[e.claim].status = "closed"
                      /\ \E f \in events' : f.revision = e.revision /\ f.new_state = "pending"
    BY DEF DecisionsAreClaimed
  <2> HIDE DEF decision
  <2>1. events \subseteq events'
    BY <1>1
  <2>2. CASE e = decision
    BY <1>1, <1>2, <1>4, <1>8, <2>1, <2>2
  <2>3. CASE e \in DecisionEvents
    BY <1>2, <2>1, <2>3 DEF DecisionsAreClaimed
  <2> QED
    BY <1>5, <2>2, <2>3
<1>10. HistoryTellsState'
  <2>1. state' \in {e.new_state : e \in {f \in events' : f.revision = revision'}}
    BY <1>1, <1>4
  <2>2. \A e \in events' : e.revision <= revision'
    BY <1>1, <1>4 DEF HistoryTellsState, TypeOK
  <2> QED
    BY <1>1, <2>1, <2>2 DEF HistoryTellsState, Decisions
<1>11. OneResponsibleOperator' /\ TxWellFormed' /\ SweepWellFormed'
  BY <1>1, <1>2, <1>3 DEF OneResponsibleOperator, TxWellFormed, SweepWellFormed, TypeOK
<1> QED
  BY <1>7, <1>9, <1>10, <1>11

LEMMA ReviewStep == ReviewInv /\ [Next]_vars => ReviewInv'
<1> SUFFICES ASSUME ReviewInv, [Next]_vars
             PROVE  ReviewInv'
  OBVIOUS
<1>0. TypeOK'
  BY TypeStep DEF ReviewInv
<1>1. CASE SaveStep
  BY <1>0, <1>1, SaveStepPreserves
<1>2. CASE SubmitForReview
  BY <1>0, <1>2, SubmitPreserves
<1>3. ASSUME UNCHANGED <<state, revision, events, claims, tx, sweep>>
      PROVE  ReviewInv'
  BY <1>0, <1>3, ClosingPreserves DEF ReviewInv, SweepWellFormed
<1>4. CASE \/ RequestContactVerification \/ VerifyContact \/ AccountPhoneChanges
           \/ DraftMediaChanges \/ \E L \in SUBSET SubmitterRequest : Discard(L)
           \/ UNCHANGED vars
  BY <1>3, <1>4 DEF RequestContactVerification, VerifyContact, AccountPhoneChanges,
     DraftMediaChanges, Discard, vars, submission
<1>5. CASE ConfirmAvailability \/ MarkUnavailable \/ ArchiveListing \/ ExpireListing
  BY <1>3, <1>5 DEF ConfirmAvailability, MarkUnavailable, ArchiveListing, ExpireListing,
     ListingMoves, submission
<1>6. CASE \E o \in Operators :
              GainCapability(o) \/ \E L \in SUBSET {o} : LoseCapability(o, L)
  BY <1>3, <1>6 DEF GainCapability, LoseCapability, submission
<1>7. ASSUME NEW o \in Operators, NEW c \in ClaimId,
             \/ BeginClaim(o, c) \/ BeginRenew(o, c) \/ BeginRelease(o, c)
             \/ \E outcome \in Decisions, reviewed \in 1..MaxRevision :
                   BeginDecision(outcome, o, c, reviewed)
      PROVE  ReviewInv'
  BY <1>0, <1>7, BeginPreserves
<1>8. CASE CommitClaim
  BY <1>0, <1>8, CommitClaimPreserves
<1>9. CASE CommitDecision
  BY <1>0, <1>9, CommitDecisionPreserves
<1>10. CASE CommitRenew
  BY <1>0, <1>10, ClosingPreserves
  DEF CommitRenew, ReviewInv, SweepWellFormed, TypeOK, ReviewClaim, Transaction, submission
<1>11. CASE CommitRelease
  <2>1. tx \in Transaction /\ claims[tx.claim].status # "unused"
    BY <1>11 DEF CommitRelease, ReviewInv, TypeOK, TxWellFormed
  <2> QED
    BY <1>0, <1>11, <2>1, ClosingPreserves
    DEF CommitRelease, ReviewInv, SweepWellFormed, TypeOK, ReviewClaim, Closing, submission
<1>12. CASE Rollback \/ SweepRead
  BY <1>0, <1>12, ClosingPreserves
  DEF Rollback, SweepRead, OpenClaims, ReviewInv, SweepWellFormed, submission
<1>13. ASSUME NEW c \in ClaimId, SweepSave(c)
       PROVE  ReviewInv'
  BY <1>0, <1>13, ClosingPreserves
  DEF SweepSave, ReviewInv, SweepWellFormed, TypeOK, ReviewClaim, Closing, submission
<1>14. CASE Tick
  BY <1>0, <1>14, ClosingPreserves
  DEF Tick, ReviewInv, SweepWellFormed, TypeOK, ReviewClaim, Transaction, submission
<1> QED
  BY <1>1, <1>2, <1>4, <1>5, <1>6, <1>7, <1>8, <1>9, <1>10, <1>11, <1>12, <1>13, <1>14
  DEF Next, SubmitterNext, OperatorNext, EnvironmentNext

THEOREM ReviewInvariant == Spec => []ReviewInv
<1> QED
  BY ReviewInit, ReviewStep, PTL DEF Spec

\* At most one Operator is responsible, never the Submitter, and only for the
\* revision under review: services.py keeps it with a row lock that the sweep
\* ignores.
THEOREM OneOperatorIsResponsible == Spec => []OneResponsibleOperator
BY ReviewInvariant, PTL DEF ReviewInv

\* Each decision rests on its Operator's own, finished claim of its revision.
THEOREM EveryDecisionIsClaimed == Spec => []DecisionsAreClaimed
BY ReviewInvariant, PTL DEF ReviewInv

\* No revision is decided twice, whatever Operators, expiries and sweeps do.
THEOREM EachRevisionDecidedOnce == Spec => []OneDecisionPerRevision
BY ReviewInvariant, PTL DEF ReviewInv

\* The SubmissionEvent history determines where the Submission stands.
THEOREM HistoryDeterminesState == Spec => []HistoryTellsState
BY ReviewInvariant, PTL DEF ReviewInv

-----------------------------------------------------------------------------
(* Claims over time, and the Listing.                                      *)

\* No step reopens a released claim: the insert of a claim writes an unused
\* row, the commit of a renewal writes the expiry only.
THEOREM ReleasedClaimsStayReleased == Spec => ClosedClaimsStayClosed
<1>1. ReviewInv /\ [Next]_vars =>
         [\A c \in ClaimId : claims[c].status = "closed" => claims'[c].status = "closed"]_vars
  <2> SUFFICES ASSUME ReviewInv, [Next]_vars, NEW c \in ClaimId,
                      claims[c].status = "closed"
               PROVE  claims'[c].status = "closed"
    OBVIOUS
  <2>1. claims \in [ClaimId -> ReviewClaim] /\ (tx # NoTx => tx \in Transaction)
    BY DEF ReviewInv, TypeOK
  <2>2. CASE claims' = claims
    BY <2>2
  <2>3. CASE CommitClaim
    BY <2>1, <2>3 DEF CommitClaim, ReviewInv, TxWellFormed, Closing, Transaction, ReviewClaim
  <2>4. CASE CommitRenew
    BY <2>1, <2>4 DEF CommitRenew, Transaction, ReviewClaim
  <2>5. CASE CommitRelease \/ CommitDecision \/ \E d \in ClaimId : SweepSave(d)
    BY <2>1, <2>5 DEF CommitRelease, CommitDecision, Decides, SweepSave, Closing, ReviewClaim
  <2>6. CASE Tick
    BY <2>1, <2>6 DEF Tick, ReviewClaim
  <2> QED
    BY <2>2, <2>3, <2>4, <2>5, <2>6
    DEF Next, SubmitterNext, OperatorNext, EnvironmentNext, vars, SaveStep,
        RequestContactVerification, VerifyContact, SubmitForReview, Discard,
        ConfirmAvailability, MarkUnavailable, ArchiveListing, ExpireListing, ListingMoves,
        BeginClaim, BeginRenew, BeginRelease, BeginDecision, Locks, Rollback,
        AccountPhoneChanges, DraftMediaChanges, SweepRead, GainCapability, LoseCapability
<1> QED
  BY <1>1, ReviewInvariant, PTL DEF Spec, ClosedClaimsStayClosed

\* A Listing goes live by the approval of the pending revision or by confirming
\* an expired one: what its owner took down needs a review to return.
THEOREM LiveNeedsReviewOrConfirmation == Spec => LiveOnlyByReviewOrConfirmation
<1> DEFINE Live == listing' = "published" /\ listing # "published" =>
          \/ /\ state = "pending" /\ state' = "published" /\ shown' = revision
             /\ \E e \in events' \ events : e.new_state = "published" /\ e.revision = revision
          \/ listing = "expired" /\ shown' = shown
<1>1. ReviewInv /\ [Next]_vars => [Live]_vars
  <2> SUFFICES ASSUME ReviewInv, [Next]_vars, listing' = "published", listing # "published"
               PROVE  Live
    OBVIOUS
  <2>1. CASE CommitDecision
    <3> DEFINE decision == Event(revision, tx.op, tx.actor, tx.claim)
    <3>1. /\ tx # NoTx /\ tx.op = "published" /\ shown' = revision /\ state' = "published"
          /\ state = "pending" /\ events' = events \cup {decision}
      BY <2>1 DEF CommitDecision, Decides, publication, ReviewInv, TxWellFormed
    <3>2. decision.revision = revision /\ decision.new_state = "published"
      BY <3>1 DEF Event
    <3>3. decision \notin events
      BY <3>1, <3>2 DEF ReviewInv, HistoryTellsState, Decisions
    <3> QED
      BY <3>1, <3>2, <3>3
  <2>2. CASE ConfirmAvailability
    BY <2>2 DEF ConfirmAvailability, ListingMoves
  <2> QED
    BY <2>1, <2>2
    DEF Next, SubmitterNext, OperatorNext, EnvironmentNext, vars, publication, SaveStep,
        RequestContactVerification, VerifyContact, SubmitForReview, Discard,
        MarkUnavailable, ArchiveListing, ExpireListing, ListingMoves,
        BeginClaim, BeginRenew, BeginRelease, BeginDecision, Locks, CommitClaim, CommitRenew,
        CommitRelease, Rollback, AccountPhoneChanges, DraftMediaChanges, SweepRead,
        SweepSave, GainCapability, LoseCapability, Tick
<1> QED
  BY <1>1, ReviewInvariant, PTL DEF Spec, LiveOnlyByReviewOrConfirmation

LEMMA ListingInit == Init => ListingCarriesApprovedRevision
BY DEF Init, ListingCarriesApprovedRevision

\* Only an approval touches shown, and no approved revision is newer than the
\* current one, which is what an approval puts on the Listing.
LEMMA ListingStep ==
    ReviewInv /\ ListingCarriesApprovedRevision /\ [Next]_vars
        => ListingCarriesApprovedRevision'
<1> DEFINE Approvals == {e \in events : e.new_state = "published"}
<1> SUFFICES ASSUME ReviewInv, ListingCarriesApprovedRevision, [Next]_vars
             PROVE  ListingCarriesApprovedRevision'
  OBVIOUS
<1>1. \A e \in Approvals : e.revision <= revision
  BY DEF ReviewInv, HistoryTellsState
<1>2. CASE CommitDecision /\ tx.op = "published"
  <2> DEFINE decision == Event(revision, tx.op, tx.actor, tx.claim)
  <2>1. /\ events' = events \cup {decision} /\ listing' = "published" /\ shown' = revision
    BY <1>2 DEF CommitDecision, Decides
  <2>2. decision.revision = revision /\ decision.new_state = "published"
    BY <1>2 DEF Event
  <2> HIDE DEF decision
  <2>3. Approvals' = Approvals \cup {decision}
    BY <2>1, <2>2
  <2>4. \A e \in Approvals' : e.revision <= shown'
    BY <1>1, <2>1, <2>2, <2>3 DEF ReviewInv, TypeOK
  <2>5. shown' \in {e.revision : e \in Approvals'}
    BY <2>1, <2>2, <2>3
  <2> QED
    BY <2>1, <2>4, <2>5 DEF ListingCarriesApprovedRevision
<1>3. ASSUME Approvals' = Approvals, shown' = shown, listing' = "none" <=> listing = "none"
      PROVE  ListingCarriesApprovedRevision'
  BY <1>3 DEF ListingCarriesApprovedRevision
<1>4. CASE CommitDecision /\ tx.op # "published"
  BY <1>3, <1>4 DEF CommitDecision, Decides, Event, publication
<1>5. CASE SaveStep \/ SubmitForReview
  BY <1>3, <1>5 DEF SaveStep, SubmitForReview, Event, publication
<1>6. CASE ConfirmAvailability \/ MarkUnavailable \/ ArchiveListing \/ ExpireListing
  BY <1>3, <1>6 DEF ConfirmAvailability, MarkUnavailable, ArchiveListing, ExpireListing,
     ListingMoves
<1>7. CASE UNCHANGED <<events, publication>>
  BY <1>3, <1>7 DEF publication
<1> QED
  BY <1>2, <1>4, <1>5, <1>6, <1>7
  DEF Next, SubmitterNext, OperatorNext, EnvironmentNext, vars,
      RequestContactVerification, VerifyContact, Discard, BeginClaim, BeginRenew,
      BeginRelease, BeginDecision, Locks, CommitClaim, CommitRenew, CommitRelease, Rollback,
      AccountPhoneChanges, DraftMediaChanges, SweepRead, SweepSave, GainCapability,
      LoseCapability, Tick

\* The public content is always that of the latest approved revision.
THEOREM ListingShowsWhatWasApproved == Spec => []ListingCarriesApprovedRevision
BY ListingInit, ListingStep, ReviewInvariant, PTL DEF Spec

-----------------------------------------------------------------------------
(* The review implements the desk.                                         *)

Deciding == tx # NoTx /\ tx.op \in Decisions

\* Who is responsible, once the invariant makes the open claim unique.
ResponsibleFacts ==
    /\ Deciding => Responsible = tx.actor /\ Responsible = claims[tx.claim].operator
    /\ ~Deciding /\ OpenClaims = {} => Responsible = Nobody
    /\ ~Deciding => \A c \in OpenClaims : Responsible = claims[c].operator

LEMMA ResponsibleIs == ReviewInv => ResponsibleFacts
<1> SUFFICES ASSUME ReviewInv
             PROVE  ResponsibleFacts
  OBVIOUS
<1>1. \A c \in OpenClaims : (CHOOSE d \in OpenClaims : TRUE) = c
  BY DEF ReviewInv, OneResponsibleOperator
<1> QED
  BY <1>1 DEF ResponsibleFacts, Responsible, Deciding, ReviewInv, TxWellFormed

\* A step that only closes claims keeps the responsible Operator or loses it.
LEMMA ClosingLeaves ==
    ASSUME ReviewInv, ReviewInv',
           UNCHANGED <<state, revision, events>>,
           \A c \in ClaimId : claims'[c].operator = claims[c].operator,
           OpenClaims' \subseteq OpenClaims,
           Deciding' => Deciding /\ tx'.claim = tx.claim
    PROVE  [Desk!Next]_Desk!desk
<1>1. ResponsibleFacts /\ ResponsibleFacts'
  BY ResponsibleIs, PTL
<1> USE DEF ResponsibleFacts
<1>2. Responsible' \in {Responsible, Nobody}
  <2>1. CASE Deciding'
    BY <1>1, <2>1 DEF Deciding, ReviewInv, TypeOK, Transaction
  <2>2. CASE ~Deciding' /\ OpenClaims' = {}
    BY <1>1, <2>2
  <2>3. ASSUME ~Deciding', NEW c \in OpenClaims'
        PROVE  Responsible' = Responsible
    <3>1. c \in OpenClaims /\ c \in ClaimId /\ Responsible' = claims[c].operator
      BY <1>1, <2>3 DEF OpenClaims
    <3>2. CASE Deciding
      BY <1>1, <3>1, <3>2 DEF Deciding, ReviewInv, TxWellFormed
    <3> QED
      BY <1>1, <3>1, <3>2
  <2> QED
    BY <2>1, <2>2, <2>3
<1>3. Verdicts' = Verdicts
  BY DEF Verdicts, DecisionEvents
<1> QED
  BY <1>2, <1>3 DEF Desk!Next, Desk!Leave, Desk!desk

LEMMA DeskInit == Init => Desk!Init
BY DEF Init, Desk!Init, Responsible, Verdicts, DecisionEvents, OpenClaims

\* A decision's commit is the desk's: by the responsible Operator, ending it.
LEMMA DecisionIsDeskDecision ==
    ASSUME ReviewInv, ReviewInv', CommitDecision
    PROVE  Desk!Decide(tx.op)
<1> DEFINE decision == Event(revision, tx.op, tx.actor, tx.claim)
           verdict(e) == [revision |-> e.revision, by |-> e.actor, outcome |-> e.new_state]
<1>1. /\ tx \in Transaction /\ tx # NoTx /\ tx.op \in Decisions /\ tx' = NoTx
      /\ state = "pending" /\ state' = tx.op /\ revision' = revision
      /\ events' = events \cup {decision} /\ claims' = Closing({tx.claim})
      /\ OpenClaims \subseteq {tx.claim}
  BY DEF CommitDecision, Decides, ReviewInv, TypeOK, TxWellFormed
<1>2. Responsible = tx.actor /\ Responsible # Nobody
  BY <1>1, ResponsibleIs DEF ResponsibleFacts, Deciding, Transaction, Nobody
<1>3. OpenClaims' = {}
  BY <1>1 DEF OpenClaims, Closing, ReviewInv, TypeOK, ReviewClaim
<1>4. Responsible' = Nobody
  BY <1>1, <1>3 DEF Responsible
<1>5. /\ decision.new_state = tx.op
      /\ verdict(decision) = [revision |-> revision, by |-> Responsible, outcome |-> tx.op]
  BY <1>2 DEF Event
<1>6. DecisionEvents' = DecisionEvents \cup {decision}
  BY <1>1, <1>5 DEF DecisionEvents
<1>7. Verdicts' = Verdicts \cup {verdict(decision)}
  <2> HIDE DEF decision
  <2> QED
    BY <1>6 DEF Verdicts
<1> QED
  BY <1>1, <1>2, <1>4, <1>5, <1>7 DEF Desk!Decide

LEMMA DeskStep == ReviewInv /\ ReviewInv' /\ [Next]_vars => [Desk!Next]_Desk!desk
<1> SUFFICES ASSUME ReviewInv, ReviewInv', [Next]_vars
             PROVE  [Desk!Next]_Desk!desk
  OBVIOUS
<1>1. ResponsibleFacts /\ ResponsibleFacts'
  BY ResponsibleIs, PTL
<1> USE DEF ResponsibleFacts
<1>2. CASE SaveStep
  <2>1. (OpenClaims = {} /\ OpenClaims' = {}) \/ state = "draft"
    BY <1>2 DEF SaveStep, ReviewInv, OneResponsibleOperator, OpenClaims
  <2>2. tx = NoTx /\ tx' = NoTx /\ claims' = claims
    BY <1>2 DEF SaveStep
  <2>3. Responsible' = Responsible
    BY <2>2 DEF Responsible, OpenClaims
  <2>4. Verdicts' = Verdicts
    <3>1. DecisionEvents' = DecisionEvents
      BY <1>2 DEF SaveStep, DecisionEvents, Event, Decisions
    <3> QED
      BY <3>1 DEF Verdicts
  <2> QED
    BY <1>2, <2>3, <2>4 DEF SaveStep, ReviewInv, TypeOK, SubmissionState, Decisions,
       Desk!Next, Desk!Revise, Desk!desk
<1>3. CASE SubmitForReview
  <2>1. Responsible' = Responsible
    BY <1>3 DEF SubmitForReview, Responsible, OpenClaims
  <2>2. DecisionEvents' = DecisionEvents
    BY <1>3 DEF SubmitForReview, DecisionEvents, Event, Decisions
  <2> QED
    BY <1>3, <2>1, <2>2 DEF SubmitForReview, Verdicts, Desk!Next, Desk!Submit
<1>4. CASE CommitDecision
  <2>1. tx.op \in Desk!Outcomes
    BY <1>4 DEF CommitDecision, Decides, Decisions, Desk!Outcomes
  <2> QED
    BY <1>4, <2>1, DecisionIsDeskDecision DEF Desk!Next
<1>5. CASE CommitClaim
  <2>1. /\ tx \in Transaction /\ tx # NoTx /\ tx.op = "claim" /\ tx' = NoTx
        /\ tx.actor # Submitter /\ state = "pending"
        /\ UNCHANGED <<state, revision, events>>
    BY <1>5 DEF CommitClaim, ReviewInv, TypeOK, TxWellFormed, submission
  <2>2. claims'[tx.claim] = [status |-> "open", operator |-> tx.actor,
                             revision |-> revision, left |-> tx.left]
    BY <1>5, <2>1 DEF CommitClaim, Closing, Transaction
  <2>3. Responsible' = tx.actor
    BY <1>1, <2>1, <2>2 DEF OpenClaims, Deciding, Transaction
  <2>4. Verdicts' = Verdicts /\ tx.actor \in Operators
    BY <2>1 DEF Verdicts, DecisionEvents, Transaction
  <2> QED
    BY <2>1, <2>3, <2>4 DEF Desk!Next, Desk!Take
<1>6. ASSUME NEW o \in Operators, NEW c \in ClaimId,
             \/ BeginClaim(o, c) \/ BeginRenew(o, c) \/ BeginRelease(o, c)
             \/ \E outcome \in Decisions, reviewed \in 1..MaxRevision :
                   BeginDecision(outcome, o, c, reviewed)
      PROVE  [Desk!Next]_Desk!desk
  <2>1. UNCHANGED <<state, revision, events, claims>> /\ tx = NoTx
    BY <1>6 DEF BeginClaim, BeginRenew, BeginRelease, BeginDecision, Locks, submission
  <2>2. OpenClaims' = OpenClaims /\ Verdicts' = Verdicts /\ ~Deciding
    BY <2>1 DEF OpenClaims, Verdicts, DecisionEvents, Deciding
  <2>3. Deciding' => tx'.claim \in OpenClaims
    BY <1>6 DEF BeginClaim, BeginRenew, BeginRelease, BeginDecision, Locks, Holds, Deciding,
       Decisions
  <2>4. Responsible' = Responsible
    <3>1. CASE Deciding'
      BY <1>1, <2>1, <2>2, <2>3, <3>1
    <3>2. CASE ~Deciding'
      BY <1>1, <2>1, <2>2, <3>2
    <3> QED
      BY <3>1, <3>2
  <2> QED
    BY <2>1, <2>2, <2>4 DEF Desk!desk
<1>7. CASE CommitRenew \/ CommitRelease \/ Rollback \/ SweepRead \/ Tick
           \/ \E c \in ClaimId : SweepSave(c)
  <2>1. UNCHANGED <<state, revision, events>>
    BY <1>7 DEF CommitRenew, CommitRelease, Rollback, SweepRead, Tick, SweepSave, submission
  <2>2. \A c \in ClaimId : /\ claims'[c].operator = claims[c].operator
                           /\ claims'[c].status = "open" => claims[c].status = "open"
    BY <1>7 DEF CommitRenew, CommitRelease, Rollback, SweepRead, Tick, SweepSave, Closing,
       ReviewInv, TypeOK, ReviewClaim, Transaction
  <2>3. Deciding' => Deciding /\ tx'.claim = tx.claim
    <3>1. CASE CommitRenew \/ CommitRelease \/ Rollback
      BY <3>1 DEF CommitRenew, CommitRelease, Rollback, Deciding
    <3>2. CASE SweepRead \/ \E c \in ClaimId : SweepSave(c)
      BY <3>2 DEF SweepRead, SweepSave, Deciding
    <3>3. CASE Tick
      BY <3>3 DEF Tick, Deciding, ReviewInv, TypeOK, Transaction
    <3> QED
      BY <1>7, <3>1, <3>2, <3>3
  <2> QED
    BY <2>1, <2>2, <2>3, ClosingLeaves DEF OpenClaims
<1>8. CASE UNCHANGED <<state, revision, events, claims, tx>>
  BY <1>8, ClosingLeaves DEF OpenClaims, Deciding
<1> QED
  BY <1>2, <1>3, <1>4, <1>5, <1>6, <1>7, <1>8
  DEF Next, SubmitterNext, OperatorNext, EnvironmentNext, vars, submission,
      RequestContactVerification, VerifyContact, Discard, ConfirmAvailability,
      MarkUnavailable, ArchiveListing, ExpireListing, ListingMoves, AccountPhoneChanges,
      DraftMediaChanges, GainCapability, LoseCapability

\* With claims that expire, are taken over and are swept without a lock, the
\* review still is a desk where only the responsible Operator decides.
THEOREM ReviewRefinesDesk == Spec => ReviewImplementsDesk
<1>1. Init => Desk!Init
  BY DeskInit
<1>2. ReviewInv /\ ReviewInv' /\ [Next]_vars => [Desk!Next]_Desk!desk
  BY DeskStep
<1> QED
  BY <1>1, <1>2, ReviewInvariant, PTL DEF Spec, ReviewImplementsDesk, Desk!Spec

-----------------------------------------------------------------------------
(* What the runs check, from the parts proved above.                        *)

\* One Operator at a time has a revision, and a claim given back stays given
\* back, whatever transactions and sweeps interleave.
THEOREM ResponsibilityIsOnes == Spec => ResponsibilityHolds
<1> QED
  BY TypeCorrect, OneOperatorIsResponsible, ReleasedClaimsStayReleased, PTL DEF ResponsibilityHolds

\* Every decision rests on its Operator's claim, no revision has two, and the
\* history alone tells what became of it.
THEOREM DecisionsStand == Spec => []DecisionsAreSound
<1> QED
  BY EveryDecisionIsClaimed, EachRevisionDecidedOnce, HistoryDeterminesState, PTL
  DEF DecisionsAreSound

-----------------------------------------------------------------------------
(* The images in their order.                                              *)

LEMMA NumbersAreNatural == Limit \in Nat \ {0} /\ MaxImages \in Nat /\ MaxUploads \in Nat
                           /\ MaxFaults \in Nat /\ MaxLosses \in Nat
BY LimitAssumption, BoundAssumption DEF LimitAssumption, BoundAssumption

LEMMA ExistingFinite ==
    /\ IsFiniteSet(Image)
    /\ \A S \in SUBSET Image : IsFiniteSet(S) /\ Cardinality(S) \in Nat
    /\ Existing \subseteq Image
<1>1. IsFiniteSet(Image)
  BY NumbersAreNatural, FS_Interval DEF Image
<1> QED BY <1>1, FS_Subset, FS_CardinalityType DEF Existing

\* A plan names images one after the other, none of them twice.
Plan(s, S) ==
    /\ s \in Seq(S) /\ ToSet(s) = S
    /\ \A a, b \in 1..Len(s) : s[a] = s[b] => a = b
    /\ Len(s) = Cardinality(S)

\* What SetToSeqs offers are the plans of the set.
LEMMA OrderIsPlan ==
    ASSUME NEW S \in SUBSET Image, NEW s \in SetToSeqs(S)
    PROVE  Plan(s, S)
<1> DEFINE n == Cardinality(S)
<1>1. n \in Nat /\ IsFiniteSet(S)
  BY ExistingFinite
<1>2. /\ s \in [1..n -> S]
      /\ \A a, b \in 1..n : a # b => s[a] # s[b]
  BY DEF SetToSeqs
<1> HIDE DEF n
<1>3. s \in Seq(S) /\ Len(s) = n /\ DOMAIN s = 1..n
  BY <1>1, <1>2
<1>4. s \in Injection(1..n, S)
  BY <1>2 DEF Injection, IsInjective
<1>5. IsFiniteSet(1..n) /\ Cardinality(1..n) = n
  BY <1>1, FS_Interval
<1>6. s \in Surjection(1..n, S)
  BY <1>1, <1>4, <1>5, FS_Injection DEF n
<1>7. ToSet(s) = S
  BY <1>2, <1>3, <1>6 DEF ToSet, Surjection
<1>8. \A a, b \in 1..Len(s) : s[a] = s[b] => a = b
  BY <1>2, <1>3
<1> QED BY <1>3, <1>7, <1>8 DEF Plan, n

\* Where the positions are 0, 1, ..., the images but one can be put in order.
LEMMA RestInOrder ==
    ASSUME image \in [Image -> Row], ConstraintsHold, OrderIsDense, edit = NoEdit,
           NEW i \in Existing
    PROVE  Plan(InOrder(Existing \ {i}), Existing \ {i})
<1> DEFINE S == Existing \ {i}
           n == Cardinality(Existing)
           m == n - 1
           p == image[i].position
           At(k) == CHOOSE j \in Existing : image[j].position = k
           Index(a) == IF a - 1 < p THEN a - 1 ELSE a
           s == [a \in 1..m |-> At(Index(a))]
<1>1. n \in Nat /\ IsFiniteSet(Existing) /\ S \in SUBSET Image
  BY ExistingFinite
<1>2. Cardinality(S) = m
  BY <1>1, FS_RemoveElement
<1>3. {image[j].position : j \in Existing} = 0..m
  BY DEF OrderIsDense
<1>4. p \in 0..m /\ m \in Nat
  <2>1. p \in {image[j].position : j \in Existing}
    OBVIOUS
  <2>2. p \in 0..m
    BY <2>1, <1>3
  <2> HIDE DEF p, n
  <2> QED BY <2>2, <1>1
<1>5. \A k \in 0..m : At(k) \in Existing /\ image[At(k)].position = k
  <2> TAKE k \in 0..m
  <2>1. \E j \in Existing : image[j].position = k
    BY <1>3
  <2> QED BY <2>1
<1> HIDE DEF n, p, At, m
<1>6. ASSUME NEW a \in 1..m
      PROVE  Index(a) \in 0..m /\ Index(a) # p
  BY <1>4
<1>7. ASSUME NEW a \in 1..m, NEW b \in 1..m, a < b
      PROVE  Index(a) < Index(b)
  BY <1>4, <1>7
<1>8. ASSUME NEW a \in 1..m
      PROVE  s[a] \in S /\ image[s[a]].position = Index(a)
  <2>1. s[a] = At(Index(a))
    OBVIOUS
  <2>2. At(Index(a)) \in Existing /\ image[At(Index(a))].position = Index(a)
    BY <1>5, <1>6
  <2>3. At(Index(a)) # i
    BY <2>2, <1>6 DEF p
  <2> QED BY <2>1, <2>2, <2>3
<1>9. s \in [1..m -> S]
  BY <1>8
<1> HIDE DEF s
<1>10. \A a, b \in 1..m : a # b => s[a] # s[b]
  <2> SUFFICES ASSUME NEW a \in 1..m, NEW b \in 1..m, a # b
               PROVE  s[a] # s[b]
    OBVIOUS
  <2>1. Index(a) # Index(b)
    BY <1>4
  <2> QED BY <2>1, <1>8
<1>11. s \in SetToSeqs(S)
  BY <1>2, <1>9, <1>10 DEF SetToSeqs
<1>12. Len(s) = m
  BY <1>9, <1>4
<1>13. \A a, b \in 1..Len(s) : a < b => image[s[a]].position < image[s[b]].position
  <2> SUFFICES ASSUME NEW a \in 1..m, NEW b \in 1..m, a < b
               PROVE  image[s[a]].position < image[s[b]].position
    BY <1>12
  <2> QED BY <1>7, <1>8
<1>14. InOrder(S) \in SetToSeqs(S)
  BY <1>11, <1>13 DEF InOrder
<1> QED BY <1>14, <1>1, OrderIsPlan

-----------------------------------------------------------------------------
(* Positions and the primary image, also in the midst of a renumbering.    *)

Edit == [op : {"none", "reorder", "remove"}, plan : Seq(Image), next : Nat,
         shift : SUBSET Image, primary : 0..MaxImages, clear : BOOLEAN]

ImageRows == image \in [Image -> Row] /\ edit \in Edit

(* While a transaction renumbers: images that have still to be shifted lie    *)
(* below Limit and their new places are free; what the plan has still to name *)
(* lies from Limit on; what it has named lies densely below.                  *)
Renumbering ==
    LET planned == ToSet(edit.plan) IN
    /\ edit.op # "none" /\ planned \subseteq Existing /\ edit.shift \subseteq planned
    /\ \A a, b \in 1..Len(edit.plan) : edit.plan[a] = edit.plan[b] => a = b
    /\ edit.next + Len(edit.plan) = Cardinality(Existing)
    /\ edit.shift # {} \/ edit.clear => planned = Existing /\ edit.next = 0
    /\ \A i \in edit.shift : image[i].position < Limit
    /\ \A i \in planned \ edit.shift : image[i].position >= Limit
    /\ {image[i].position : i \in Existing \ planned} = 0..(edit.next - 1)
    /\ \A i \in edit.shift, j \in Existing \ edit.shift :
          image[j].position # image[i].position + Limit
    /\ Existing # {} => edit.primary \in Existing
    /\ ~edit.clear => \A i \in Existing : image[i].primary => i = edit.primary
    /\ ~edit.clear /\ edit.primary \in Existing \ planned => image[edit.primary].primary

OrderHolds ==
    /\ ConstraintsHold /\ Cardinality(Existing) <= Limit
    /\ OrderIsDense
    /\ edit # NoEdit => Renumbering

\* A step that keeps the rows, their positions and the primary image.
LEMMA OrderKept ==
    ASSUME OrderHolds, edit' = edit,
           \A i \in Image : /\ image'[i].position = image[i].position
                            /\ image'[i].primary = image[i].primary
                            /\ image'[i].status = "none" <=> image[i].status = "none"
    PROVE  OrderHolds' /\ Existing' = Existing
<1>1. Existing' = Existing
  BY DEF Existing
<1>2. \A S \in SUBSET Image : {image'[i].position : i \in S} = {image[i].position : i \in S}
  OBVIOUS
<1>3. Existing \subseteq Image /\ ToSet(edit.plan)' = ToSet(edit.plan)
  BY DEF Existing, ToSet
<1>4. \A i \in Existing : /\ image'[i].position = image[i].position
                          /\ image'[i].primary = image[i].primary
  BY <1>3
<1>5. ConstraintsHold'
  BY <1>1, <1>4 DEF OrderHolds, ConstraintsHold
<1>6. OrderIsDense'
  BY <1>1, <1>2, <1>3, <1>4 DEF OrderHolds, OrderIsDense, NoEdit
<1>7. ASSUME edit # NoEdit
      PROVE  Renumbering'
  <2>1. Renumbering
    BY <1>7 DEF OrderHolds
  <2>2. {image'[i].position : i \in Existing \ ToSet(edit.plan)}
           = {image[i].position : i \in Existing \ ToSet(edit.plan)}
    BY <1>2, <1>3
  <2>3. \A i \in edit.shift : i \in Existing
    BY <2>1 DEF Renumbering
  <2>4. \A i \in ToSet(edit.plan) : i \in Existing
    BY <2>1 DEF Renumbering
  <2> QED BY <2>1, <2>2, <2>3, <2>4, <1>1, <1>3, <1>4 DEF Renumbering
<1> QED BY <1>1, <1>5, <1>6, <1>7 DEF OrderHolds, NoEdit

\* The first image takes position 0 and is primary, another the next position.
LEMMA OrderAdds ==
    ASSUME ImageRows, OrderHolds, edit = NoEdit, edit' = edit,
           NEW i \in Image, i \notin Existing, Cardinality(Existing) < Limit,
           \A j \in Image \ {i} : image'[j] = image[j],
           image'[i].status # "none", image'[i].position = Cardinality(Existing),
           image'[i].primary <=> Cardinality(Existing) = 0
    PROVE  OrderHolds'
<1> DEFINE n == Cardinality(Existing)
<1>1. Existing' = Existing \union {i}
  BY DEF Existing
<1>2. n \in Nat /\ IsFiniteSet(Existing) /\ Existing \subseteq Image
  BY ExistingFinite
<1>3. Cardinality(Existing') = n + 1
  BY <1>1, <1>2, FS_AddElement
<1>4. n = 0 <=> Existing = {}
  BY <1>2, FS_EmptySet
<1>5. \A j \in Existing : image'[j] = image[j] /\ j # i
  BY <1>2
<1>6. {image[j].position : j \in Existing} = 0..(n - 1)
      /\ (Existing # {} => \E j \in Existing : image[j].primary)
  BY DEF OrderHolds, OrderIsDense
<1> HIDE DEF n
<1>7. {image'[j].position : j \in Existing'} = 0..n
  <2>1. {image'[j].position : j \in Existing'} = {image[j].position : j \in Existing} \union {n}
    BY <1>1, <1>5 DEF n
  <2> QED BY <2>1, <1>6, <1>2 DEF n
<1>8. Cardinality(Existing') - 1 = n
  BY <1>2, <1>3 DEF n
<1>9. \A j \in Existing : image[j].position # n
  BY <1>6, <1>2 DEF n
<1>10. ConstraintsHold'
  <2>1. ASSUME NEW j \in Existing', NEW k \in Existing', image'[j].position = image'[k].position
        PROVE  j = k
    BY <2>1, <1>1, <1>5, <1>9 DEF OrderHolds, ConstraintsHold, n
  <2>2. ASSUME NEW j \in Existing', NEW k \in Existing', image'[j].primary, image'[k].primary
        PROVE  j = k
    BY <2>2, <1>1, <1>4, <1>5 DEF OrderHolds, ConstraintsHold, n
  <2> QED BY <2>1, <2>2 DEF ConstraintsHold
<1>11. \E j \in Existing' : image'[j].primary
  BY <1>1, <1>4, <1>5, <1>6 DEF n
<1>12. OrderIsDense'
  BY <1>7, <1>8, <1>11 DEF OrderIsDense
<1>13. Cardinality(Existing') <= Limit
  BY <1>2, <1>3, NumbersAreNatural DEF n
<1> QED BY <1>10, <1>12, <1>13 DEF OrderHolds, NoEdit

\* A new order: everything is shifted before anything is given its place.
LEMMA OrderReorders ==
    ASSUME ImageRows, OrderHolds, edit = NoEdit, UNCHANGED image,
           NEW plan, Plan(plan, Existing), NEW primary \in Existing,
           edit'.op = "reorder", edit'.plan = plan, edit'.next = 0, edit'.shift = Existing,
           edit'.clear = TRUE, edit'.primary = primary
    PROVE  OrderHolds'
<1> DEFINE n == Cardinality(Existing)
<1>1. n \in Nat /\ Existing' = Existing /\ ToSet(plan) = Existing
  BY ExistingFinite DEF Existing, Plan
<1>2. {image[j].position : j \in Existing} = 0..(n - 1)
  BY DEF OrderHolds, OrderIsDense
<1> HIDE DEF n
<1>3. edit' # NoEdit
  BY DEF NoEdit
<1>4. \A j \in Existing : image[j].position < Limit /\ image[j].position \in Nat
  <2> TAKE j \in Existing
  <2>1. image[j].position \in 0..(n - 1)
    BY <1>2
  <2>2. n <= Limit
    BY DEF OrderHolds, n
  <2> QED BY <2>1, <2>2, <1>1, NumbersAreNatural
<1>5. Renumbering'
  <2>1. \A a, b \in 1..Len(plan) : plan[a] = plan[b] => a = b
    BY DEF Plan
  <2>2. 0 + Len(plan) = Cardinality(Existing)
    BY <1>1 DEF Plan, n
  <2>3. {image[j].position : j \in Existing \ Existing} = 0..(0 - 1)
    OBVIOUS
  <2> QED BY <1>1, <1>4, <2>1, <2>2, <2>3 DEF Renumbering
<1>6. ConstraintsHold' /\ Cardinality(Existing') <= Limit
  BY <1>1 DEF OrderHolds, ConstraintsHold
<1> QED BY <1>3, <1>5, <1>6 DEF OrderHolds, OrderIsDense

\* The primary image of those that remain.
LEMMA NextPrimaryRemains ==
    ASSUME ImageRows, OrderHolds, edit = NoEdit, NEW i \in Existing,
           NEW rest, Plan(rest, Existing \ {i})
    PROVE  /\ NextPrimary(i, rest) \in 0..MaxImages
           /\ Existing \ {i} # {} => NextPrimary(i, rest) \in Existing \ {i}
           /\ ~image[i].primary => image[NextPrimary(i, rest)].primary
           /\ rest = <<>> <=> Existing \ {i} = {}
<1>1. \E k \in Existing : image[k].primary
  BY DEF OrderHolds, OrderIsDense
<1>2. Existing \subseteq Image /\ Image \subseteq 0..MaxImages /\ 0 \in 0..MaxImages
  BY NumbersAreNatural DEF Existing, Image
<1>3. rest \in Seq(Existing \ {i}) /\ ToSet(rest) = Existing \ {i}
  BY DEF Plan
<1>4. rest = <<>> <=> Existing \ {i} = {}
  <2>1. rest = <<>> => ToSet(rest) = {}
    BY DEF ToSet
  <2>2. rest # <<>> => Head(rest) \in Existing \ {i}
    BY <1>3
  <2> QED BY <2>1, <2>2, <1>3
<1>5. CASE image[i].primary
  <2>1. NextPrimary(i, rest) = IF rest = <<>> THEN 0 ELSE Head(rest)
    BY <1>5 DEF NextPrimary
  <2>2. rest # <<>> => Head(rest) \in Existing \ {i}
    BY <1>3
  <2> QED BY <2>1, <2>2, <1>2, <1>4, <1>5
<1>6. CASE ~image[i].primary
  <2> DEFINE Right(j) == j \in Existing /\ image[j].primary
  <2>1. NextPrimary(i, rest) = CHOOSE j \in Image \union {0} : Right(j)
    BY <1>1, <1>6 DEF NextPrimary
  <2>2. \E j \in Image \union {0} : Right(j)
    BY <1>1, <1>2
  <2>3. Right(NextPrimary(i, rest))
    BY <2>1, <2>2
  <2> QED BY <2>3, <1>2, <1>4, <1>6
<1> QED BY <1>5, <1>6

\* An image goes, the others are about to close the gap.
LEMMA OrderRemoves ==
    ASSUME ImageRows, OrderHolds, edit = NoEdit, NEW i \in Existing,
           image' = [image EXCEPT ![i] = NoRow],
           NEW rest, Plan(rest, Existing \ {i}),
           edit'.op = "remove", edit'.plan = rest, edit'.next = 0, edit'.shift = ToSet(rest),
           edit'.primary = NextPrimary(i, rest), edit'.clear = (image[i].primary /\ rest # <<>>)
    PROVE  OrderHolds'
<1> DEFINE S == Existing \ {i}
<1>1. Existing \subseteq Image /\ IsFiniteSet(Existing) /\ Cardinality(Existing) \in Nat
      /\ Cardinality(S) \in Nat /\ Cardinality(S) = Cardinality(Existing) - 1
  BY ExistingFinite, FS_RemoveElement
<1>2. Existing' = S /\ \A j \in S : image'[j] = image[j]
  <2>1. NoRow.status = "none"
    BY DEF NoRow
  <2>2. image'[i].status = "none" /\ \A j \in Image \ {i} : image'[j] = image[j]
    BY <1>1, <2>1 DEF ImageRows
  <2> HIDE DEF S
  <2> QED BY <2>2, <1>1 DEF Existing, S
<1>3. edit' # NoEdit
  BY DEF NoEdit
<1>4. {image[j].position : j \in Existing} = 0..(Cardinality(Existing) - 1)
  BY DEF OrderHolds, OrderIsDense
<1>5. \A j \in S : image'[j].position < Limit /\ image'[j].position \in Nat
  <2> TAKE j \in S
  <2>1. image[j].position \in 0..(Cardinality(Existing) - 1)
    BY <1>4
  <2> QED BY <2>1, <1>1, <1>2, NumbersAreNatural DEF OrderHolds
<1>6. /\ S # {} => NextPrimary(i, rest) \in S
      /\ ~image[i].primary => image[NextPrimary(i, rest)].primary
      /\ rest = <<>> <=> S = {}
  BY NextPrimaryRemains
<1>7. ToSet(rest) = S /\ Len(rest) = Cardinality(S)
      /\ \A a, b \in 1..Len(rest) : rest[a] = rest[b] => a = b
  BY DEF Plan
<1>8. ConstraintsHold'
  BY <1>2 DEF OrderHolds, ConstraintsHold
<1>9. \A j, k \in Existing : image[j].primary /\ image[k].primary => j = k
  BY DEF OrderHolds, ConstraintsHold
<1> HIDE DEF S
<1>10. ~edit'.clear => \A j \in S : image'[j].primary => j = edit'.primary
  <2> SUFFICES ASSUME ~edit'.clear, NEW j \in S, image'[j].primary
               PROVE  j = NextPrimary(i, rest)
    OBVIOUS
  <2>1. S # {} /\ rest # <<>>
    BY <1>6
  <2>2. image[NextPrimary(i, rest)].primary /\ NextPrimary(i, rest) \in S
    BY <1>6, <2>1
  <2> QED BY <2>2, <1>2, <1>9 DEF S
<1>11. Renumbering'
  <2>1. {image'[j].position : j \in S \ S} = 0..(0 - 1)
    OBVIOUS
  <2>2. 0 + Len(rest) = Cardinality(S)
    BY <1>1, <1>7
  <2> QED BY <1>2, <1>5, <1>6, <1>7, <1>10, <2>1, <2>2 DEF Renumbering
<1>12. Cardinality(Existing') <= Limit
  BY <1>1, <1>2, NumbersAreNatural DEF OrderHolds
<1> QED BY <1>3, <1>8, <1>11, <1>12 DEF OrderHolds, OrderIsDense

\* One row of the shift: its new position is free.
LEMMA OrderShifts ==
    ASSUME ImageRows, OrderHolds, edit # NoEdit, edit' # NoEdit, edit'.op = edit.op,
           NEW i \in edit.shift,
           \A j \in Image : /\ image'[j].position = IF j = i THEN image[j].position + Limit
                                                    ELSE image[j].position
                            /\ image'[j].primary = image[j].primary
                            /\ image'[j].status = image[j].status,
           edit'.shift = edit.shift \ {i}, edit'.plan = edit.plan, edit'.next = edit.next,
           edit'.primary = edit.primary, edit'.clear = edit.clear
    PROVE  OrderHolds'
<1>1. Renumbering
  BY DEF OrderHolds
<1>2. Existing' = Existing /\ Existing \subseteq Image
  BY DEF Existing
<1>3. \A j \in Existing : /\ image[j].position \in Nat
                          /\ j # i => image'[j].position = image[j].position
                          /\ image'[j].primary = image[j].primary
  BY <1>2 DEF ImageRows, Row
<1> DEFINE planned == ToSet(edit.plan)
<1>4. ToSet(edit.plan)' = planned
  BY DEF ToSet
<1>5. /\ i \in planned /\ i \in Existing /\ planned \subseteq Existing
      /\ edit.shift \subseteq planned /\ planned = Existing /\ edit.next = 0
      /\ \A j \in edit.shift : image[j].position < Limit
      /\ \A j \in planned \ edit.shift : image[j].position >= Limit
      /\ \A j \in edit.shift, k \in Existing \ edit.shift :
            image[k].position # image[j].position + Limit
  BY <1>1 DEF Renumbering
<1> HIDE DEF planned
<1>6. image'[i].position = image[i].position + Limit
  BY <1>2, <1>5
<1>7. \A j, k \in Existing : image[j].position = image[k].position => j = k
  BY DEF OrderHolds, ConstraintsHold
<1>8. \A j, k \in Existing : image[j].primary /\ image[k].primary => j = k
  BY DEF OrderHolds, ConstraintsHold
<1>9. \A j \in Existing \ {i} : image'[j].position # image'[i].position
  <2> TAKE j \in Existing \ {i}
  <2>1. CASE j \in edit.shift
    BY <2>1, <1>3, <1>5, <1>6, NumbersAreNatural
  <2>2. CASE j \notin edit.shift
    BY <2>2, <1>3, <1>5, <1>6
  <2> QED BY <2>1, <2>2
<1>10. ConstraintsHold'
  <2>1. ASSUME NEW j \in Existing, NEW k \in Existing, image'[j].position = image'[k].position
        PROVE  j = k
    BY <2>1, <1>3, <1>7, <1>9
  <2> QED BY <2>1, <1>2, <1>3, <1>8 DEF ConstraintsHold
<1>11. Renumbering'
  <2>1. \A j \in edit'.shift : image'[j].position < Limit
    BY <1>3, <1>5
  <2>2. \A j \in planned \ edit'.shift : image'[j].position >= Limit
    <3> TAKE j \in planned \ edit'.shift
    <3>1. CASE j = i
      BY <3>1, <1>3, <1>5, <1>6, NumbersAreNatural
    <3>2. CASE j # i
      BY <3>2, <1>3, <1>5
    <3> QED BY <3>1, <3>2
  <2>3. {image'[j].position : j \in Existing \ planned} = 0..(edit'.next - 1)
    BY <1>5
  <2>4. \A j \in edit'.shift, k \in Existing \ edit'.shift :
           image'[k].position # image'[j].position + Limit
    <3> TAKE j \in edit'.shift, k \in Existing \ edit'.shift
    <3>1. j \in Existing /\ j # i /\ image'[j].position = image[j].position
      BY <1>3, <1>5
    <3>2. CASE k = i
      BY <3>1, <3>2, <1>3, <1>5, <1>6, <1>7, NumbersAreNatural
    <3>3. CASE k # i
      BY <3>1, <3>3, <1>3, <1>5
    <3> QED BY <3>2, <3>3
  <2>5. /\ edit'.op # "none" /\ planned \subseteq Existing /\ edit'.shift \subseteq planned
        /\ \A a, b \in 1..Len(edit.plan) : edit.plan[a] = edit.plan[b] => a = b
        /\ edit.next + Len(edit.plan) = Cardinality(Existing)
        /\ Existing # {} => edit.primary \in Existing
        /\ ~edit.clear => \A j \in Existing : image'[j].primary => j = edit.primary
        /\ ~edit.clear /\ edit.primary \in Existing \ planned => image'[edit.primary].primary
    BY <1>1, <1>3, <1>5 DEF Renumbering, planned
  <2> QED BY <1>2, <1>4, <1>5, <2>1, <2>2, <2>3, <2>4, <2>5 DEF Renumbering
<1> QED BY <1>2, <1>10, <1>11 DEF OrderHolds, OrderIsDense

\* No image is primary for a moment.
LEMMA OrderClears ==
    ASSUME ImageRows, OrderHolds, edit # NoEdit, edit' # NoEdit, edit'.op = edit.op,
           edit.shift = {}, edit.clear,
           \A j \in Image : /\ image'[j].position = image[j].position
                            /\ image'[j].primary = FALSE
                            /\ image'[j].status = image[j].status,
           edit'.shift = edit.shift, edit'.plan = edit.plan, edit'.next = edit.next,
           edit'.primary = edit.primary, edit'.clear = FALSE
    PROVE  OrderHolds'
<1>1. Renumbering
  BY DEF OrderHolds
<1>2. Existing' = Existing /\ Existing \subseteq Image
  BY DEF Existing
<1>3. \A j \in Existing : image'[j].position = image[j].position /\ ~image'[j].primary
  BY <1>2
<1>4. ToSet(edit.plan)' = ToSet(edit.plan) /\ ToSet(edit.plan) = Existing /\ edit.next = 0
  BY <1>1 DEF ToSet, Renumbering
<1>5. ConstraintsHold'
  BY <1>2, <1>3 DEF OrderHolds, ConstraintsHold
<1>6. Renumbering'
  <2>1. {image'[j].position : j \in Existing \ Existing} = 0..(0 - 1)
    OBVIOUS
  <2> QED BY <1>1, <1>2, <1>3, <1>4, <2>1 DEF Renumbering
<1> QED BY <1>2, <1>5, <1>6 DEF OrderHolds, OrderIsDense

\* The next image of the plan takes its place below what is still shifted.
LEMMA OrderRenumbers ==
    ASSUME ImageRows, OrderHolds, edit # NoEdit, edit' # NoEdit, edit'.op = edit.op,
           edit.shift = {}, ~edit.clear, edit.plan # <<>>,
           NEW i, i = Head(edit.plan),
           \A j \in Image : /\ image'[j].position = IF j = i THEN edit.next ELSE image[j].position
                            /\ image'[j].primary = IF j = i THEN i = edit.primary
                                                   ELSE image[j].primary
                            /\ image'[j].status = image[j].status,
           edit'.shift = edit.shift, edit'.plan = Tail(edit.plan), edit'.next = edit.next + 1,
           edit'.primary = edit.primary, edit'.clear = edit.clear
    PROVE  OrderHolds'
<1>1. Renumbering
  BY DEF OrderHolds
<1> DEFINE planned == ToSet(edit.plan)
           named == Existing \ planned
<1>2. Existing' = Existing /\ Existing \subseteq Image /\ Cardinality(Existing) \in Nat
  BY ExistingFinite DEF Existing
<1>3. edit.plan \in Seq(Image) /\ edit.next \in Nat /\ Len(edit.plan) \in Nat
      /\ Len(edit.plan) > 0
  BY DEF ImageRows, Edit
<1>4. /\ planned \subseteq Existing
      /\ \A a, b \in 1..Len(edit.plan) : edit.plan[a] = edit.plan[b] => a = b
      /\ edit.next + Len(edit.plan) = Cardinality(Existing)
      /\ \A j \in planned : image[j].position >= Limit
      /\ {image[j].position : j \in named} = 0..(edit.next - 1)
      /\ Existing # {} => edit.primary \in Existing
      /\ \A j \in Existing : image[j].primary => j = edit.primary
      /\ edit.primary \in named => image[edit.primary].primary
  BY <1>1 DEF Renumbering
<1>5. i \in planned /\ ToSet(Tail(edit.plan)) = planned \ {i}
      /\ Len(Tail(edit.plan)) = Len(edit.plan) - 1
      /\ \A a, b \in 1..Len(Tail(edit.plan)) : Tail(edit.plan)[a] = Tail(edit.plan)[b] => a = b
  <2> DEFINE p == edit.plan
             t == Tail(p)
  <2>1. /\ DOMAIN p = 1..Len(p) /\ DOMAIN t = 1..Len(t) /\ Len(t) = Len(p) - 1
        /\ \A a \in 1..Len(t) : t[a] = p[a + 1]
        /\ i = p[1]
    BY <1>3
  <2> HIDE DEF p, t
  <2>2. p[1] \in ToSet(p)
    BY <2>1, <1>3 DEF ToSet, p
  <2>3. ASSUME NEW j \in ToSet(t)
        PROVE  j \in ToSet(p) \ {i}
    <3>1. PICK a \in 1..Len(t) : j = t[a]
      BY <2>1 DEF ToSet
    <3>2. a + 1 \in 1..Len(p) /\ a + 1 # 1 /\ 1 \in 1..Len(p) /\ j = p[a + 1]
      BY <3>1, <2>1, <1>3 DEF p
    <3>3. j # p[1]
      BY <3>2, <1>4 DEF p
    <3> QED BY <3>2, <3>3, <2>1 DEF ToSet
  <2>4. ASSUME NEW j \in ToSet(p), j # i
        PROVE  j \in ToSet(t)
    <3>1. PICK a \in 1..Len(p) : j = p[a]
      BY <2>1 DEF ToSet
    <3>2. a - 1 \in 1..Len(t) /\ t[a - 1] = p[(a - 1) + 1] /\ (a - 1) + 1 = a
      BY <3>1, <2>1, <2>4, <1>3 DEF p
    <3> QED BY <3>1, <3>2, <2>1 DEF ToSet
  <2>5. ASSUME NEW a \in 1..Len(t), NEW b \in 1..Len(t), t[a] = t[b]
        PROVE  a = b
    <3>1. a + 1 \in 1..Len(p) /\ b + 1 \in 1..Len(p) /\ p[a + 1] = p[b + 1]
      BY <2>5, <2>1, <1>3 DEF p
    <3>2. a + 1 = b + 1
      BY <3>1, <1>4 DEF p
    <3> QED BY <3>2
  <2> QED BY <2>1, <2>2, <2>3, <2>4, <2>5 DEF p, t
<1> HIDE DEF planned
<1>6. ToSet(edit.plan)' = planned \ {i} /\ i \in Existing
      /\ Existing \ (planned \ {i}) = named \union {i} /\ i \notin named
  BY <1>4, <1>5 DEF ToSet
<1>7. /\ image'[i].position = edit.next
      /\ image'[i].primary <=> i = edit.primary
      /\ \A j \in Existing \ {i} : /\ image'[j].position = image[j].position
                                   /\ image'[j].primary = image[j].primary
  BY <1>2, <1>6
<1>8. \A j \in Existing : image[j].position \in Nat
  BY <1>2 DEF ImageRows, Row
<1>9. edit.next < Limit
  BY <1>2, <1>3, <1>4, NumbersAreNatural DEF OrderHolds
<1>10. \A j \in Existing \ {i} : image[j].position # edit.next
  <2> TAKE j \in Existing \ {i}
  <2>1. CASE j \in planned
    BY <2>1, <1>3, <1>4, <1>8, <1>9, NumbersAreNatural
  <2>2. CASE j \in named
    <3>1. image[j].position \in 0..(edit.next - 1)
      BY <1>4, <2>2
    <3> QED BY <3>1, <1>3
  <2> QED BY <2>1, <2>2
<1>11. ConstraintsHold'
  <2>1. ASSUME NEW j \in Existing, NEW k \in Existing, image'[j].position = image'[k].position
        PROVE  j = k
    BY <2>1, <1>7, <1>10 DEF OrderHolds, ConstraintsHold
  <2>2. ASSUME NEW j \in Existing, NEW k \in Existing, image'[j].primary, image'[k].primary
        PROVE  j = k
    BY <2>2, <1>4, <1>7
  <2> QED BY <1>2, <2>1, <2>2 DEF ConstraintsHold
<1>12. {image'[j].position : j \in named \union {i}} = 0..((edit.next + 1) - 1)
  <2>1. {image'[j].position : j \in named \union {i}}
           = {image[j].position : j \in named} \union {edit.next}
    BY <1>6, <1>7
  <2>2. \A n \in Nat : (0..(n - 1)) \union {n} = 0..((n + 1) - 1)
    OBVIOUS
  <2> QED BY ONLY <2>1, <2>2, <1>3, <1>4
<1>13. Renumbering'
  <2>1. /\ planned \ {i} \subseteq Existing
        /\ (edit.next + 1) + Len(Tail(edit.plan)) = Cardinality(Existing)
    BY <1>2, <1>3, <1>4, <1>5
  <2>2. \A j \in planned \ {i} : image'[j].position >= Limit
    BY <1>4, <1>7
  <2>3. /\ \A j \in Existing : image'[j].primary => j = edit.primary
        /\ edit.primary \in named \union {i} => image'[edit.primary].primary
    BY <1>4, <1>6, <1>7
  <2>4. {image'[j].position : j \in Existing' \ ToSet(edit.plan)'} = 0..(edit'.next - 1)
    BY ONLY <1>2, <1>6, <1>12, edit'.next = edit.next + 1
  <2>5. /\ ToSet(edit.plan)' \subseteq Existing' /\ edit'.shift = {} /\ ~edit'.clear
        /\ edit'.op # "none"
        /\ edit'.next + Len(edit'.plan) = Cardinality(Existing')
        /\ \A a, b \in 1..Len(edit'.plan) : edit'.plan[a] = edit'.plan[b] => a = b
        /\ \A j \in ToSet(edit.plan)' : image'[j].position >= Limit
    BY <1>1, <1>2, <1>5, <1>6, <2>1, <2>2 DEF Renumbering
  <2>6. /\ Existing' # {} => edit'.primary \in Existing'
        /\ \A j \in Existing' : image'[j].primary => j = edit'.primary
        /\ edit'.primary \in Existing' \ ToSet(edit.plan)' => image'[edit'.primary].primary
    BY <1>2, <1>4, <1>6, <2>3
  <2> QED BY ONLY <2>4, <2>5, <2>6 DEF Renumbering
<1> QED BY <1>2, <1>11, <1>13 DEF OrderHolds, OrderIsDense

\* At the end every image has its place, and one is primary.
LEMMA OrderCommits ==
    ASSUME ImageRows, OrderHolds, edit # NoEdit, edit' = NoEdit,
           edit.shift = {}, ~edit.clear, edit.plan = <<>>, UNCHANGED image
    PROVE  OrderHolds'
<1>1. Renumbering /\ Existing' = Existing /\ ToSet(edit.plan) = {}
  BY DEF OrderHolds, Existing, ToSet
<1>2. edit.next \in Nat /\ Cardinality(Existing) \in Nat /\ Len(edit.plan) = 0
  BY ExistingFinite DEF ImageRows, Edit
<1>3. edit.next = Cardinality(Existing)
  BY <1>1, <1>2 DEF Renumbering
<1>4. {image[j].position : j \in Existing} = 0..(Cardinality(Existing) - 1)
  <2>1. {image[j].position : j \in Existing \ {}} = 0..(edit.next - 1)
    BY <1>1 DEF Renumbering
  <2>2. Existing \ {} = Existing
    OBVIOUS
  <2> QED BY <2>1, <2>2, <1>3
<1>5. Existing # {} => \E j \in Existing : image[j].primary
  BY <1>1 DEF Renumbering
<1>6. OrderIsDense'
  BY <1>1, <1>4, <1>5 DEF OrderIsDense
<1> QED BY <1>1, <1>6 DEF OrderHolds, ConstraintsHold

-----------------------------------------------------------------------------
(* The rows and what the Submission says of its media.                     *)

MediaHold ==
    /\ submission_state \in {"draft", "pending", "decided", "rejected"}
    /\ media_complete \in BOOLEAN
    /\ media_complete => \A i \in Existing : image[i].status = "ready"
    /\ submission_state # "draft" => edit = NoEdit /\ media_complete /\ MediaComplete(image)

RowsHold == ImageRows /\ OrderHolds /\ MediaHold

\* An image that is not ready takes another status and other files.
LEMMA RowTouched ==
    ASSUME RowsHold, NEW i \in Image, image[i].status \in Temporary, edit' = edit,
           NEW r \in Row, r.position = image[i].position, r.primary = image[i].primary,
           r.status # "none", image' = [image EXCEPT ![i] = r],
           submission_state' = "draft" \/ submission_state' = submission_state,
           media_complete' = FALSE \/ media_complete' = media_complete
    PROVE  RowsHold'
<1>1. image \in [Image -> Row] /\ edit \in Edit /\ image[i].status # "none"
  BY DEF RowsHold, ImageRows, Temporary
<1>2. image' \in [Image -> Row]
  BY <1>1
<1>3. image'[i] = r /\ \A j \in Image \ {i} : image'[j] = image[j]
  BY <1>1
<1>4. \A j \in Image : /\ image'[j].position = image[j].position
                       /\ image'[j].primary = image[j].primary
                       /\ image'[j].status = "none" <=> image[j].status = "none"
  BY <1>1, <1>3
<1>5. OrderHolds'
  BY <1>4, OrderKept DEF RowsHold
<1>6. i \in Existing /\ image[i].status # "ready"
  BY <1>1 DEF Existing, Temporary
<1>7. ~media_complete /\ submission_state = "draft"
  BY <1>6 DEF RowsHold, MediaHold
<1>8. media_complete = FALSE /\ submission_state = "draft"
  BY <1>7 DEF RowsHold, MediaHold
<1>9. media_complete' = FALSE /\ submission_state' = "draft"
  BY <1>8
<1>10. MediaHold'
  BY <1>9 DEF MediaHold
<1> QED BY <1>1, <1>2, <1>5, <1>10 DEF RowsHold, ImageRows

LEMMA NoRowIsRow == NoRow \in Row
<1>1. 0 \in 0..(2 * Limit) /\ NoFile \in File
  BY NumbersAreNatural DEF File, NoFile
<1>2. FALSE \in BOOLEAN
  OBVIOUS
<1> QED BY ONLY <1>1, <1>2 DEF NoRow, Row

LEMMA AddHolds ==
    ASSUME RowsHold, uploads \in Nat, NEW i \in Image, Add(i),
           given[i] = NoFile => image[i].status = "none"
    PROVE  RowsHold'
<1> DEFINE n == Cardinality(Existing)
           first == (n = 0)
           r == [NoRow EXCEPT !.status = "pending", !.position = n,
                              !.primary = first, !.source = uploads + 1]
<1>1. /\ edit = NoEdit /\ edit' = edit /\ submission_state' = "draft" /\ media_complete' = FALSE
      /\ n < Limit /\ given[i] = NoFile /\ uploads < MaxUploads
      /\ image' = [image EXCEPT ![i] = r]
  BY DEF Add, PreparedForEdit, Editable, NewFile
<1>2. n \in Nat /\ Existing \subseteq Image
  BY ExistingFinite
<1> HIDE DEF n, first
<1>3. /\ n \in 0..(2 * Limit) /\ uploads + 1 \in File /\ first \in BOOLEAN
      /\ "pending" \in Temporary \union {"ready", "none"}
  BY <1>1, <1>2, NumbersAreNatural DEF File, NoFile, first, Temporary
<1>4. r \in Row /\ r.status = "pending" /\ r.position = n /\ r.primary = first
  BY ONLY <1>3, NoRowIsRow DEF r, Row
<1> HIDE DEF r
<1>5. r.primary <=> n = 0
  BY <1>4 DEF first
<1>6. image \in [Image -> Row] /\ edit \in Edit
  BY DEF RowsHold, ImageRows
<1>7. image' \in [Image -> Row]
  BY <1>1, <1>4, <1>6
<1>8. image'[i] = r /\ \A j \in Image \ {i} : image'[j] = image[j]
  BY <1>1, <1>6
<1>9. i \notin Existing
  BY <1>1 DEF Existing
<1>10. OrderHolds'
  BY <1>1, <1>4, <1>5, <1>8, <1>9, OrderAdds DEF RowsHold, n
<1> QED BY <1>1, <1>6, <1>7, <1>10 DEF RowsHold, ImageRows, MediaHold

LEMMA RemoveHolds ==
    ASSUME RowsHold, NEW i \in Existing, edit = NoEdit, RemoveImage(i), submission_state' = "draft"
    PROVE  RowsHold'
<1> DEFINE rest == InOrder(Existing \ {i})
<1>1. /\ image' = [image EXCEPT ![i] = NoRow] /\ UNCHANGED media_complete
      /\ edit' = [op |-> "remove", plan |-> rest, next |-> 0, shift |-> ToSet(rest),
                  primary |-> NextPrimary(i, rest), clear |-> image[i].primary /\ rest # <<>>]
  BY DEF RemoveImage
<1>2. image \in [Image -> Row] /\ Existing \subseteq Image
  BY DEF RowsHold, ImageRows, Existing
<1>3. Plan(rest, Existing \ {i})
  BY <1>2, RestInOrder DEF RowsHold, OrderHolds
<1> HIDE DEF rest
<1>4. NextPrimary(i, rest) \in 0..MaxImages
  BY <1>3, NextPrimaryRemains DEF RowsHold
<1>5. rest \in Seq(Image) /\ ToSet(rest) \in SUBSET Image
  BY <1>2, <1>3 DEF Plan
<1>6. edit' \in Edit
  <2> DEFINE c == image[i].primary /\ rest # <<>>
             p == NextPrimary(i, rest)
  <2>1. c \in BOOLEAN /\ "remove" \in {"none", "reorder", "remove"} /\ 0 \in Nat
    OBVIOUS
  <2>2. edit' = [op |-> "remove", plan |-> rest, next |-> 0, shift |-> ToSet(rest),
                 primary |-> p, clear |-> c] /\ p \in 0..MaxImages
    BY <1>1, <1>4
  <2> HIDE DEF c, p
  <2> QED BY ONLY <1>5, <2>1, <2>2 DEF Edit
<1>8. image' \in [Image -> Row]
  BY <1>1, <1>2, NoRowIsRow
<1>9. /\ edit'.op = "remove" /\ edit'.plan = rest /\ edit'.next = 0 /\ edit'.shift = ToSet(rest)
      /\ edit'.primary = NextPrimary(i, rest)
      /\ edit'.clear = (image[i].primary /\ rest # <<>>)
  BY <1>1
<1>10. OrderHolds'
  BY <1>1, <1>3, <1>9, OrderRemoves DEF RowsHold
<1>11. media_complete => \A j \in Existing' : image'[j].status = "ready"
  <2>1. Existing' \subseteq Existing /\ \A j \in Existing' : image'[j] = image[j]
    <3>1. NoRow.status = "none"
      BY DEF NoRow
    <3>2. image'[i].status = "none" /\ \A j \in Image \ {i} : image'[j] = image[j]
      BY <1>1, <1>2, <3>1
    <3> QED BY <3>2 DEF Existing
  <2> QED BY <2>1 DEF RowsHold, MediaHold
<1> QED BY <1>1, <1>6, <1>8, <1>10, <1>11 DEF RowsHold, ImageRows, MediaHold

\* A draft's media_complete stays true as long as every image is ready.
LEMMA DraftMedia ==
    ASSUME MediaHold, submission_state' = "draft", media_complete' = media_complete,
           media_complete => \A i \in Existing' : image'[i].status = "ready"
    PROVE  MediaHold'
<1>1. media_complete \in BOOLEAN
  BY DEF MediaHold
<1>2. media_complete' \in BOOLEAN
  BY <1>1, Zenon
<1>3. media_complete' => \A i \in Existing' : image'[i].status = "ready"
  BY Zenon
<1> HIDE DEF MediaHold
<1>4. submission_state' \in {"draft", "pending", "decided", "rejected"}
  BY Zenon
<1> QED BY <1>2, <1>3, <1>4, Zenon DEF MediaHold

LEMMA ReorderHolds ==
    ASSUME RowsHold, NEW plan, plan \in SetToSeqs(Existing), NEW primary \in Image,
           Reorder(plan, primary)
    PROVE  RowsHold'
<1>1. /\ edit = NoEdit /\ submission_state' = "draft" /\ UNCHANGED <<image, media_complete>>
      /\ primary \in Existing
      /\ edit' = [op |-> "reorder", plan |-> plan, next |-> 0, shift |-> Existing,
                  primary |-> primary, clear |-> TRUE]
  BY DEF Reorder, PreparedForEdit, Editable
<1>2. Existing \in SUBSET Image /\ Existing' = Existing
  BY <1>1 DEF Existing
<1>3. Plan(plan, Existing)
  BY <1>2, OrderIsPlan
<1>4. edit' \in Edit
  <2>1. plan \in Seq(Image) /\ primary \in 0..MaxImages
        /\ "reorder" \in {"none", "reorder", "remove"}
        /\ 0 \in Nat
    <3>1. plan \in Seq(Image)
      BY <1>2, <1>3 DEF Plan
    <3> QED BY <3>1, NumbersAreNatural DEF Image
  <2>2. TRUE \in BOOLEAN
    OBVIOUS
  <2> QED BY ONLY <1>1, <1>2, <2>1, <2>2 DEF Edit
<1>5. /\ edit'.op = "reorder" /\ edit'.plan = plan /\ edit'.next = 0 /\ edit'.shift = Existing
      /\ edit'.primary = primary /\ edit'.clear = TRUE
  BY <1>1
<1>6. OrderHolds'
  BY <1>1, <1>3, <1>5, OrderReorders DEF RowsHold
<1> QED BY <1>1, <1>2, <1>4, <1>6 DEF RowsHold, ImageRows, MediaHold

LEMMA ShiftHolds ==
    ASSUME RowsHold, NEW i \in Image, Shift(i)
    PROVE  RowsHold'
<1>1. /\ i \in edit.shift /\ image' = [image EXCEPT ![i].position = @ + Limit]
      /\ edit' = [edit EXCEPT !.shift = @ \ {i}] /\ UNCHANGED <<submission_state, media_complete>>
  BY DEF Shift
<1>2. /\ image \in [Image -> Row] /\ edit \in Edit /\ edit # NoEdit
  <2>1. edit # NoEdit
    BY <1>1 DEF NoEdit
  <2> QED BY <2>1 DEF RowsHold, ImageRows
<1>3. image[i].position < Limit
  BY <1>1, <1>2 DEF RowsHold, OrderHolds, Renumbering
<1>4. image' \in [Image -> Row]
  <2>1. image[i] \in Row /\ image[i].position + Limit \in 0..(2 * Limit)
    BY <1>2, <1>3, NumbersAreNatural DEF Row
  <2>2. [image[i] EXCEPT !.position = @ + Limit] \in Row
    BY ONLY <2>1 DEF Row
  <2> QED BY ONLY <1>1, <1>2, <2>2
<1>5. \A j \in Image : /\ image'[j].position = IF j = i THEN image[j].position + Limit
                                               ELSE image[j].position
                       /\ image'[j].primary = image[j].primary
                       /\ image'[j].status = image[j].status
  BY <1>1, <1>2 DEF Row
<1>6. edit' \in Edit
  BY <1>1, <1>2 DEF Edit
<1>7. /\ edit'.shift = edit.shift \ {i} /\ edit'.plan = edit.plan /\ edit'.next = edit.next
      /\ edit'.primary = edit.primary /\ edit'.clear = edit.clear /\ edit'.op = edit.op
  BY <1>1, <1>2 DEF Edit
<1>8. edit' # NoEdit
  <2>1. edit.op # "none"
    BY <1>2 DEF RowsHold, OrderHolds, Renumbering
  <2> QED BY <2>1, <1>7 DEF NoEdit
<1>9. OrderHolds'
  BY <1>1, <1>2, <1>5, <1>7, <1>8, OrderShifts DEF RowsHold
<1>10. /\ submission_state = "draft"
       /\ media_complete => \A j \in Existing' : image'[j].status = "ready"
  <2>1. Existing' = Existing /\ Existing \subseteq Image
    BY <1>5 DEF Existing
  <2> QED BY <2>1, <1>2, <1>5 DEF RowsHold, MediaHold
<1>11. MediaHold'
  BY <1>1, <1>10, DraftMedia DEF RowsHold
<1> QED BY <1>4, <1>6, <1>9, <1>11 DEF RowsHold, ImageRows

LEMMA ClearHolds ==
    ASSUME RowsHold, ClearPrimary
    PROVE  RowsHold'
<1>1. /\ edit.shift = {} /\ edit.clear
      /\ image' = [i \in Image |-> [image[i] EXCEPT !.primary = FALSE]]
      /\ edit' = [edit EXCEPT !.clear = FALSE] /\ UNCHANGED <<submission_state, media_complete>>
  BY DEF ClearPrimary
<1>2. /\ image \in [Image -> Row] /\ edit \in Edit /\ edit # NoEdit
  <2>1. edit # NoEdit
    BY <1>1 DEF NoEdit
  <2> QED BY <2>1 DEF RowsHold, ImageRows
<1>3. \A j \in Image : [image[j] EXCEPT !.primary = FALSE] \in Row
  <2>1. FALSE \in BOOLEAN
    OBVIOUS
  <2>2. \A r \in Row, b \in BOOLEAN : [r EXCEPT !.primary = b] \in Row
    BY ONLY DEF Row
  <2> QED BY ONLY <2>1, <2>2, <1>2
<1>4. image' \in [Image -> Row]
  BY ONLY <1>1, <1>3
<1>5. \A j \in Image : /\ image'[j].position = image[j].position
                       /\ image'[j].primary = FALSE
                       /\ image'[j].status = image[j].status
  BY <1>1, <1>2 DEF Row
<1>6. edit' \in Edit
  <2>1. FALSE \in BOOLEAN
    OBVIOUS
  <2>2. \A e \in Edit, b \in BOOLEAN : [e EXCEPT !.clear = b] \in Edit
    BY ONLY DEF Edit
  <2> QED BY ONLY <1>1, <1>2, <2>1, <2>2
<1>7. /\ edit'.shift = edit.shift /\ edit'.plan = edit.plan /\ edit'.next = edit.next
      /\ edit'.primary = edit.primary /\ edit'.clear = FALSE /\ edit'.op = edit.op
  BY <1>1, <1>2 DEF Edit
<1>8. edit' # NoEdit
  <2>1. edit.op # "none"
    BY <1>2 DEF RowsHold, OrderHolds, Renumbering
  <2> QED BY <2>1, <1>7 DEF NoEdit
<1>9. OrderHolds'
  BY <1>1, <1>2, <1>5, <1>7, <1>8, OrderClears DEF RowsHold
<1>10. /\ submission_state = "draft"
       /\ media_complete => \A j \in Existing' : image'[j].status = "ready"
  <2>1. Existing' = Existing /\ Existing \subseteq Image
    BY <1>5 DEF Existing
  <2> QED BY <2>1, <1>2, <1>5 DEF RowsHold, MediaHold
<1>11. MediaHold'
  BY <1>1, <1>10, DraftMedia DEF RowsHold
<1> QED BY <1>4, <1>6, <1>9, <1>11 DEF RowsHold, ImageRows

LEMMA RenumberHolds ==
    ASSUME RowsHold, Renumber
    PROVE  RowsHold'
<1> DEFINE i == Head(edit.plan)
           is_primary == (i = edit.primary)
<1>1. /\ edit.shift = {} /\ ~edit.clear /\ edit.plan # <<>>
      /\ image' = [image EXCEPT ![i].position = edit.next, ![i].primary = is_primary]
      /\ edit' = [edit EXCEPT !.plan = Tail(@), !.next = @ + 1]
      /\ UNCHANGED <<submission_state, media_complete>>
  BY DEF Renumber
<1>2. /\ image \in [Image -> Row] /\ edit \in Edit /\ edit # NoEdit
  <2>1. edit # NoEdit
    BY <1>1 DEF NoEdit
  <2> QED BY <2>1 DEF RowsHold, ImageRows
<1>3. /\ edit.plan \in Seq(Image) /\ edit.next \in Nat /\ i \in Image
      /\ Tail(edit.plan) \in Seq(Image) /\ edit.next + 1 \in Nat
  <2>1. edit.plan \in Seq(Image) /\ edit.next \in Nat
    BY <1>2 DEF Edit
  <2> QED BY <2>1, <1>1
<1>4. edit.next \in 0..(2 * Limit)
  <2>1. edit.next + Len(edit.plan) = Cardinality(Existing) /\ Cardinality(Existing) <= Limit
    BY <1>2 DEF RowsHold, OrderHolds, Renumbering
  <2>2. Cardinality(Existing) \in Nat /\ Len(edit.plan) \in Nat
    BY ExistingFinite, <1>3
  <2> QED BY <2>1, <2>2, <1>3, NumbersAreNatural
<1>5. is_primary \in BOOLEAN
  OBVIOUS
<1> HIDE DEF is_primary, i
<1>6. image' \in [Image -> Row]
  <2>1. \A r \in Row, n \in 0..(2 * Limit), b \in BOOLEAN :
           [r EXCEPT !.position = n, !.primary = b] \in Row
    BY ONLY DEF Row
  <2>2. image' = [image EXCEPT ![i] = [image[i] EXCEPT !.position = edit.next,
                                                       !.primary = is_primary]]
    BY <1>1, <1>2, <1>3 DEF Row
  <2> QED BY ONLY <1>2, <1>3, <1>4, <1>5, <2>1, <2>2
<1>7. \A j \in Image : /\ image'[j].position = IF j = i THEN edit.next ELSE image[j].position
                       /\ image'[j].primary = IF j = i THEN is_primary ELSE image[j].primary
                       /\ image'[j].status = image[j].status
  BY <1>1, <1>2, <1>3 DEF Row
<1>8. edit' \in Edit
  BY <1>1, <1>2, <1>3 DEF Edit
<1>9. /\ edit'.shift = edit.shift /\ edit'.plan = Tail(edit.plan) /\ edit'.next = edit.next + 1
      /\ edit'.primary = edit.primary /\ edit'.clear = edit.clear /\ edit'.op = edit.op
  BY <1>1, <1>2 DEF Edit
<1>10. edit' # NoEdit
  <2>1. edit.op # "none"
    BY <1>2 DEF RowsHold, OrderHolds, Renumbering
  <2> QED BY <2>1, <1>9 DEF NoEdit
<1>11. \A j \in Image : image'[j].primary = IF j = i THEN i = edit.primary ELSE image[j].primary
  BY <1>7 DEF is_primary
<1>12. OrderHolds'
  BY <1>1, <1>2, <1>7, <1>9, <1>10, <1>11, OrderRenumbers DEF RowsHold, i
<1>13. /\ submission_state = "draft"
       /\ media_complete => \A j \in Existing' : image'[j].status = "ready"
  <2>1. Existing' = Existing /\ Existing \subseteq Image
    BY <1>7 DEF Existing
  <2> QED BY <2>1, <1>2, <1>7 DEF RowsHold, MediaHold
<1>14. MediaHold'
  BY <1>1, <1>13, DraftMedia DEF RowsHold
<1> QED BY <1>6, <1>8, <1>12, <1>14 DEF RowsHold, ImageRows

LEMMA CommitHolds ==
    ASSUME RowsHold, Commit
    PROVE  RowsHold'
<1>1. /\ edit # NoEdit /\ edit.shift = {} /\ ~edit.clear /\ edit.plan = <<>>
      /\ media_complete' = IF edit.op = "remove" THEN MediaComplete(image) ELSE media_complete
      /\ edit' = NoEdit /\ UNCHANGED <<image, submission_state>>
  BY DEF Commit
<1>2. NoEdit \in Edit
  <2>1. <<>> \in Seq(Image) /\ {} \in SUBSET Image /\ 0 \in Nat /\ 0 \in 0..MaxImages
    BY NumbersAreNatural
  <2>2. FALSE \in BOOLEAN
    OBVIOUS
  <2> QED BY ONLY <2>1, <2>2 DEF NoEdit, Edit
<1>3. OrderHolds'
  BY <1>1, OrderCommits DEF RowsHold
<1>4. submission_state = "draft" /\ Existing' = Existing
  BY <1>1 DEF RowsHold, MediaHold, Existing
<1>5. media_complete' \in BOOLEAN
  <2>1. MediaComplete(image) \in BOOLEAN
    BY DEF MediaComplete
  <2>2. media_complete \in BOOLEAN
    BY DEF RowsHold, MediaHold
  <2> QED BY ONLY <1>1, <2>1, <2>2, Zenon
<1>6. media_complete' => \A j \in Existing : image[j].status = "ready"
  <2>1. MediaComplete(image) => \A j \in Existing : image[j].status = "ready"
    BY DEF MediaComplete, Existing
  <2>2. media_complete => \A j \in Existing : image[j].status = "ready"
    BY DEF RowsHold, MediaHold
  <2> QED BY ONLY <1>1, <2>1, <2>2, Zenon
<1>7. MediaHold'
  BY <1>1, <1>4, <1>5, <1>6 DEF MediaHold
<1> QED BY <1>1, <1>2, <1>3, <1>7 DEF RowsHold, ImageRows

LEMMA RowsKept ==
    ASSUME RowsHold, UNCHANGED <<image, edit, media_complete, submission_state>>
    PROVE  RowsHold'
<1>1. OrderHolds'
  BY OrderKept DEF RowsHold
<1>2. ImageRows'
  BY DEF RowsHold, ImageRows
<1>3. MediaHold'
  BY DEF RowsHold, MediaHold, MediaComplete, Existing
<1> QED BY <1>1, <1>2, <1>3 DEF RowsHold

LEMMA CourseHolds ==
    ASSUME RowsHold,
           \/ CompleteMedia \/ Submit
           \/ \E decision \in {"decided", "rejected"} : Decide(decision)
    PROVE  RowsHold'
<1>1. UNCHANGED <<image, edit>> /\ edit = NoEdit
  BY DEF CompleteMedia, PreparedForEdit, Editable, Submit, Decide, rows
<1>2. OrderHolds' /\ ImageRows'
  BY <1>1, OrderKept DEF RowsHold, ImageRows
<1>3. MediaComplete(image) => \A i \in Existing : image[i].status = "ready"
  BY DEF MediaComplete, Existing
<1>4. MediaHold'
  <2>1. CASE CompleteMedia
    <3>1. /\ submission_state' = "draft" /\ media_complete' = TRUE
          /\ \A i \in Existing' : image'[i].status = "ready"
      BY <2>1, <1>1, <1>3 DEF CompleteMedia, PreparedForEdit, Existing
    <3> QED BY <3>1 DEF MediaHold
  <2>2. CASE Submit
    <3>1. /\ submission_state' = "pending" /\ media_complete' = TRUE /\ MediaComplete(image')
          /\ \A i \in Existing' : image'[i].status = "ready"
      BY <2>2, <1>1, <1>3 DEF Submit, rows, Existing, MediaComplete, RowsHold, MediaHold
    <3> QED BY <3>1, <1>1 DEF MediaHold
  <2>3. ASSUME NEW decision \in {"decided", "rejected"}, Decide(decision)
        PROVE  MediaHold'
    <3>1. /\ submission_state' = decision /\ media_complete' = TRUE /\ MediaComplete(image')
          /\ \A i \in Existing' : image'[i].status = "ready"
      BY <2>3, <1>1, <1>3 DEF Decide, rows, Existing, MediaComplete, RowsHold, MediaHold
    <3> QED BY <3>1, <1>1 DEF MediaHold
  <2> QED BY <2>1, <2>2, <2>3
<1> QED BY <1>2, <1>4 DEF RowsHold

-----------------------------------------------------------------------------
(* Files, messages and workers.                                            *)

WorkTyped ==
    /\ jobs \in [Image -> Nat]
    /\ worker \in [Worker -> [phase : {"idle", "at work", "done"}, image : 0..MaxImages,
                              source : File]]
    /\ \A w \in Worker : worker[w].phase # "idle" => worker[w].image \in Image
    /\ cleaner \subseteq Image
    /\ uploads \in 0..MaxUploads /\ given \in [Image -> 0..uploads]
    /\ again \subseteq Image /\ faults \in 0..MaxFaults

Busy(w, i) == worker[w].phase # "idle" /\ worker[w].image = i
AtWork(w, i) == worker[w].phase = "at work" /\ worker[w].image = i

(* No message and no worker is about an image not yet added.  Unless a lost  *)
(* worker's message came back there is one message or one worker at work for *)
(* an image, on the file given last, and none for one that is ready.         *)
FileFits(i) ==
    /\ given[i] = NoFile => /\ image[i].status = "none" /\ jobs[i] = 0
                            /\ \A w \in Worker : ~Busy(w, i)
    /\ image[i].status \in Temporary => image[i].source = given[i]
    /\ i \notin again =>
           /\ jobs[i] <= 1
           /\ \A v, w \in Worker : AtWork(v, i) /\ AtWork(w, i) => v = w
           /\ \A w \in Worker : AtWork(w, i) =>
                  /\ jobs[i] = 0 /\ image[i].status \notin {"failed", "ready"}
                  /\ image[i].status \in Temporary => worker[w].source = given[i]
           /\ image[i].status \in {"failed", "ready"} => jobs[i] = 0
           /\ image[i].status = "ready" => image[i].shown = given[i]

\* A step that is not about this image, or that lets a worker go.
LEMMA FilesKept ==
    ASSUME NEW i \in Image, FileFits(i),
           image'[i].status = image[i].status, image'[i].source = image[i].source,
           image'[i].shown = image[i].shown, given'[i] = given[i], jobs'[i] = jobs[i],
           i \in again => i \in again',
           \A w \in Worker : Busy(w, i)' => Busy(w, i),
           \A w \in Worker : AtWork(w, i)' => AtWork(w, i) /\ worker'[w].source = worker[w].source
    PROVE  FileFits(i)'
BY DEF FileFits

LEMMA FilesUntouched ==
    ASSUME \A i \in Image : FileFits(i), UNCHANGED <<given, jobs, worker, again>>,
           \A i \in Image : /\ image'[i].status = image[i].status
                            /\ image'[i].source = image[i].source
                            /\ image'[i].shown = image[i].shown
    PROVE  \A i \in Image : FileFits(i)'
<1> TAKE i \in Image
<1> QED BY FilesKept DEF Busy, AtWork

\* A new file is given for an image that nothing is underway for.
LEMMA FileGiven ==
    ASSUME NEW i \in Image, FileFits(i), WorkTyped,
           given[i] = NoFile \/ image[i].status = "failed",
           given'[i] # NoFile, image'[i].status = "pending", image'[i].source = given'[i],
           jobs'[i] = jobs[i] \/ jobs'[i] = jobs[i] + 1,
           UNCHANGED <<worker, again>>
    PROVE  FileFits(i)'
<1>1. jobs[i] \in Nat /\ image'[i].status \in Temporary
      /\ image'[i].status \notin {"failed", "ready"}
  BY DEF WorkTyped, Temporary
<1>2. \A w \in Worker : /\ (Busy(w, i)' <=> Busy(w, i)) /\ (AtWork(w, i)' <=> AtWork(w, i))
                        /\ AtWork(w, i) => Busy(w, i)
  BY DEF Busy, AtWork
<1>3. CASE i \in again
  BY <1>1, <1>3 DEF FileFits
<1>4. CASE i \notin again
  <2>1. jobs[i] = 0 /\ \A w \in Worker : ~AtWork(w, i)
    BY <1>2, <1>4 DEF FileFits, Temporary
  <2> QED BY <2>1, <1>1, <1>2, <1>4 DEF FileFits
<1> QED BY <1>3, <1>4

\* An image goes.
LEMMA FileGoes ==
    ASSUME NEW i \in Existing, FileFits(i), image'[i].status = "none",
           UNCHANGED <<given, jobs, worker, again>>
    PROVE  FileFits(i)'
<1>1. given[i] # NoFile /\ image'[i].status \notin Temporary \union {"failed", "ready"}
  BY DEF FileFits, Existing, Temporary
<1>2. \A w \in Worker : (Busy(w, i)' <=> Busy(w, i)) /\ (AtWork(w, i)' <=> AtWork(w, i))
  BY DEF Busy, AtWork
<1> QED BY <1>1, <1>2 DEF FileFits

\* What the rows and the workers hold together.
ImagesHold == RowsHold /\ WorkTyped /\ \A i \in Image : FileFits(i)

\* A row with another status, file or age is a row.
LEMMA RowWith ==
    ASSUME NEW r \in Row, NEW s \in Temporary \union {"ready", "none"},
           NEW source \in File, NEW variants \in File
    PROVE  /\ [r EXCEPT !.status = s, !.source = source, !.shown = variants, !.old = FALSE] \in Row
           /\ [r EXCEPT !.status = s, !.shown = variants, !.source = source, !.old = FALSE] \in Row
           /\ [r EXCEPT !.status = s, !.old = FALSE] \in Row
           /\ [r EXCEPT !.old = TRUE] \in Row
<1>1. FALSE \in BOOLEAN /\ TRUE \in BOOLEAN
  OBVIOUS
<1> QED BY ONLY <1>1, r \in Row, s \in Temporary \union {"ready", "none"}, source \in File,
        variants \in File DEF Row

LEMMA BeginHolds ==
    ASSUME ImagesHold, NEW w \in Worker, NEW i \in Image, Begin(w, i)
    PROVE  ImagesHold'
<1>1. /\ worker[w] = Idle /\ jobs[i] > 0 /\ jobs' = [jobs EXCEPT ![i] = @ - 1]
      /\ UNCHANGED <<submission_state, media_complete, edit, cleaner, uploads, given, again,
                      faults>>
      /\ edit = NoEdit
  BY DEF Begin, files
<1>2. image \in [Image -> Row] /\ WorkTyped /\ RowsHold /\ \A k \in Image : FileFits(k)
  BY DEF ImagesHold, RowsHold, ImageRows
<1>3. jobs[i] \in Nat /\ jobs'[i] = jobs[i] - 1 /\ \A k \in Image \ {i} : jobs'[k] = jobs[k]
  BY <1>1, <1>2 DEF WorkTyped
<1>4. i \in 0..MaxImages /\ image[i] \in Row
  BY <1>2, NumbersAreNatural DEF Image
<1>5. jobs' \in [Image -> Nat]
  <2>1. jobs \in [Image -> Nat]
    BY <1>2 DEF WorkTyped
  <2>2. jobs[i] - 1 \in Nat
    BY <1>1, <1>3
  <2> QED BY ONLY <1>1, <2>1, <2>2
<1>6. ~Busy(w, i)
  BY <1>1 DEF Busy, Idle
<1>7. CASE image[i].status \in {"none", "ready"}
  <2>1. worker' = [worker EXCEPT ![w] = [phase |-> "done", image |-> i, source |-> NoFile]]
        /\ UNCHANGED image
    BY <1>7 DEF Begin
  <2>2. WorkTyped'
    <3>1. NoFile \in File
      BY NumbersAreNatural DEF File, NoFile
    <3> QED BY <1>1, <1>2, <1>4, <1>5, <2>1, <3>1 DEF WorkTyped
  <2>3. RowsHold'
    BY <1>1, <1>2, <2>1, RowsKept
  <2>4. worker'[w].phase = "done" /\ worker'[w].image = i
        /\ \A v \in Worker \ {w} : worker'[v] = worker[v]
    BY <1>2, <2>1 DEF WorkTyped
  <2>5. \A v \in Worker, k \in Image :
           /\ AtWork(v, k)' => AtWork(v, k) /\ worker'[v].source = worker[v].source
           /\ k # i => (Busy(v, k)' => Busy(v, k))
    BY <2>4 DEF AtWork, Busy
  <2>6. ASSUME NEW k \in Image
        PROVE  FileFits(k)'
    <3>1. CASE k # i
      BY <3>1, <1>1, <1>2, <1>3, <2>1, <2>5, FilesKept
    <3>2. CASE k = i
      <4>1. given[i] # NoFile
        BY <1>1, <1>2, <1>3 DEF FileFits
      <4>2. FileFits(i) /\ image[i].status \notin Temporary
        BY <1>2, <1>7 DEF Temporary
      <4> QED BY <4>1, <4>2, <3>2, <1>1, <1>3, <2>1, <2>5 DEF FileFits
    <3> QED BY <3>1, <3>2
  <2> QED BY <2>2, <2>3, <2>6 DEF ImagesHold
<1>8. CASE image[i].status \notin {"none", "ready"}
  <2> DEFINE r == [image[i] EXCEPT !.status = "processing", !.old = FALSE]
  <2>1. /\ worker' = [worker EXCEPT ![w] = [phase |-> "at work", image |-> i,
                                            source |-> image[i].source]]
        /\ image' = [image EXCEPT ![i] = r]
    BY <1>8 DEF Begin
  <2>2. image[i].status \in Temporary /\ image[i].source \in File
    BY <1>4, <1>8 DEF Row
  <2>3. r \in Row
    BY <1>4, RowWith, <2>2 DEF Temporary
  <2>4. /\ r.position = image[i].position /\ r.primary = image[i].primary /\ r.status = "processing"
        /\ r.source = image[i].source /\ r.shown = image[i].shown
    BY <1>4 DEF Row
  <2> HIDE DEF r
  <2>5. RowsHold'
    BY <1>1, <1>2, <2>1, <2>2, <2>3, <2>4, RowTouched
  <2>6. WorkTyped'
    BY <1>1, <1>2, <1>4, <1>5, <2>1, <2>2 DEF WorkTyped
  <2>7. /\ worker'[w].phase = "at work" /\ worker'[w].image = i
        /\ worker'[w].source = image[i].source
        /\ \A v \in Worker \ {w} : worker'[v] = worker[v]
    BY <1>2, <2>1 DEF WorkTyped
  <2>8. image'[i] = r /\ \A k \in Image \ {i} : image'[k] = image[k]
    BY <1>2, <2>1
  <2>9. ASSUME NEW k \in Image, k # i
        PROVE  FileFits(k)'
    <3>1. \A v \in Worker : /\ AtWork(v, k)' => AtWork(v, k) /\ worker'[v].source = worker[v].source
                            /\ Busy(v, k)' => Busy(v, k)
      BY <2>7, <2>9 DEF AtWork, Busy
    <3> QED BY <3>1, <2>9, <1>1, <1>2, <1>3, <2>8, FilesKept
  <2>10. FileFits(i)'
    <3>1. FileFits(i) /\ image'[i].status = "processing" /\ image'[i].source = image[i].source
      BY <1>2, <2>4, <2>8
    <3>2. given[i] # NoFile /\ image[i].source = given[i]
      BY <3>1, <1>1, <1>3, <2>2 DEF FileFits
    <3>3. CASE i \in again
      BY <3>1, <3>2, <3>3, <1>1 DEF FileFits
    <3>4. CASE i \notin again
      <4>1. jobs[i] = 1 /\ jobs'[i] = 0 /\ \A v \in Worker : ~AtWork(v, i)
        BY <3>1, <3>4, <1>1, <1>3 DEF FileFits
      <4>2. \A v \in Worker : AtWork(v, i)' => v = w
        BY <4>1, <2>7 DEF AtWork
      <4>3. \A v \in Worker : AtWork(v, i)' => worker'[v].source = given[i]
        BY <4>2, <2>7, <3>2
      <4>4. \A v, u \in Worker : AtWork(v, i)' /\ AtWork(u, i)' => v = u
        BY <4>2
      <4> QED BY <4>1, <4>3, <4>4, <3>1, <3>2, <1>1 DEF FileFits
    <3> QED BY <3>3, <3>4
  <2> QED BY <2>5, <2>6, <2>9, <2>10 DEF ImagesHold
<1> QED BY <1>7, <1>8

\* A worker is done with an image, which takes the status s if it still waits.

LEMMA NoFileIsFile == NoFile \in File /\ 0 \in 0..MaxImages
BY NumbersAreNatural DEF File, NoFile

LEMMA IdleTyped == Idle \in [phase : {"idle", "at work", "done"},
                              image : 0..MaxImages, source : File]
BY NoFileIsFile DEF Idle

LEMMA EndHolds ==
    ASSUME ImagesHold, NEW w \in Worker, Store(w) \/ MarkFailed(w)
    PROVE  ImagesHold'
<1>a. worker[w].phase # "idle"
  BY DEF Store, MarkFailed
<1>b. PICK i \in Image : i = worker[w].image
  BY <1>a DEF ImagesHold, WorkTyped
<1>1. /\ worker[w].phase = "at work" /\ Ends(w) /\ edit = NoEdit
      /\ UNCHANGED <<submission_state, media_complete, edit, jobs, cleaner, uploads, given,
                      again, faults>>
  BY DEF Store, MarkFailed, files
<1>2. image \in [Image -> Row] /\ WorkTyped /\ RowsHold /\ \A k \in Image : FileFits(k)
  BY DEF ImagesHold, RowsHold, ImageRows
<1>3. i \in Image /\ worker[w].source \in File /\ NoFile \in File
  BY <1>1, <1>2, NoFileIsFile DEF WorkTyped
<1>4. /\ worker'[w].phase = "done" /\ worker'[w].image = i
      /\ \A v \in Worker \ {w} : worker'[v] = worker[v]
  BY <1>1, <1>2, <1>b DEF WorkTyped, Ends
<1>5. WorkTyped'
  <2>1. worker' \in [Worker -> [phase : {"idle", "at work", "done"},
                                      image : 0..MaxImages, source : File]]
    BY <1>1, <1>2, <1>3 DEF WorkTyped, Ends
  <2>2. \A v \in Worker : worker'[v].phase # "idle" => worker'[v].image \in Image
    BY <1>2, <1>3, <1>4 DEF WorkTyped
  <2> QED BY <2>1, <2>2, <1>1, <1>2 DEF WorkTyped
<1>6. \A v \in Worker, k \in Image :
         /\ AtWork(v, k)' => v # w /\ AtWork(v, k) /\ worker'[v].source = worker[v].source
         /\ Busy(v, k)' => Busy(v, k)
  BY <1>1, <1>b, <1>4 DEF AtWork, Busy
<1>7. AtWork(w, i) /\ Busy(w, i)
  BY <1>1, <1>b DEF AtWork, Busy
<1>8. CASE UNCHANGED image
  <2>1. RowsHold'
    BY <1>1, <1>2, <1>8, RowsKept
  <2>2. ASSUME NEW k \in Image
        PROVE  FileFits(k)'
    BY <1>1, <1>2, <1>6, <1>8, FilesKept
  <2> QED BY <1>5, <2>1, <2>2 DEF ImagesHold
<1>9. CASE ~UNCHANGED image
  <2>1. /\ image[i].status \in Temporary
        /\ \/ /\ worker[w].source # NoFile
              /\ image' = [image EXCEPT ![i] = [@ EXCEPT !.status = "ready", !.source = NoFile,
                                                 !.shown = worker[w].source, !.old = FALSE]]
           \/ image' = [image EXCEPT ![i] = [@ EXCEPT !.status = "failed", !.old = FALSE]]
    BY <1>9, <1>b DEF Store, MarkFailed
  <2>2. image[i] \in Row
    BY <1>2, <1>3
  <2>3. PICK r \in Row : /\ r.position = image[i].position /\ r.primary = image[i].primary
                         /\ \/ r.status = "ready" /\ r.shown = worker[w].source
                            \/ r.status = "failed" /\ r.source = image[i].source
                         /\ image' = [image EXCEPT ![i] = r]
    <3>1. CASE image' = [image EXCEPT ![i] = [@ EXCEPT !.status = "ready", !.source = NoFile,
                                              !.shown = worker[w].source, !.old = FALSE]]
      <4> DEFINE r == [image[i] EXCEPT !.status = "ready", !.source = NoFile,
                                       !.shown = worker[w].source, !.old = FALSE]
      <4>1. r \in Row
        BY RowWith, <1>3, <2>2
      <4>2. /\ r.position = image[i].position /\ r.primary = image[i].primary
            /\ r.status = "ready" /\ r.shown = worker[w].source
        BY <2>2 DEF Row
      <4>3. image' = [image EXCEPT ![i] = r]
        BY <3>1, <1>2, <1>3
      <4> HIDE DEF r
      <4> QED BY <4>1, <4>2, <4>3
    <3>2. CASE image' = [image EXCEPT ![i] = [@ EXCEPT !.status = "failed", !.old = FALSE]]
      <4> DEFINE r == [image[i] EXCEPT !.status = "failed", !.old = FALSE]
      <4>1. r \in Row
        BY RowWith, <1>3, <2>2 DEF Temporary
      <4>2. /\ r.position = image[i].position /\ r.primary = image[i].primary
            /\ r.status = "failed" /\ r.source = image[i].source
        BY <2>2 DEF Row
      <4>3. image' = [image EXCEPT ![i] = r]
        BY <3>2, <1>2, <1>3
      <4> HIDE DEF r
      <4> QED BY <4>1, <4>2, <4>3
    <3> QED BY <2>1, <3>1, <3>2
  <2>4. RowsHold'
    BY <1>1, <1>2, <1>3, <2>1, <2>3, RowTouched
  <2>5. image'[i] = r /\ \A k \in Image \ {i} : image'[k] = image[k]
    BY <1>2, <1>3, <2>3
  <2>6. ASSUME NEW k \in Image, k # i
        PROVE  FileFits(k)'
    BY <2>5, <2>6, <1>1, <1>2, <1>6, FilesKept
  <2>7. FileFits(i)'
    <3>1. FileFits(i)
      BY <1>2, <1>3
    <3>2. given[i] # NoFile /\ image[i].source = given[i]
      BY <3>1, <1>7, <2>1 DEF FileFits
    <3>3. r.status = "failed" => r.source = given[i]
      BY <2>3, <3>2
    <3>4. CASE i \in again
      BY <3>2, <3>3, <3>4, <1>1, <2>3, <2>5 DEF FileFits, Temporary
    <3>5. CASE i \notin again
      <4>1. jobs[i] = 0 /\ worker[w].source = given[i] /\ \A v \in Worker : AtWork(v, i) => v = w
        BY <3>1, <3>5, <1>7, <2>1 DEF FileFits
      <4>2. \A v \in Worker : ~AtWork(v, i)'
        BY <4>1, <1>3, <1>6
      <4>3. r.status = "ready" => r.shown = given[i]
        BY <2>3, <4>1
      <4>4. image'[i].status \in {"ready", "failed"} /\ jobs'[i] = 0
        BY <4>1, <1>1, <2>3, <2>5
      <4>5. image'[i].status = "ready" => image'[i].shown = given'[i]
        BY <4>3, <2>5, <1>1
      <4>6. image'[i].status \in Temporary => image'[i].source = given'[i]
        BY <4>4, <3>3, <2>5, <1>1 DEF Temporary
      <4>7. given'[i] = given[i] /\ given[i] # NoFile
        BY <1>1, <3>2
      <4> QED BY ONLY <4>2, <4>4, <4>5, <4>6, <4>7 DEF FileFits
    <3> QED BY <3>4, <3>5
  <2> QED BY <1>5, <2>4, <2>6, <2>7 DEF ImagesHold
<1> QED BY <1>8, <1>9

LEMMA LeaveHolds ==
    ASSUME ImagesHold, NEW w \in Worker, Acknowledge(w) \/ Fault(w) \/ Lose(w)
    PROVE  ImagesHold'
<1>a. worker[w].phase # "idle"
  BY DEF Acknowledge, Fault, Lose
<1>b. PICK i \in Image : i = worker[w].image
  BY <1>a DEF ImagesHold, WorkTyped
<1>1. /\ worker[w].phase # "idle" /\ worker' = [worker EXCEPT ![w] = Idle]
      /\ UNCHANGED <<image, submission_state, media_complete, edit, cleaner, uploads, given>>
  BY DEF Acknowledge, Fault, Lose, files, rows
<1>2. WorkTyped /\ RowsHold /\ \A k \in Image : FileFits(k)
  BY DEF ImagesHold
<1>4. /\ worker'[w].phase = "idle" /\ \A v \in Worker \ {w} : worker'[v] = worker[v]
      /\ worker' \in [Worker -> [phase : {"idle", "at work", "done"},
                                      image : 0..MaxImages, source : File]]
      /\ jobs \in [Image -> Nat]
  <2>1. /\ worker \in [Worker -> [phase : {"idle", "at work", "done"},
                                  image : 0..MaxImages, source : File]]
        /\ jobs \in [Image -> Nat]
    BY <1>2 DEF WorkTyped
  <2>2. worker' = [worker EXCEPT ![w] = Idle]
    BY <1>1
  <2>3. Idle.phase = "idle"
    BY DEF Idle
  <2> QED BY ONLY <2>1, <2>2, <2>3, IdleTyped
<1>5. RowsHold'
  BY <1>1, <1>2, RowsKept
<1>6. \A v \in Worker, k \in Image :
         /\ AtWork(v, k)' => v # w /\ AtWork(v, k) /\ worker'[v].source = worker[v].source
         /\ Busy(v, k)' => Busy(v, k)
  BY <1>1, <1>4 DEF AtWork, Busy
<1>7. Busy(w, i)
  BY <1>1, <1>b DEF Busy
<1>8. CASE Acknowledge(w)
  <2>1. UNCHANGED <<jobs, again, faults>>
    BY <1>8 DEF Acknowledge
  <2>2. \A k \in Image : FileFits(k)'
    BY <2>1, <1>1, <1>2, <1>6, FilesKept
  <2>3. WorkTyped'
    BY <2>1, <1>1, <1>2, <1>4 DEF WorkTyped
  <2> QED BY <2>2, <2>3, <1>5 DEF ImagesHold
<1>9. CASE Fault(w)
  <2>1. /\ worker[w].phase = "at work" /\ faults < MaxFaults /\ faults' = faults + 1
        /\ jobs' = [jobs EXCEPT ![i] = @ + 1] /\ UNCHANGED again
    BY <1>9, <1>b DEF Fault
  <2>2. jobs'[i] = jobs[i] + 1 /\ \A k \in Image \ {i} : jobs'[k] = jobs[k]
    BY <2>1, <1>4
  <2>3. WorkTyped'
    <3>1. jobs' \in [Image -> Nat]
      <4>1. \A n \in Nat : n + 1 \in Nat
        OBVIOUS
      <4> QED BY ONLY <4>1, <2>1, <1>4
    <3>2. faults' \in 0..MaxFaults
      <4>1. faults \in 0..MaxFaults
        BY <1>2 DEF WorkTyped
      <4>2. faults < MaxFaults /\ faults' = faults + 1
        BY <2>1
      <4> QED BY ONLY <4>1, <4>2, NumbersAreNatural
    <3> QED BY <3>1, <3>2, <2>1, <1>1, <1>2, <1>4 DEF WorkTyped
  <2>4. ASSUME NEW k \in Image, k # i
        PROVE  FileFits(k)'
    BY <2>1, <2>2, <2>4, <1>1, <1>2, <1>6, FilesKept
  <2>5. FileFits(i)'
    <3>1. FileFits(i) /\ AtWork(w, i)
      BY <1>2, <1>b, <2>1 DEF AtWork
    <3>2. given[i] # NoFile
      BY <3>1, <1>7 DEF FileFits
    <3>3. CASE i \in again
      BY <3>1, <3>2, <3>3, <1>1, <2>1 DEF FileFits
    <3>4. CASE i \notin again
      <4>1. /\ jobs'[i] = 1 /\ image[i].status \notin {"failed", "ready"}
            /\ \A v \in Worker : AtWork(v, i) => v = w
        BY <3>1, <3>4, <2>2 DEF FileFits
      <4>2. \A v \in Worker : ~AtWork(v, i)'
        BY <4>1, <1>6
      <4> QED BY <4>1, <4>2, <3>1, <3>2, <1>1 DEF FileFits
    <3> QED BY <3>3, <3>4
  <2> QED BY <2>3, <2>4, <2>5, <1>5 DEF ImagesHold
<1>10. CASE Lose(w)
  <2>1. /\ jobs' = [jobs EXCEPT ![i] = @ + 1] /\ again' = again \union {i} /\ UNCHANGED faults
    BY <1>10, <1>b DEF Lose
  <2>2. \A k \in Image \ {i} : jobs'[k] = jobs[k]
    BY <2>1, <1>4
  <2>3. WorkTyped'
    <3>1. jobs' \in [Image -> Nat]
      <4>1. \A n \in Nat : n + 1 \in Nat
        OBVIOUS
      <4> QED BY ONLY <4>1, <2>1, <1>4
    <3> QED BY <3>1, <2>1, <1>1, <1>2, <1>4 DEF WorkTyped
  <2>4. ASSUME NEW k \in Image, k # i
        PROVE  FileFits(k)'
    BY <2>1, <2>2, <2>4, <1>1, <1>2, <1>6, FilesKept
  <2>5. FileFits(i)'
    <3>1. FileFits(i)
      BY <1>2
    <3>2. given[i] # NoFile
      BY <3>1, <1>7 DEF FileFits
    <3> QED BY <3>1, <3>2, <2>1, <1>1 DEF FileFits
  <2> QED BY <2>3, <2>4, <2>5, <1>5 DEF ImagesHold
<1> QED BY <1>8, <1>9, <1>10

\* Uploads, of a new image or in the place of one that failed.
LEMMA UploadHolds ==
    ASSUME ImagesHold, NEW i \in Image, Add(i) \/ Replace(i)
    PROVE  ImagesHold'
<1>1. /\ uploads < MaxUploads /\ uploads' = uploads + 1
      /\ given' = [given EXCEPT ![i] = uploads + 1]
      /\ \E sent \in {0, 1} : jobs' = [jobs EXCEPT ![i] = @ + sent]
      /\ UNCHANGED <<worker, again, faults, edit, cleaner>>
      /\ edit = NoEdit /\ submission_state' = "draft" /\ media_complete' = FALSE
  BY DEF Add, Replace, NewFile, Enqueue, PreparedForEdit, Editable
<1>2. image \in [Image -> Row] /\ WorkTyped /\ RowsHold /\ \A k \in Image : FileFits(k)
  BY DEF ImagesHold, RowsHold, ImageRows
<1>3. /\ uploads \in 0..MaxUploads /\ given \in [Image -> 0..uploads] /\ jobs \in [Image -> Nat]
  BY <1>2 DEF WorkTyped
<1>4. uploads \in Nat /\ uploads + 1 \in 0..MaxUploads
      /\ uploads + 1 \in File /\ uploads + 1 # NoFile
      /\ uploads + 1 \in 0..(uploads + 1)
  <2>1. uploads < MaxUploads
    BY <1>1
  <2> QED BY ONLY <1>3, <2>1, NumbersAreNatural DEF File, NoFile
<1>5. /\ jobs' \in [Image -> Nat] /\ (jobs'[i] = jobs[i] \/ jobs'[i] = jobs[i] + 1)
      /\ \A k \in Image \ {i} : jobs'[k] = jobs[k]
  <2>1. PICK sent \in {0, 1} : jobs' = [jobs EXCEPT ![i] = @ + sent]
    BY <1>1
  <2>2. jobs[i] + sent \in Nat /\ jobs[i] \in Nat
    BY <1>3
  <2>3. jobs'[i] = jobs[i] + sent
    BY ONLY <2>1, <2>2, <1>3
  <2>4. jobs' \in [Image -> Nat] /\ \A k \in Image \ {i} : jobs'[k] = jobs[k]
    BY ONLY <2>1, <2>2, <1>3
  <2> QED BY ONLY <2>2, <2>3, <2>4, sent \in {0, 1}
<1>6. /\ given' \in [Image -> 0..uploads'] /\ given'[i] = uploads + 1
      /\ \A k \in Image \ {i} : given'[k] = given[k]
  <2>1. \A k \in Image : given[k] \in 0..(uploads + 1)
    BY <1>3, <1>4
  <2>2. given' = [given EXCEPT ![i] = uploads + 1] /\ uploads' = uploads + 1
    BY <1>1
  <2> QED BY ONLY <2>1, <2>2, <1>3, <1>4
<1>7. WorkTyped'
  <2>1. uploads' \in 0..MaxUploads
    BY <1>1, <1>4
  <2>2. UNCHANGED <<worker, cleaner, again, faults>>
    BY <1>1
  <2>3. jobs' \in [Image -> Nat]
    BY <1>5
  <2> QED BY ONLY <1>2, <1>6, <2>1, <2>2, <2>3 DEF WorkTyped
<1>8. /\ RowsHold' /\ image'[i].status = "pending" /\ image'[i].source = uploads + 1
      /\ \A k \in Image \ {i} : image'[k] = image[k]
      /\ given[i] = NoFile \/ image[i].status = "failed"
  <2>1. CASE Add(i)
    <3>1. given[i] = NoFile /\ FileFits(i)
      BY <2>1, <1>2 DEF Add
    <3>2. RowsHold'
      BY <2>1, <3>1, <1>2, <1>4, AddHolds DEF FileFits
    <3>3. PICK r : r.status = "pending" /\ r.source = uploads + 1
                     /\ image' = [image EXCEPT ![i] = r]
      <4> DEFINE first == (Cardinality(Existing) = 0)
                 n == Cardinality(Existing)
      <4> HIDE DEF first, n
      <4>1. /\ [NoRow EXCEPT !.status = "pending", !.position = n, !.primary = first,
                             !.source = uploads + 1].status = "pending"
            /\ [NoRow EXCEPT !.status = "pending", !.position = n, !.primary = first,
                             !.source = uploads + 1].source = uploads + 1
        BY DEF NoRow
      <4> QED BY <4>1, <2>1 DEF Add, first, n
    <3> QED BY <3>1, <3>2, <3>3, <1>2
  <2>2. CASE Replace(i)
    <3> DEFINE r == [image[i] EXCEPT !.status = "pending", !.shown = NoFile,
                                     !.source = uploads + 1, !.old = FALSE]
    <3>1. image[i].status = "failed" /\ image' = [image EXCEPT ![i] = r]
      BY <2>2 DEF Replace
    <3>2. image[i] \in Row /\ image[i].status \in Temporary
      BY <1>2, <3>1 DEF Temporary
    <3>3. r \in Row
      BY RowWith, <1>4, <3>2, NoFileIsFile DEF Temporary
    <3>4. /\ r.position = image[i].position /\ r.primary = image[i].primary
          /\ r.status = "pending" /\ r.source = uploads + 1
      BY <3>2 DEF Row
    <3> HIDE DEF r
    <3>5. RowsHold'
      BY <1>1, <1>2, <3>1, <3>2, <3>3, <3>4, RowTouched
    <3> QED BY <3>1, <3>4, <3>5, <1>2
  <2> QED BY <2>1, <2>2
<1>9. ASSUME NEW k \in Image, k # i
      PROVE  FileFits(k)'
  BY <1>9, <1>1, <1>2, <1>5, <1>6, <1>8, FilesKept DEF Busy, AtWork
<1>10. FileFits(i)'
  BY <1>1, <1>2, <1>4, <1>5, <1>6, <1>8, FileGiven
<1> QED BY <1>7, <1>8, <1>9, <1>10 DEF ImagesHold

\* Removal, by the Submitter or by the cleanup.
LEMMA RemovalHolds ==
    ASSUME ImagesHold, NEW i \in Existing, edit = NoEdit, RemoveImage(i),
           submission_state' = "draft",
           cleaner' \subseteq Image
    PROVE  ImagesHold'
<1>1. /\ image' = [image EXCEPT ![i] = NoRow]
      /\ UNCHANGED <<jobs, worker, again, faults, uploads, given>>
  BY DEF RemoveImage, work, files
<1>2. image \in [Image -> Row] /\ WorkTyped /\ RowsHold /\ \A k \in Image : FileFits(k)
  BY DEF ImagesHold, RowsHold, ImageRows
<1>3. i \in Image
  BY DEF Existing
<1>4. image'[i].status = "none" /\ \A k \in Image \ {i} : image'[k] = image[k]
  <2>1. NoRow.status = "none"
    BY DEF NoRow
  <2> QED BY <2>1, <1>1, <1>2, <1>3
<1>5. RowsHold'
  BY <1>2, RemoveHolds
<1>6. WorkTyped'
  BY <1>1, <1>2 DEF WorkTyped
<1>7. ASSUME NEW k \in Image
      PROVE  FileFits(k)'
  <2>1. CASE k = i
    BY <2>1, <1>1, <1>2, <1>4, FileGoes
  <2>2. CASE k # i
    BY <2>2, <1>1, <1>2, <1>4, FilesKept DEF Busy, AtWork
  <2> QED BY <2>1, <2>2
<1> QED BY <1>5, <1>6, <1>7 DEF ImagesHold

\* Steps that leave files, messages and workers alone.
LEMMA OthersHold ==
    ASSUME ImagesHold,
           \/ \E plan \in SetToSeqs(Existing), primary \in Image : Reorder(plan, primary)
           \/ Statement \/ CompleteMedia \/ Submit
           \/ \E decision \in {"decided", "rejected"} : Decide(decision)
           \/ \E i \in Image : Age(i)
           \/ ReadAbandoned
           \/ \E i \in Image : CleanNext(i) /\ ~(Abandoned(i) /\ submission_state = "draft")
           \/ UNCHANGED imageVars
    PROVE  ImagesHold'
<1>1. /\ UNCHANGED <<jobs, worker, again, faults, uploads, given>>
      /\ cleaner' = cleaner \/ cleaner' \subseteq Image
  BY DEF Reorder, Statement, Shift, ClearPrimary, Renumber, Commit, CompleteMedia, Submit, Decide,
         Age, ReadAbandoned, CleanNext, imageVars, work, files, RemoveImage, ImagesHold, WorkTyped
<1>2. image \in [Image -> Row] /\ WorkTyped /\ RowsHold /\ \A k \in Image : FileFits(k)
  BY DEF ImagesHold, RowsHold, ImageRows
<1>3. WorkTyped'
  BY <1>1, <1>2 DEF WorkTyped
<1>4. RowsHold'
  <2>1. ASSUME NEW plan \in SetToSeqs(Existing), NEW primary \in Image, Reorder(plan, primary)
        PROVE  RowsHold'
    BY <2>1, <1>2, ReorderHolds
  <2>2. CASE Statement
    BY <2>2, <1>2, ShiftHolds, ClearHolds, RenumberHolds, CommitHolds DEF Statement
  <2>3. CASE CompleteMedia \/ Submit \/ \E decision \in {"decided", "rejected"} : Decide(decision)
    BY <2>3, <1>2, CourseHolds
  <2>4. ASSUME NEW i \in Image, Age(i)
        PROVE  RowsHold'
    <3> DEFINE r == [image[i] EXCEPT !.old = TRUE]
    <3>1. /\ image[i].status \in Temporary /\ image' = [image EXCEPT ![i] = r]
          /\ UNCHANGED <<submission_state, media_complete, edit>>
      BY <2>4, <1>2 DEF Age
    <3>2. image[i] \in Row
      BY <1>2
    <3>3. /\ r.position = image[i].position /\ r.primary = image[i].primary
          /\ r.status = image[i].status /\ r.status # "none"
      BY <3>1, <3>2 DEF Row, Temporary
    <3>4. r \in Row
      BY RowWith, <3>2, NoFileIsFile DEF Temporary
    <3> HIDE DEF r
    <3> QED BY <3>1, <3>3, <3>4, <1>2, RowTouched
  <2>5. CASE \/ ReadAbandoned \/ UNCHANGED imageVars
             \/ \E i \in Image : CleanNext(i) /\ ~(Abandoned(i) /\ submission_state = "draft")
    <3>1. UNCHANGED <<image, edit, media_complete, submission_state>>
      BY <2>5 DEF ReadAbandoned, CleanNext, imageVars, rows
    <3> QED BY <3>1, <1>2, RowsKept
  <2> QED BY <2>1, <2>2, <2>3, <2>4, <2>5
<1>5. \A k \in Image : /\ image'[k].status = image[k].status
                       /\ image'[k].source = image[k].source
                       /\ image'[k].shown = image[k].shown
  <2> DEFINE Same == \A k \in Image : /\ image'[k].status = image[k].status
                                     /\ image'[k].source = image[k].source
                                     /\ image'[k].shown = image[k].shown
  <2> SUFFICES Same
    OBVIOUS
  <2>1. ASSUME NEW i \in Image, Shift(i)
        PROVE  Same
    BY <2>1, <1>2 DEF Shift, Row
  <2>2. CASE ClearPrimary
    BY <2>2, <1>2 DEF ClearPrimary, Row
  <2>3. CASE Renumber
    <3> DEFINE first == Head(edit.plan)
               is_primary == (first = edit.primary)
    <3>1. image' = [image EXCEPT ![first].position = edit.next, ![first].primary = is_primary]
      BY <2>3 DEF Renumber
    <3> HIDE DEF first, is_primary
    <3> QED BY <3>1, <1>2 DEF Row
  <2>4. ASSUME NEW i \in Image, Age(i)
        PROVE  Same
    BY <2>4, <1>2 DEF Age, Row
  <2>5. CASE UNCHANGED image
    BY <2>5
  <2>6. CASE ~UNCHANGED image
    BY <2>1, <2>2, <2>3, <2>4, <2>6
    DEF Reorder, Statement, Commit, CompleteMedia, Submit, Decide, ReadAbandoned, CleanNext,
        imageVars, rows
  <2> QED BY <2>5, <2>6
<1> QED BY <1>1, <1>2, <1>3, <1>4, <1>5, FilesUntouched DEF ImagesHold

LEMMA ImagesStep == ImagesHold /\ [ImagesNext]_imageVars => ImagesHold'
<1> SUFFICES ASSUME ImagesHold, [ImagesNext]_imageVars
             PROVE  ImagesHold'
  OBVIOUS
<1>1. ASSUME NEW i \in Image, Add(i) \/ Replace(i)
      PROVE  ImagesHold'
  BY <1>1, UploadHolds
<1>2. ASSUME NEW i \in Image, RemoveForActor(i)
      PROVE  ImagesHold'
  <2>1. /\ i \in Existing /\ edit = NoEdit /\ RemoveImage(i) /\ submission_state' = "draft"
        /\ cleaner' \subseteq Image
    BY <1>2 DEF RemoveForActor, PreparedForEdit, Editable, ImagesHold, WorkTyped
  <2> QED BY <2>1, RemovalHolds
<1>3. ASSUME NEW w \in Worker, \/ \E i \in Image : Begin(w, i)
                               \/ Store(w) \/ MarkFailed(w) \/ Acknowledge(w) \/ Fault(w) \/ Lose(w)
      PROVE  ImagesHold'
  BY <1>3, BeginHolds, EndHolds, LeaveHolds
<1>4. ASSUME NEW i \in Image, CleanNext(i), Abandoned(i), submission_state = "draft"
      PROVE  ImagesHold'
  <2>1. /\ edit = NoEdit /\ RemoveImage(i) /\ submission_state' = "draft"
        /\ cleaner' = cleaner \ {i}
        /\ i \in Existing /\ cleaner \subseteq Image
    BY <1>4 DEF CleanNext, Abandoned, Temporary, Existing, ImagesHold, WorkTyped
  <2> QED BY <2>1, RemovalHolds
<1>5. ASSUME \/ \E plan \in SetToSeqs(Existing), primary \in Image : Reorder(plan, primary)
             \/ Statement \/ CompleteMedia \/ Submit
             \/ \E decision \in {"decided", "rejected"} : Decide(decision)
             \/ \E i \in Image : Age(i)
             \/ ReadAbandoned
             \/ \E i \in Image : CleanNext(i) /\ ~(Abandoned(i) /\ submission_state = "draft")
             \/ UNCHANGED imageVars
      PROVE  ImagesHold'
  BY <1>5, OthersHold
<1> QED BY <1>1, <1>2, <1>3, <1>4, <1>5 DEF ImagesNext, SubmitterStep, Clean

LEMMA ImagesStart == ImagesInit => ImagesHold
<1> SUFFICES ASSUME ImagesInit
             PROVE  ImagesHold
  OBVIOUS
<1>1. /\ image = [i \in Image |-> NoRow] /\ submission_state = "draft" /\ media_complete = FALSE
      /\ edit = NoEdit /\ jobs = [i \in Image |-> 0] /\ worker = [w \in Worker |-> Idle]
      /\ cleaner = {} /\ uploads = 0 /\ given = [i \in Image |-> NoFile]
      /\ again = {} /\ faults = 0
  BY DEF ImagesInit
<1>2. \A i \in Image : image[i] = NoRow /\ image[i].status = "none"
  BY <1>1 DEF NoRow
<1>3. Existing = {} /\ Cardinality(Existing) = 0
  BY <1>2, FS_EmptySet DEF Existing
<1>4. ImageRows
  <2>1. NoEdit \in Edit
    <3>1. <<>> \in Seq(Image) /\ {} \in SUBSET Image /\ 0 \in Nat /\ 0 \in 0..MaxImages
      BY NumbersAreNatural
    <3>2. FALSE \in BOOLEAN
      OBVIOUS
    <3> QED BY ONLY <3>1, <3>2 DEF NoEdit, Edit
  <2>2. image \in [Image -> Row]
    BY <1>1, NoRowIsRow
  <2> QED BY <1>1, <2>1, <2>2 DEF ImageRows
<1>5. OrderHolds
  <2>1. {image[i].position : i \in Existing} = 0..(0 - 1)
    BY <1>3
  <2> QED BY <1>1, <1>3, <2>1, NumbersAreNatural DEF OrderHolds, ConstraintsHold, OrderIsDense
<1>6. MediaHold
  BY <1>1 DEF MediaHold
<1>7. WorkTyped
  <2>1. worker \in [Worker -> [phase : {"idle", "at work", "done"},
                                      image : 0..MaxImages, source : File]]
    BY <1>1, IdleTyped
  <2>2. \A w \in Worker : worker[w].phase = "idle"
    BY <1>1 DEF Idle
  <2>3. given \in [Image -> 0..uploads] /\ uploads \in 0..MaxUploads /\ faults \in 0..MaxFaults
        /\ jobs \in [Image -> Nat]
    BY <1>1, NumbersAreNatural DEF NoFile
  <2> QED BY <1>1, <2>1, <2>2, <2>3 DEF WorkTyped
<1>8. \A i \in Image : FileFits(i)
  <2> TAKE i \in Image
  <2>1. \A w \in Worker : ~Busy(w, i) /\ ~AtWork(w, i)
    BY <1>1 DEF Busy, AtWork, Idle
  <2>2. given[i] = NoFile /\ jobs[i] = 0 /\ image[i].status = "none"
    BY <1>1, <1>2
  <2> QED BY <2>1, <2>2 DEF FileFits, Temporary
<1> QED BY <1>4, <1>5, <1>6, <1>7, <1>8 DEF ImagesHold, RowsHold

LEMMA ImagesAlways == ImagesSpec => []ImagesHold
<1> QED BY ImagesStart, ImagesStep, PTL DEF ImagesSpec

(* For every number of workers, images, uploads and losses, and every          *)
(* MAX_SUBMISSION_IMAGES: the constraints of the image table hold after every  *)
(* statement, the order is dense between transactions, and what is submitted,   *)
(* reviewed or published has all its images ready.                             *)
THEOREM ImagesStand == ImagesSpec => []ImagesAreSound
<1>1. ImagesHold => ImagesAreSound
  BY DEF ImagesHold, RowsHold, OrderHolds, MediaHold, ImagesAreSound, ReviewedMediaReady
<1> QED BY <1>1, ImagesAlways, PTL

(* However messages are lost, repeated and overtaken by new uploads: a ready    *)
(* image shows the file given last, and stays until its Submitter removes it.   *)
THEOREM ReadyFilesStand == ImagesSpec => ReadyFilesHold
<1>1. ImagesHold => ImagesTypeOK /\ LatestFileShown
  <2> SUFFICES ASSUME ImagesHold
               PROVE  ImagesTypeOK /\ LatestFileShown
    OBVIOUS
  <2>1. edit.shift \subseteq Existing /\ ToSet(edit.plan) \subseteq Existing
    <3>1. CASE edit = NoEdit
      BY <3>1 DEF NoEdit, ToSet
    <3>2. CASE edit # NoEdit
      BY <3>2 DEF ImagesHold, RowsHold, OrderHolds, Renumbering
    <3> QED BY <3>1, <3>2
  <2>2. edit.op \in {"none", "reorder", "remove"} /\ image \in [Image -> Row]
    BY DEF ImagesHold, RowsHold, ImageRows, Edit
  <2>3. ImagesTypeOK
    BY <2>1, <2>2 DEF ImagesHold, RowsHold, MediaHold, WorkTyped, ImagesTypeOK
  <2>4. LatestFileShown
    BY DEF ImagesHold, FileFits, LatestFileShown
  <2> QED BY <2>3, <2>4
<1>2. ImagesHold /\ [ImagesNext]_imageVars =>
         [\A i \in Image : image[i].status = "ready" =>
             \/ image'[i].status = "ready" /\ image'[i].shown = image[i].shown
             \/ RemoveForActor(i)]_imageVars
  <2> SUFFICES ASSUME ImagesHold, ImagesNext, NEW i \in Image, image[i].status = "ready",
                      ~RemoveForActor(i)
               PROVE  image'[i].status = "ready" /\ image'[i].shown = image[i].shown
    OBVIOUS
  <2>1. image \in [Image -> Row] /\ \A k \in Image : FileFits(k)
    BY DEF ImagesHold, RowsHold, ImageRows
  <2>2. ASSUME NEW k \in Image, Add(k) \/ Replace(k) \/ RemoveForActor(k)
        PROVE  image'[i] = image[i]
    <3>1. k # i
      BY <2>1, <2>2 DEF Add, Replace, FileFits
    <3> QED BY <2>1, <2>2, <3>1 DEF Add, Replace, RemoveForActor, RemoveImage
  <2>3. ASSUME NEW k \in Image, Shift(k)
        PROVE  image'[i].status = image[i].status /\ image'[i].shown = image[i].shown
    BY <2>1, <2>3 DEF Shift, Row
  <2>4. CASE ClearPrimary
    BY <2>1, <2>4 DEF ClearPrimary, Row
  <2>5. CASE Renumber
    <3> DEFINE first == Head(edit.plan)
               is_primary == (first = edit.primary)
    <3>1. image' = [image EXCEPT ![first].position = edit.next, ![first].primary = is_primary]
      BY <2>5 DEF Renumber
    <3> HIDE DEF first, is_primary
    <3> QED BY <3>1, <2>1 DEF Row
  <2>6. ASSUME NEW w \in Worker, NEW k \in Image, Begin(w, k)
        PROVE  image'[i] = image[i]
    BY <2>1, <2>6 DEF Begin
  <2>7. ASSUME NEW w \in Worker, Store(w) \/ MarkFailed(w)
        PROVE  image'[i] = image[i]
    BY <2>1, <2>7 DEF Store, MarkFailed, Temporary
  <2>8. ASSUME NEW k \in Image, Age(k) \/ CleanNext(k)
        PROVE  image'[i] = image[i]
    BY <2>1, <2>8 DEF Age, CleanNext, Abandoned, Temporary, RemoveImage, rows
  <2>9. CASE UNCHANGED image
    BY <2>9
  <2> QED
    BY <2>2, <2>3, <2>4, <2>5, <2>6, <2>7, <2>8, <2>9
    DEF ImagesNext, SubmitterStep, Statement, Commit, Reorder, CompleteMedia, Submit, Decide,
        Acknowledge, Fault, Lose, Clean, ReadAbandoned, rows
<1> QED BY <1>1, <1>2, ImagesAlways, PTL DEF ImagesSpec, ReadyFilesHold, ReadyStaysReady
=============================================================================
