-------------------------- MODULE DecisionNotification --------------------------
(* The e-mail about one decision (apps/submissions/services.py, tasks.py).     *)
(* Such rows are historical: decisions made today are told by a                *)
(* SystemNotification. A row is dispatched by the beat job while it is pending  *)
(* or could not be dispatched, or by an Operator's retry; a Celery task sends    *)
(* the mail inside the transaction that records it.                             *)
EXTENDS Naturals

CONSTANTS
    MaxRetries,     \* retry_kwargs of deliver_submission_decision_notification
    MaxCalls,       \* bound: dispatches about to be made at the same time
    MaxMessages,    \* bound: messages underway with the same number of retries left
    MaxLosses,      \* bound: processes lost in the middle of something
    MaxOperator     \* bound: manual retries

ASSUME NotificationAssumption ==
    /\ MaxRetries \in Nat /\ MaxCalls \in Nat /\ MaxMessages \in Nat
    /\ MaxLosses \in Nat /\ MaxOperator \in Nat

Retries == 0..MaxRetries

VARIABLES
    status,     \* SubmissionDecisionNotification.status
    kind,       \* SubmissionDecisionNotification.failure_kind
    calls,      \* _dispatch_decision_notification calls about to run
    messages,   \* tasks underway at the broker, by the retries they have left
    tx,         \* the delivery that holds the row's lock
    mails,      \* history: mails the mail server accepted
    losses,     \* history: processes lost
    manual      \* history: manual retries

vars == <<status, kind, calls, messages, tx, mails, losses, manual>>

NoTx == [phase |-> "none", retries |-> 0]

Init ==
    /\ status \in {"pending", "failed"}
    /\ kind \in IF status = "pending" THEN {"none"} ELSE {"dispatch", "delivery"}
    /\ calls = 0
    /\ messages = [r \in Retries |-> 0]
    /\ tx = NoTx
    /\ mails = 0 /\ losses = 0 /\ manual = 0

Unlocked == tx = NoTx

\* Mutant: only rows that were never dispatched are owed.
DispatchFresh ==
    /\ status = "pending"
    /\ calls < MaxCalls
    /\ calls' = calls + 1
    /\ UNCHANGED <<status, kind, messages, tx, mails, losses, manual>>

\* dispatch_pending_decision_notifications reads what is owed without a lock.
DispatchPending ==
    /\ status = "pending" \/ kind = "dispatch"
    /\ calls < MaxCalls
    /\ calls' = calls + 1
    /\ UNCHANGED <<status, kind, messages, tx, mails, losses, manual>>

Queue(r) == messages[r] < MaxMessages /\ messages' = [messages EXCEPT ![r] = @ + 1]

\* The broker takes the message.
Dispatch ==
    /\ calls > 0
    /\ calls' = calls - 1
    /\ Queue(MaxRetries)
    /\ UNCHANGED <<status, kind, tx, mails, losses, manual>>

(* delay raises, and the broker may have the message all the same. The failure *)
(* is recorded under the lock, unless the mail has been delivered by then.     *)
Refuse ==
    /\ calls > 0 /\ Unlocked
    /\ calls' = calls - 1
    /\ Queue(MaxRetries) \/ UNCHANGED messages
    /\ IF status = "delivered" THEN UNCHANGED <<status, kind>>
       ELSE status' = "failed" /\ kind' = "dispatch"
    /\ UNCHANGED <<tx, mails, losses, manual>>

\* The process is lost before its dispatch: after a commit nothing else knows.
LoseCall ==
    /\ calls > 0 /\ losses < MaxLosses
    /\ calls' = calls - 1
    /\ losses' = losses + 1
    /\ UNCHANGED <<status, kind, messages, tx, mails, manual>>

\* Mutant: whatever the row says, the mail is sent.
TakeAny(r) ==
    /\ Unlocked /\ messages[r] > 0
    /\ messages' = [messages EXCEPT ![r] = @ - 1]
    /\ tx' = [phase |-> "begun", retries |-> r]
    /\ UNCHANGED <<status, kind, calls, mails, losses, manual>>

\* A worker takes a message and locks the row; a delivered one needs nothing.
Take(r) ==
    /\ Unlocked /\ messages[r] > 0
    /\ messages' = [messages EXCEPT ![r] = @ - 1]
    /\ tx' = IF status = "delivered" THEN NoTx ELSE [phase |-> "begun", retries |-> r]
    /\ UNCHANGED <<status, kind, calls, mails, losses, manual>>

\* EmailMessage.send: the mail is out before anything is committed.
Send ==
    /\ tx.phase = "begun"
    /\ mails' = mails + 1
    /\ tx' = [tx EXCEPT !.phase = "sent"]
    /\ UNCHANGED <<status, kind, calls, messages, losses, manual>>

\* The delivery is recorded, an earlier failure forgotten.
CommitDelivered ==
    /\ tx.phase = "sent"
    /\ status' = "delivered" /\ kind' = "none"
    /\ tx' = NoTx
    /\ UNCHANGED <<calls, messages, mails, losses, manual>>

(* No recipient, or the server refuses: the failure is committed, then raised, *)
(* and the task is retried while it has retries left.                          *)
CommitFailed ==
    /\ tx.phase = "begun"
    /\ status' = "failed" /\ kind' = "delivery"
    /\ tx' = NoTx
    /\ IF tx.retries > 0 THEN Queue(tx.retries - 1) ELSE UNCHANGED messages
    /\ UNCHANGED <<calls, mails, losses, manual>>

(* The worker is lost: the transaction rolls back, whether the mail is out or *)
(* not. Its unacknowledged message comes back or, killed by the time limit,   *)
(* does not.                                                                  *)
LoseWorker ==
    /\ tx # NoTx /\ losses < MaxLosses
    /\ losses' = losses + 1
    /\ tx' = NoTx
    /\ Queue(tx.retries) \/ UNCHANGED messages
    /\ UNCHANGED <<status, kind, calls, mails, manual>>

\* retry_submission_decision_notification: a failed one is owed again.
Retry ==
    /\ Unlocked
    /\ status = "failed" /\ manual < MaxOperator /\ calls < MaxCalls
    /\ manual' = manual + 1
    /\ status' = "pending" /\ kind' = "none"
    /\ calls' = calls + 1
    /\ UNCHANGED <<messages, tx, mails, losses>>

Receive == \E r \in Retries : Take(r)
Deliver == Send \/ CommitDelivered \/ CommitFailed

Next ==
    \/ DispatchPending \/ Dispatch \/ Refuse \/ LoseCall
    \/ Receive \/ Deliver \/ LoseWorker
    \/ Retry

Spec == Init /\ [][Next]_vars

(* Beat dispatches every five minutes; the broker refuses some messages but   *)
(* not all for ever; workers take messages, and a task ends.                  *)
Fairness ==
    /\ WF_vars(DispatchPending)
    /\ SF_vars(Dispatch)
    /\ SF_vars(Receive)
    /\ WF_vars(Deliver)

FairSpec == Spec /\ Fairness

-----------------------------------------------------------------------------

TypeOK ==
    /\ status \in {"pending", "delivered", "failed"}
    /\ kind \in {"none", "dispatch", "delivery"}
    /\ calls \in 0..MaxCalls
    /\ messages \in [Retries -> 0..MaxMessages]
    /\ tx \in [phase : {"none", "begun", "sent"}, retries : Retries]
    /\ mails \in Nat /\ losses \in 0..MaxLosses /\ manual \in 0..MaxOperator

(* Duplicate dispatches, retries of the task and of an Operator send one mail. *)
(* Only a worker lost between the sending and the commit makes it two.         *)
MailedOnce == mails <= 1 + losses

\* A row that says so was mailed, and its failure is forgotten.
DeliveredIsMailed == status = "delivered" => mails > 0 /\ kind = "none" /\ tx = NoTx

(* Delivered is the end: no late failure of a dispatch is recorded over it and *)
(* no message still underway mails again.                                      *)
DeliveredStays == [][status = "delivered" => UNCHANGED <<status, kind, mails>>]_vars

(* A decision whose mail is owed is mailed or is known to have failed at the   *)
(* mail server, whatever the broker refused and whichever process was lost.    *)
Owed == status = "pending" \/ kind = "dispatch"
OwedIsSettled == Owed ~> ~Owed

(* A decision is mailed once, the row says so when it was, and goes on to.     *)
DeliveryHolds == [](MailedOnce /\ DeliveredIsMailed) /\ DeliveredStays
=============================================================================
