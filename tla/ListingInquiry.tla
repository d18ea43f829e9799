--------------------------- MODULE ListingInquiry ---------------------------
(***************************************************************************)
(* Listing Inquiries, backend/apps/communications (services.py,            *)
(* signals.py, selectors.py): the private conversation of a renter with    *)
(* the submitter of a Listing, its reports and the evidence held for them, *)
(* the restrictions that come of it, and what remains when accounts go.    *)
(*                                                                         *)
(* Starting an inquiry locks the renter's account, a reply and a report    *)
(* lock the inquiry, an edit locks its message only.  Each of them reads   *)
(* what the others write, so they are two steps: from the lock to what was *)
(* read, and the commit.  Blocking, deciding, releasing and deleting take  *)
(* all the locks they need and then do not read anything else: one step,   *)
(* when the locks are free.                                                *)
(***************************************************************************)
EXTENDS Naturals, FiniteSets, Sequences

CONSTANTS
    User,         \* accounts
    Listing,
    Owner,        \* the submitter of the Submission of each Listing
    ColdLimit,    \* inquiries that an account may start in an hour
    Radius,       \* MESSAGE_REPORT_CONTEXT_RADIUS
    MaxPerInquiry, \* bound: messages of an inquiry
    MaxReports,   \* bound: reports
    MaxOpen       \* bound: transactions open at once

ASSUME OwnerAssumption == Owner \in [Listing -> User]
ASSUME NumbersAssumption ==
    ColdLimit \in Nat /\ Radius \in Nat /\ MaxPerInquiry \in Nat \ {0} /\ MaxReports \in Nat
    /\ MaxOpen \in Nat

VARIABLES
    accounts,    \* the accounts that are not deleted: a reference to one that
                 \* is has become NULL
    active,      \* the Listings that are published, available and active
    inquiry,     \* the state of each ListingInquiry
    recent,      \* those started in the last hour
    message,     \* the messages of each inquiry, by created_at
    report,      \* the ConversationReports, by created_at
    blocked,     \* AccountBlocks and ModeratedPairRestrictions: pairs
    suspended,   \* InquiryInitiationSuspensions
    open         \* transactions under way, and what they have read

talk == <<inquiry, recent, message>>
inquiryvars == <<accounts, active, talk, report, blocked, suspended, open>>

Inquiry == {i \in User \X Listing : Owner[i[2]] # i[1]}
Renter(i) == i[1]
Submitter(i) == Owner[i[2]]
Participants(i) == {Renter(i), Submitter(i)}
Text == {"first", "edited"}

InquiryInit ==
    /\ accounts = User /\ active = Listing
    /\ inquiry = [i \in Inquiry |-> "none"] /\ recent = {}
    /\ message = [i \in Inquiry |-> <<>>]
    /\ report = <<>> /\ blocked = {} /\ suspended = {} /\ open = {}

-----------------------------------------------------------------------------
(* Reading the rows.                                                        *)

Indices(i) == DOMAIN message[i]
Blocked(i) == Participants(i) \in blocked

(* has_deleted_participant                                                  *)
SomeoneDeleted(i) == ~(Participants(i) \subseteq accounts)

\* Mutant: restrictions are forgotten.
UnavailableDespiteBlock(i) == SomeoneDeleted(i) \/ i[2] \notin active

(* inquiry_reply_unavailable_reason.  The Submission keeps its submitter    *)
(* until that account is deleted.                                           *)
Unavailable(i) == SomeoneDeleted(i) \/ Blocked(i) \/ i[2] \notin active

(* conversation_report_evidence_holds                                       *)
Held(i, n) == \E r \in DOMAIN report : report[r].inquiry = i /\ n \in report[r].holds

Opened(kind) == {t \in open : t.kind = kind}
AccountLocked(a) == \E t \in Opened("start") : t.by = a
InquiryLocked(i) == \E t \in Opened("reply") \cup Opened("report") : t.inquiry = i
MessageLocked(i, n) == \E t \in Opened("edit") : t.inquiry = i /\ t.message = n

Open(t) == Cardinality(open) < MaxOpen /\ open' = open \cup {t}
Transaction(kind, a, i, n, evidence) ==
    [kind |-> kind, by |-> a, inquiry |-> i, message |-> n, evidence |-> evidence]

-----------------------------------------------------------------------------
(* Starting an inquiry.                                                     *)

ColdContacts(a) == {i \in recent : Renter(i) = a}

(* start_listing_inquiry, up to what it reads under the lock of the renter  *)
BeginStart(a, i) ==
    /\ a = Renter(i) /\ a \in accounts /\ ~AccountLocked(a)
    /\ a \notin suspended
    /\ i[2] \in active /\ Submitter(i) \in accounts /\ ~Blocked(i)
    /\ inquiry[i] = "none"
    /\ Cardinality(ColdContacts(a)) < ColdLimit
    /\ Open(Transaction("start", a, i, 0, {}))
    /\ UNCHANGED <<accounts, active, talk, report, blocked, suspended>>

\* Its commit, which fails if the submitter's account is gone by then.
CommitStart(t) ==
    /\ t.kind = "start" /\ Submitter(t.inquiry) \in accounts
    /\ inquiry' = [inquiry EXCEPT ![t.inquiry] = "kept"]
    /\ recent' = recent \cup {t.inquiry}
    /\ message' = [message EXCEPT ![t.inquiry] =
                      <<[author |-> t.by, text |-> "first", fresh |-> TRUE]>>]
    /\ open' = open \ {t}
    /\ UNCHANGED <<accounts, active, report, blocked, suspended>>

-----------------------------------------------------------------------------
(* Replies and edits.                                                       *)

(* reply_to_listing_inquiry, up to what it reads under the lock             *)
BeginReply(a, i) ==
    /\ inquiry[i] = "kept" /\ a \in Participants(i) \cap accounts
    /\ ~InquiryLocked(i)
    /\ ~Unavailable(i) /\ Len(message[i]) < MaxPerInquiry
    /\ Open(Transaction("reply", a, i, 0, {}))
    /\ UNCHANGED <<accounts, active, talk, report, blocked, suspended>>

CommitReply(t) ==
    /\ t.kind = "reply"
    /\ message' = [message EXCEPT ![t.inquiry] =
                      Append(@, [author |-> t.by, text |-> "first", fresh |-> TRUE])]
    /\ open' = open \ {t}
    /\ UNCHANGED <<accounts, active, inquiry, recent, report, blocked, suspended>>

\* Mutant: what is held is not asked.
BeginEditHeld(a, i, n) ==
    /\ n \in Indices(i) /\ message[i][n].author = a /\ a \in accounts
    /\ ~MessageLocked(i, n)
    /\ message[i][n].fresh
    /\ ~Unavailable(i)
    /\ Open(Transaction("edit", a, i, n, {}))
    /\ UNCHANGED <<accounts, active, talk, report, blocked, suspended>>

(* edit_listing_inquiry_message: inquiry_message_edit_denied_reason under   *)
(* the lock of the message                                                  *)
BeginEdit(a, i, n) ==
    /\ n \in Indices(i) /\ message[i][n].author = a /\ a \in accounts
    /\ ~MessageLocked(i, n)
    /\ ~Held(i, n) /\ message[i][n].fresh
    /\ ~Unavailable(i)
    /\ Open(Transaction("edit", a, i, n, {}))
    /\ UNCHANGED <<accounts, active, talk, report, blocked, suspended>>

CommitEdit(t) ==
    /\ t.kind = "edit"
    /\ message' = [message EXCEPT ![t.inquiry][t.message].text = "edited"]
    /\ open' = open \ {t}
    /\ UNCHANGED <<accounts, active, inquiry, recent, report, blocked, suspended>>

-----------------------------------------------------------------------------
(* Reports.                                                                 *)

\* The messages of the report: all, or the target and its neighbours.
Reported(i, target) ==
    IF target = 0 THEN Indices(i)
    ELSE {n \in Indices(i) : n + Radius >= target /\ n <= target + Radius}

(* report_listing_inquiry, up to the evidence it reads under the lock       *)
BeginReport(a, i, target) ==
    /\ inquiry[i] = "kept" /\ a \in Participants(i) \cap accounts
    /\ ~InquiryLocked(i) /\ ~SomeoneDeleted(i)
    /\ Len(report) + Cardinality(Opened("report")) < MaxReports
    /\ Open(Transaction("report", a, i, 0,
                        {<<n, message[i][n].text>> : n \in Reported(i, target)}))
    /\ UNCHANGED <<accounts, active, talk, report, blocked, suspended>>

\* The foreign keys of the holds wait for edits of the messages to end.
CommitReport(t) ==
    LET held == {e[1] : e \in t.evidence}
    IN  /\ t.kind = "report"
        /\ \A n \in held : ~MessageLocked(t.inquiry, n)
        /\ report' = Append(report, [inquiry |-> t.inquiry, status |-> "pending",
                                     retention |-> "investigation",
                                     evidence |-> t.evidence, holds |-> held])
        /\ open' = open \ {t}
        /\ UNCHANGED <<accounts, active, talk, blocked, suspended>>

Rollback(t) ==
    /\ open' = open \ {t}
    /\ UNCHANGED <<accounts, active, talk, report, blocked, suspended>>

(* cleanup_listing_inquiry: both accounts are gone, no report refers to the *)
(* inquiry (one that is decided does not) and no hold to a message of it.   *)
Removable(i, remaining, reports) ==
    /\ inquiry[i] = "kept" /\ Participants(i) \cap remaining = {}
    /\ \A r \in DOMAIN reports : reports[r].inquiry = i =>
           reports[r].status # "pending" /\ reports[r].holds = {}

Remove(I) ==
    /\ inquiry' = [i \in Inquiry |-> IF i \in I THEN "removed" ELSE inquiry[i]]
    /\ message' = [i \in Inquiry |-> IF i \in I THEN <<>> ELSE message[i]]
    /\ recent' = recent \ I

\* Mutant: the holds of other reports on the messages go too.
ReleasedAll(reports, r) ==
    [q \in DOMAIN reports |->
        IF q = r THEN [reports[r] EXCEPT !.retention = "released", !.evidence = {}, !.holds = {}]
        ELSE IF reports[q].inquiry = reports[r].inquiry
             THEN [reports[q] EXCEPT !.holds = @ \ reports[r].holds] ELSE reports[q]]

(* _release_conversation_report_evidence                                    *)
Released(reports, r) ==
    [reports EXCEPT ![r] = [inquiry |-> @.inquiry, status |-> @.status, retention |-> "released",
                            evidence |-> {}, holds |-> {}]]

DecisionOf(r, decision) ==
    LET decided == [report EXCEPT ![r].status = decision]
    IN  IF decision = "dismissed" THEN Released(decided, r)
        ELSE [decided EXCEPT ![r].retention = "required"]

(* decide_conversation_report: whether to restrict the pair (pairs) and     *)
(* whom to suspend.  Restrictions of an account that is gone fail.          *)
Decide(r, decision, pairs, suspend) ==
    LET i == report[r].inquiry
    IN  /\ report[r].status = "pending" /\ ~InquiryLocked(i)
        /\ decision = "dismissed" => pairs = {} /\ suspend = {}
        /\ pairs \subseteq {Participants(i)} /\ suspend \subseteq Participants(i)
        /\ pairs # {} => ~SomeoneDeleted(i) /\ \A a \in Participants(i) : ~AccountLocked(a)
        /\ suspend \subseteq accounts /\ \A a \in suspend : ~AccountLocked(a)
        /\ report' = DecisionOf(r, decision)
        /\ blocked' = blocked \cup pairs /\ suspended' = suspended \cup suspend
        /\ Remove({j \in {i} : Removable(j, accounts, report')})
        /\ UNCHANGED <<accounts, active, open>>

(* release_conversation_report_evidence                                     *)
Release(r) ==
    LET i == report[r].inquiry
    IN  /\ report[r].retention = "required" /\ ~InquiryLocked(i)
        /\ report' = Released(report, r)
        /\ Remove({j \in {i} : Removable(j, accounts, report')})
        /\ UNCHANGED <<accounts, active, blocked, suspended, open>>

-----------------------------------------------------------------------------
(* Accounts and Listings.                                                   *)

(* block_listing_inquiry_counterpart locks the inquiry and both accounts.   *)
Block(a, i) ==
    /\ inquiry[i] = "kept" /\ a \in Participants(i) /\ ~SomeoneDeleted(i)
    /\ ~InquiryLocked(i) /\ \A b \in Participants(i) : ~AccountLocked(b)
    /\ blocked' = blocked \cup {Participants(i)}
    /\ UNCHANGED <<accounts, active, talk, report, suspended, open>>

(* Deletion of an account: pre_delete locks its inquiries; restrictions of  *)
(* the account go with it; post_delete cleans up.  It waits for the         *)
(* account's own start, for its edits, whose messages lose their author.    *)
Delete(a) ==
    /\ a \in accounts /\ ~AccountLocked(a)
    /\ \A i \in Inquiry : a \in Participants(i) => ~InquiryLocked(i)
    /\ \A t \in Opened("edit") : t.by # a
    /\ accounts' = accounts \ {a}
    /\ blocked' = {pair \in blocked : a \notin pair}
    /\ suspended' = suspended \ {a}
    /\ Remove({i \in Inquiry : a \in Participants(i) /\ Removable(i, accounts', report)})
    /\ UNCHANGED <<active, report, open>>

\* A Listing expires, is taken down, or is published again.
ListingChanges(l) ==
    /\ active' = IF l \in active THEN active \ {l} ELSE active \cup {l}
    /\ UNCHANGED <<accounts, talk, report, blocked, suspended, open>>

\* Fifteen minutes pass after a message.
EditWindowEnds(i, n) ==
    /\ n \in Indices(i) /\ message[i][n].fresh
    /\ message' = [message EXCEPT ![i][n].fresh = FALSE]
    /\ UNCHANGED <<accounts, active, inquiry, recent, report, blocked, suspended, open>>

\* An hour passes after the start of an inquiry.
HourPasses(i) ==
    /\ i \in recent /\ recent' = recent \ {i}
    /\ UNCHANGED <<accounts, active, inquiry, message, report, blocked, suspended, open>>

-----------------------------------------------------------------------------
Participate(a, i) ==
    \/ BeginStart(a, i) \/ BeginReply(a, i) \/ Block(a, i)
    \/ \E n \in Indices(i) : BeginEdit(a, i, n)
    \/ \E target \in {0} \cup Indices(i) : BeginReport(a, i, target)

Moderate(r) ==
    \/ \E decision \in {"dismissed", "upheld"}, pairs \in SUBSET {Participants(report[r].inquiry)},
          suspend \in {{}} \cup {{a} : a \in Participants(report[r].inquiry)} :
          Decide(r, decision, pairs, suspend)
    \/ Release(r)

InquiryNext ==
    \/ \E a \in User, i \in Inquiry : Participate(a, i)
    \/ \E t \in open :
          CommitStart(t) \/ CommitReply(t) \/ CommitEdit(t) \/ CommitReport(t) \/ Rollback(t)
    \/ \E r \in DOMAIN report : Moderate(r)
    \/ \E a \in User : Delete(a)
    \/ \E l \in Listing : ListingChanges(l)
    \/ \E i \in Inquiry : HourPasses(i) \/ \E n \in Indices(i) : EditWindowEnds(i, n)

InquirySpec == InquiryInit /\ [][InquiryNext]_inquiryvars

-----------------------------------------------------------------------------
(* Properties.                                                              *)

Evidence == SUBSET ((1..MaxPerInquiry) \X Text)

\* A ConversationReport with the messages that its evidence holds.
Report == [inquiry : Inquiry, status : {"pending", "dismissed", "upheld"},
           retention : {"investigation", "required", "released"}, evidence : Evidence,
           holds : SUBSET (1..MaxPerInquiry)]

\* AccountBlocks and ModeratedPairRestrictions are of pairs that had an inquiry.
Pairs == {Participants(i) : i \in Inquiry}

\* Every row and transaction has its type, and restrictions refer to accounts.
InquiryTypeOK ==
    /\ accounts \subseteq User /\ active \subseteq Listing
    /\ inquiry \in [Inquiry -> {"none", "kept", "removed"}] /\ recent \subseteq Inquiry
    /\ \A i \in Inquiry : Len(message[i]) <= MaxPerInquiry /\ \A n \in Indices(i) :
           message[i][n] \in [author : Participants(i), text : Text, fresh : BOOLEAN]
    /\ Len(report) <= MaxReports /\ report \in Seq(Report)
    /\ blocked \subseteq Pairs
    /\ suspended \subseteq accounts /\ \A pair \in blocked : pair \subseteq accounts
    /\ open \subseteq [kind : {"start", "reply", "edit", "report"}, by : User,
                       inquiry : Inquiry, message : 0..MaxPerInquiry, evidence : Evidence]

\* A report still to be decided, or one whose evidence has to be kept
Needed(r) == report[r].status = "pending" \/ report[r].retention = "required"

\* "A Listing Inquiry remains while either participant account exists and is
\* hard-deleted after both are gone, except while required for an active report
\* or legal hold" (docs/adr/0012): neither earlier, nor left behind by the last
\* of the steps that stood in the way.
KeptByPurpose ==
    \A i \in Inquiry : inquiry[i] # "none" =>
        (inquiry[i] = "kept" <=>
            \/ Participants(i) \cap accounts # {}
            \/ \E r \in DOMAIN report : report[r].inquiry = i /\ Needed(r))

\* A needed report has its evidence, and every message of it exists and is
\* held; one that is not needed keeps nothing.
EvidenceStands ==
    \A r \in DOMAIN report :
        /\ report[r].holds = {e[1] : e \in report[r].evidence}
        /\ Needed(r) <=> report[r].evidence # {}
        /\ report[r].holds \subseteq Indices(report[r].inquiry)

\* What was reported stays as it is while it is held, although edits do not
\* take the lock under which the report is made.
HeldIsFrozen ==
    [][\A i \in Inquiry : \A n \in Indices(i) :
          Held(i, n) /\ Held(i, n)' => message'[i][n].text = message[i][n].text]_inquiryvars

\* An account that is suspended, or blocked by or from the submitter, starts
\* nothing: not with a request that was already on its way either.
RestrictedStartNothing ==
    [][\A i \in Inquiry : inquiry[i] = "none" /\ inquiry'[i] = "kept" =>
          ~Blocked(i) /\ Renter(i) \notin suspended]_inquiryvars

\* Blocked, and no reply is on its way any more
Silent(i) == Blocked(i) /\ \A t \in Opened("reply") : t.inquiry # i

\* Once a pair is blocked, nothing more is said in any of its inquiries, but
\* for a reply that was already being written to another one than the one the
\* block came from.
BlockedFallSilent ==
    [][\A i \in Inquiry : Silent(i) =>
          Len(message'[i]) <= Len(message[i]) /\ (Blocked(i)' => Silent(i)')]_inquiryvars

\* A suspension or a block is in force from its commit on.
RestrictionsHold == RestrictedStartNothing /\ BlockedFallSilent

\* No account starts more inquiries in an hour than it may, in how many tabs
\* it tries.
QuotaHolds == \A a \in User : Cardinality(ColdContacts(a)) <= ColdLimit

\* What is kept of inquiries, messages and reports is what a purpose asks for,
\* and nobody starts more of them than allowed.
InquiriesAreSound == InquiryTypeOK /\ KeptByPurpose /\ EvidenceStands /\ QuotaHolds
=============================================================================
