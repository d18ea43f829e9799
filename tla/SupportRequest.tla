--------------------------- MODULE SupportRequest ---------------------------
(***************************************************************************)
(* One Support Request (backend/apps/contact and the requester's side of   *)
(* backend/apps/communications/views.py): a requester writes, Operators    *)
(* claim, triage, answer, resolve and reopen, a superuser redacts.  Every  *)
(* command takes the request's row lock and reads the row again under it,  *)
(* so a command is one step; what its view read before the lock is checked *)
(* once more.  Two things are not: the request is created by three         *)
(* statements of their own, and a requester's page is read first and       *)
(* marked as read afterwards.                                              *)
(***************************************************************************)
EXTENDS Naturals, Sequences

CONSTANTS
    Account,            \* accounts: requesters and Operators
    Superuser,          \* the accounts that hold every permission
    None,               \* no account, no capability, no category
    Given(_),           \* the capabilities every account starts with
    Rows,               \* the requests tried: who wrote, whether from an
                        \* account, and the intake kind
    Classifications,    \* the classifications an Operator picks from
    Required,           \* the capabilities an escalation may ask for
    Priorities,         \* the priorities an Operator picks from
    Remarks,            \* the kinds of record an Operator adds to the history
    Grants,             \* the sets of capabilities an account may be given
    MaxEvents,          \* bound on the history
    MaxMessages,        \* bound on the thread
    MaxPublic,          \* bound on the updates after which messages are edited
    MaxPages,           \* bound on the updates after which pages are opened
    MaxGrants           \* bound on the changes of an account's capabilities

Capability == {"handle_support", "handle_privacy_requests", "manage_operator_queues"}
Kind == {"general", "account_deletion", "public_contact_removal"}

ASSUME SupportAssumption ==
    /\ Superuser \subseteq Account /\ None \notin Account
    /\ None \notin Capability \cup {"action_completed", "answered_externally"}
    /\ \A a \in Account : Given(a) \subseteq Capability
    /\ \A a \in Superuser : Given(a) = Capability
    /\ \A row \in Rows : row.by \in Account /\ row.kind \in Kind /\ row.linked \in BOOLEAN
    /\ Remarks \subseteq {"note_added", "external_contact_recorded"}
    /\ \A g \in Grants : g \subseteq Capability
    /\ {MaxEvents, MaxMessages, MaxPublic, MaxPages, MaxGrants} \subseteq Nat

VARIABLES
    request,    \* the row
    caps,       \* the capabilities of every account
    history,    \* the append-only events of the request
    messages,   \* the thread, oldest first
    settled,    \* how many of them are older than the fifteen-minute window
    proofs,     \* what has been recorded: "identity", "permanent"
    creating,   \* the statement of the creation that comes next, and for whom
    page,       \* a page being answered: the last public update it knows of, or None
    grants      \* how many times capabilities have changed

vars == <<request, caps, history, messages, settled, proofs, creating, page, grants>>

Support == {"handle_support", "handle_privacy_requests"}
PrivacyClassifications == {"privacy", "account_deletion"}
PrivacyKinds == {"account_deletion", "public_contact_removal"}

Someone == Account \cup {None}
Status == {"open", "in_progress", "escalated", "resolved"}

SupportRequestRow ==
    [submitter : Someone, contact : Someone, kind : Kind, linked : BOOLEAN,
     classification : Classifications \cup {"unclassified"},
     priority : Priorities \cup {"normal", "urgent"}, locked : BOOLEAN, status : Status,
     assignee : Someone, required : Required \cup {None}, resolvedBy : Someone,
     category : {"action_completed", "answered_externally", None}, recent : BOOLEAN,
     personal : BOOLEAN, redacted : BOOLEAN, public : Nat, read : Nat]

EventType ==
    {"assigned", "released", "reassigned", "classified", "priority_changed", "escalated",
     "identity_verified", "privacy_action_recorded", "resolved", "reopened",
     "personal_content_redacted"} \cup Remarks

SupportRequestEvent ==
    [type : EventType, actor : Someone, prior : Status, new : Status, before : Someone,
     after : Someone, byRequester : BOOLEAN]

\* What is kept of an identity that was verified and of a deletion carried out.
Proof == {"identity", "permanent"}

(***************************************************************************)
(* Who may handle a request r.                                             *)
(***************************************************************************)
RequiresPrivacy(r) ==
    \/ r.classification \in PrivacyClassifications
    \/ r.classification = "unclassified" /\ r.kind \in PrivacyKinds

IsAccountDeletion(r) ==
    \/ r.classification = "account_deletion"
    \/ r.classification = "unclassified" /\ r.kind = "account_deletion"

OwnRequest(r, a) ==
    \/ r.submitter = a
    \/ r.submitter = None /\ r.contact = a

MayHandle(r, a) ==
    /\ caps[a] \cap Support # {}
    /\ ~OwnRequest(r, a)
    /\ RequiresPrivacy(r) => "handle_privacy_requests" \in caps[a]
    /\ r.required # None => r.required \in caps[a]

IsAssigned(r, a) ==
    /\ MayHandle(r, a)
    /\ r.status = "in_progress"
    /\ r.assignee = a

(***************************************************************************)
(* The history, and the status the requester is shown, which is computed   *)
(* from the history and never from the row.                                *)
(***************************************************************************)
Event(type, a, prior, new, before, after) ==
    [type |-> type, actor |-> a, prior |-> prior, new |-> new,
     before |-> before, after |-> after, byRequester |-> FALSE]

Remark(type, a) == Event(type, a, request.status, request.status, None, None)

Record(events) ==
    /\ Len(history) + Len(events) <= MaxEvents
    /\ history' = history \o events

\* The place of the latest of the events of some types, 0 if there is none.
Latest(events, types) ==
    LET I == {i \in 1..Len(events) : events[i].type \in types}
    IN  CHOOSE i \in I \cup {0} : \A j \in I : j <= i

PublicEvents == {"assigned", "escalated", "released", "reopened", "resolved"}

\* Mutant: a request handed back to its Operator on reopening reads as received.
PublicStatusWithoutReopening(event) ==
    IF event.type = "resolved" THEN "resolved"
    ELSE IF event.type \in {"assigned", "escalated"} THEN "in_progress" ELSE "received"

PublicStatusOf(event) ==
    IF event.type = "resolved" THEN "resolved"
    ELSE IF \/ event.type \in {"assigned", "escalated"}
            \/ event.type = "reopened" /\ event.new = "in_progress"
         THEN "in_progress"
         ELSE "received"

PublicStatus ==
    LET public == Latest(history, PublicEvents)
    IN  IF public = 0 THEN "received" ELSE PublicStatusOf(history[public])

\* The row after an update the requester is told of.
Announced(r) == [r EXCEPT !.public = @ + 1]

-----------------------------------------------------------------------------
(***************************************************************************)
(* The row as it is inserted, and the rows kept from the anonymous form    *)
(* that came before, which have an e-mail address and no submitter.        *)
(***************************************************************************)
Row(submitter, contact, kind) ==
    [submitter |-> submitter, contact |-> contact, kind |-> kind,
     linked |-> submitter # None, classification |-> "unclassified",
     priority |-> IF kind = "public_contact_removal" THEN "urgent" ELSE "normal",
     locked |-> kind = "public_contact_removal", status |-> "open",
     assignee |-> None, required |-> None, resolvedBy |-> None,
     category |-> None, recent |-> FALSE, personal |-> TRUE,
     redacted |-> FALSE, public |-> 1, read |-> 0]

Init ==
    /\ request \in {Row(IF row.linked THEN row.by ELSE None, row.by, row.kind) : row \in Rows}
    /\ caps = [a \in Account |-> Given(a)]
    /\ history = <<>> /\ messages = <<>> /\ settled = 0 /\ proofs = {}
    /\ creating = [next |-> IF request.submitter = None THEN "nothing" ELSE "message",
                   by |-> request.submitter]
    /\ page = None /\ grants = 0

Message(author, kind, initial) ==
    [author |-> author, kind |-> kind, initial |-> initial, personal |-> TRUE]

\* create_support_request after its INSERT: the first message, then the mark
\* that the requester has read the thread as it was inserted.
PostInitialMessage ==
    /\ creating.next = "message"
    /\ messages' = Append(messages, Message(creating.by, "requester", TRUE))
    /\ creating' = [creating EXCEPT !.next = "mark"]
    /\ UNCHANGED <<request, caps, history, settled, proofs, page, grants>>

MarkCreated ==
    /\ creating.next = "mark"
    /\ request' = [request EXCEPT !.read = 1]
    /\ creating' = [creating EXCEPT !.next = "nothing"]
    /\ UNCHANGED <<caps, history, messages, settled, proofs, page, grants>>

(***************************************************************************)
(* The thread.                                                             *)
(***************************************************************************)
OperatorReply(a) ==
    /\ IsAssigned(request, a)
    /\ Len(messages) < MaxMessages
    /\ messages' = Append(messages, Message(a, "operator", FALSE))
    /\ request' = Announced(request)
    /\ UNCHANGED <<caps, history, settled, proofs, creating, page, grants>>

\* The requester is up to date with what he writes himself.
ReadByRequester(r) == [r EXCEPT !.public = @ + 1, !.read = request.public + 1]

Unresolved(r) == [r EXCEPT !.resolvedBy = None, !.category = None, !.recent = FALSE]

\* Mutant: a reply to a resolved request is stored and nothing else.
ReplyWithoutReopening(a) ==
    /\ request.submitter = a
    /\ Len(messages) < MaxMessages
    /\ messages' = Append(messages, Message(a, "requester", FALSE))
    /\ request.status = "resolved" => request.recent
    /\ request' = ReadByRequester(request)
    /\ UNCHANGED <<caps, history, settled, proofs, creating, page, grants>>

RequesterReply(a) ==
    /\ request.submitter = a
    /\ Len(messages) < MaxMessages
    /\ messages' = Append(messages, Message(a, "requester", FALSE))
    /\ \/ /\ request.status # "resolved"
          /\ request' = ReadByRequester(request)
          /\ history' = history
       \/ /\ request.status = "resolved" /\ request.recent
          /\ request' = ReadByRequester(Unresolved(
                           [request EXCEPT !.status = "open", !.assignee = None]))
          /\ Record(<<[Event("reopened", a, "resolved", "open", None, None)
                          EXCEPT !.byRequester = TRUE]>>)
    /\ UNCHANGED <<caps, settled, proofs, creating, page, grants>>

\* edit_support_message within fifteen minutes, by the message's author.
\* Mutant: the author of a message is compared with nobody.
EditAnyMessage(a, i) ==
    /\ i > settled
    /\ messages[i].kind = "operator" => IsAssigned(request, a)
    /\ request.public < MaxPublic
    /\ messages' = [messages EXCEPT ![i].personal = TRUE]
    /\ request' = Announced([request EXCEPT !.personal = @ \/ messages[i].initial])
    /\ UNCHANGED <<caps, history, settled, proofs, creating, page, grants>>

EditMessage(a, i) ==
    /\ i > settled
    /\ messages[i].author = a
    /\ IF messages[i].kind = "operator" THEN IsAssigned(request, a)
       ELSE request.submitter = a
    /\ request.public < MaxPublic
    /\ messages' = [messages EXCEPT ![i].personal = TRUE]
    /\ LET row == [request EXCEPT !.personal = @ \/ messages[i].initial]
       IN  request' = IF messages[i].kind = "requester" THEN ReadByRequester(row)
                      ELSE Announced(row)
    /\ UNCHANGED <<caps, history, settled, proofs, creating, page, grants>>

(***************************************************************************)
(* The requester's page: MessageDetailView reads the request with its      *)
(* messages, and later stores the time of a clock read after that.  An     *)
(* update announced meanwhile may be older or younger than that time.      *)
(***************************************************************************)
OpenPage ==
    /\ page = None /\ request.submitter # None /\ request.public <= MaxPages
    /\ page' = request.public
    /\ UNCHANGED <<request, caps, history, messages, settled, proofs, creating, grants>>

MarkRead ==
    /\ page # None
    /\ \E at \in page..request.public : request' = [request EXCEPT !.read = at]
    /\ page' = None
    /\ UNCHANGED <<caps, history, messages, settled, proofs, creating, grants>>

MarkUnread ==
    /\ request.submitter # None /\ request.read # 0 /\ request.public <= MaxPages
    /\ request' = [request EXCEPT !.read = 0]
    /\ UNCHANGED <<caps, history, messages, settled, proofs, creating, page, grants>>

(***************************************************************************)
(* Assignment.                                                             *)
(***************************************************************************)
Claim(a) ==
    /\ MayHandle(request, a)
    /\ request.status \in {"open", "escalated"}
    /\ request.assignee = None
    /\ request' = Announced([request EXCEPT !.status = "in_progress", !.assignee = a])
    /\ Record(<<Event("assigned", a, request.status, "in_progress", None, a)>>)
    /\ UNCHANGED <<caps, messages, settled, proofs, creating, page, grants>>

Release(a) ==
    /\ IsAssigned(request, a)
    /\ request' = Announced([request EXCEPT !.status = "open", !.assignee = None])
    /\ Record(<<Event("released", a, "in_progress", "open", a, None)>>)
    /\ UNCHANGED <<caps, messages, settled, proofs, creating, page, grants>>

\* Mutant: reassignment does not ask whether the assignee is still there.
ReassignAny(a, new) ==
    /\ MayHandle(request, a) /\ "manage_operator_queues" \in caps[a]
    /\ request.status = "in_progress" /\ request.assignee # None
    /\ MayHandle(request, new)
    /\ request' = [request EXCEPT !.assignee = new]
    /\ Record(<<Event("reassigned", a, "in_progress", "in_progress", request.assignee, new)>>)
    /\ UNCHANGED <<caps, messages, settled, proofs, creating, page, grants>>

ReassignAbandoned(a, new) ==
    /\ MayHandle(request, a) /\ "manage_operator_queues" \in caps[a]
    /\ request.status = "in_progress" /\ request.assignee # None
    /\ ~MayHandle(request, request.assignee)
    /\ MayHandle(request, new)
    /\ request' = [request EXCEPT !.assignee = new]
    /\ Record(<<Event("reassigned", a, "in_progress", "in_progress", request.assignee, new)>>)
    /\ UNCHANGED <<caps, messages, settled, proofs, creating, page, grants>>

(***************************************************************************)
(* Triage: any Operator who may handle the request changes its             *)
(* classification, its priority, and escalates it, in one command or in    *)
(* several.  The escalation's capability may be left open.                 *)
(***************************************************************************)
Classify(a, class) ==
    /\ MayHandle(request, a)
    /\ request.classification # class
    /\ request' = [request EXCEPT !.classification = class]
    /\ Record(<<Remark("classified", a)>>)
    /\ UNCHANGED <<caps, messages, settled, proofs, creating, page, grants>>

Prioritise(a, priority) ==
    /\ MayHandle(request, a)
    /\ request.priority # priority
    /\ ~(priority = "normal" /\ request.locked)
    /\ request' = [request EXCEPT !.priority = priority]
    /\ Record(<<Remark("priority_changed", a)>>)
    /\ UNCHANGED <<caps, messages, settled, proofs, creating, page, grants>>

Escalate(a, class, required) ==
    /\ MayHandle(request, a)
    /\ request.status \in {"open", "in_progress"}
    /\ request' = [request EXCEPT !.status = "escalated", !.assignee = None,
                                  !.required = required, !.classification = class]
    /\ LET escalation == Event("escalated", a, request.status, "escalated", None, None)
       IN  Record(IF class = request.classification THEN <<escalation>>
                  ELSE <<Remark("classified", a), escalation>>)
    /\ UNCHANGED <<caps, messages, settled, proofs, creating, page, grants>>

(***************************************************************************)
(* What the assigned Operator records.                                     *)
(***************************************************************************)
AddNote(a, type) ==
    /\ IsAssigned(request, a)
    /\ Record(<<Remark(type, a)>>)
    /\ UNCHANGED <<request, caps, messages, settled, proofs, creating, page, grants>>

RecordIdentityVerification(a) ==
    /\ IsAssigned(request, a) /\ RequiresPrivacy(request)
    /\ proofs' = proofs \cup {"identity"}
    /\ Record(<<Remark("identity_verified", a)>>)
    /\ UNCHANGED <<request, caps, messages, settled, creating, page, grants>>

RecordPrivacyAction(a, action) ==
    /\ IsAssigned(request, a) /\ RequiresPrivacy(request)
    /\ action = "permanent" => request.linked \/ "identity" \in proofs
    /\ proofs' = proofs \cup ({action} \cap {"permanent"})
    /\ Record(<<Remark("privacy_action_recorded", a)>>)
    /\ UNCHANGED <<request, caps, messages, settled, creating, page, grants>>

Resolve(a, category) ==
    /\ IsAssigned(request, a)
    /\ category = "action_completed" /\ IsAccountDeletion(request) =>
          /\ request.linked \/ "identity" \in proofs
          /\ "permanent" \in proofs
    /\ request' = Announced([request EXCEPT !.status = "resolved", !.assignee = None,
                        !.resolvedBy = a, !.category = category, !.recent = TRUE])
    /\ Record(<<Event("resolved", a, "in_progress", "resolved", a, None)>>)
    /\ UNCHANGED <<caps, messages, settled, proofs, creating, page, grants>>

\* The Operator who resolved it last gets it back, if he may still handle it.
LastResolver ==
    LET resolution == Latest(history, {"resolved"})
    IN  IF resolution = 0 THEN None ELSE history[resolution].before

Reopen(a) ==
    /\ MayHandle(request, a)
    /\ request.status = "resolved"
    /\ LET restored == IF LastResolver # None /\ MayHandle(request, LastResolver)
                       THEN LastResolver ELSE None
           status == IF restored = None THEN "open" ELSE "in_progress"
       IN  /\ request' = Announced(Unresolved(
                            [request EXCEPT !.status = status, !.assignee = restored]))
           /\ Record(<<Event("reopened", a, "resolved", status, LastResolver, restored)>>)
    /\ UNCHANGED <<caps, messages, settled, proofs, creating, page, grants>>

(***************************************************************************)
(* Redaction, from the administration, by a superuser.                     *)
(***************************************************************************)
\* What it leaves of an event and of a message.
Unnamed(e) ==
    IF request.submitter # None /\ e.actor = request.submitter /\ e.byRequester
    THEN [e EXCEPT !.actor = None] ELSE e

Emptied(m) ==
    [m EXCEPT !.personal = FALSE, !.author = IF m.kind = "requester" THEN None ELSE @]

Redact(a) ==
    /\ a \in Superuser /\ ~request.redacted
    /\ Len(history) < MaxEvents
    /\ request' = [request EXCEPT !.submitter = None, !.contact = None,
                                  !.personal = FALSE, !.redacted = TRUE]
    /\ history' = Append([i \in 1..Len(history) |-> Unnamed(history[i])],
                         Remark("personal_content_redacted", a))
    /\ messages' = [i \in 1..Len(messages) |-> Emptied(messages[i])]
    /\ UNCHANGED <<caps, settled, proofs, creating, page, grants>>

(***************************************************************************)
(* Time, and a superuser who changes who is an Operator.                   *)
(***************************************************************************)
EditWindowPasses ==
    /\ settled < Len(messages)
    /\ settled' = settled + 1
    /\ UNCHANGED <<request, caps, history, messages, proofs, creating, page, grants>>

ReplyWindowPasses ==
    /\ request.recent
    /\ request' = [request EXCEPT !.recent = FALSE]
    /\ settled' = Len(messages)
    /\ UNCHANGED <<caps, history, messages, proofs, creating, page, grants>>

ChangeAccess(a, granted) ==
    /\ a \notin Superuser /\ caps[a] # granted /\ grants < MaxGrants
    /\ caps' = [caps EXCEPT ![a] = granted]
    /\ grants' = grants + 1
    /\ UNCHANGED <<request, history, messages, settled, proofs, creating, page>>

-----------------------------------------------------------------------------
RequesterStep ==
    \/ PostInitialMessage \/ MarkCreated \/ OpenPage \/ MarkRead \/ MarkUnread
    \/ \E a \in Account : RequesterReply(a)

Assignment ==
    \E a \in Account : \/ Claim(a) \/ Release(a) \/ Reopen(a)
                       \/ \E new \in Account : ReassignAbandoned(a, new)

Triage ==
    \E a \in Account :
        \/ \E class \in Classifications : Classify(a, class)
        \/ \E priority \in Priorities : Prioritise(a, priority)
        \/ \E class \in Classifications \cup {request.classification} :
             \E required \in Required : Escalate(a, class, required)

Work ==
    \E a \in Account :
        \/ OperatorReply(a)
        \/ \E i \in 1..Len(messages) : EditMessage(a, i)
        \/ \E type \in Remarks : AddNote(a, type)
        \/ RecordIdentityVerification(a)
        \/ \E action \in {"permanent", "defensive"} : RecordPrivacyAction(a, action)
        \/ \E category \in {"action_completed", "answered_externally"} : Resolve(a, category)

Surroundings ==
    \/ EditWindowPasses \/ ReplyWindowPasses
    \/ \E a \in Account : Redact(a) \/ \E granted \in Grants : ChangeAccess(a, granted)

Next == RequesterStep \/ Assignment \/ Triage \/ Work \/ Surroundings

Spec == Init /\ [][Next]_vars

-----------------------------------------------------------------------------
(***************************************************************************)
(* Properties.                                                             *)
(***************************************************************************)

\* Every part has the values the code gives it, and a request is assigned to
\* an Operator exactly while it is in progress.
TypeOK ==
    /\ request \in SupportRequestRow /\ history \in Seq(SupportRequestEvent)
    /\ proofs \subseteq Proof
    /\ (request.status = "in_progress") <=> (request.assignee # None)
    /\ (request.status = "resolved") <=> (request.resolvedBy # None)
    /\ (request.category # None) <=> (request.status = "resolved")
    /\ request.recent => request.status = "resolved"
    /\ request.read <= request.public
    /\ caps \in [Account -> SUBSET Capability]
    /\ settled \in 0..Len(messages)
    /\ page # None => page \in 0..request.public

\* The operational history is a chain that starts at "open" and ends at the
\* row's status, and its last transition names the row's assignee: whoever
\* reads the history alone knows where the request stands and who has it.
HistoryTellsTheState ==
    LET moved == Latest(history, {"assigned", "released", "reassigned", "escalated",
                                  "resolved", "reopened"})
    IN  /\ \A i \in 1..Len(history) :
              history[i].prior = IF i = 1 THEN "open" ELSE history[i-1].new
        /\ request.status = IF history = <<>> THEN "open" ELSE history[Len(history)].new
        /\ request.assignee = IF moved = 0 THEN None ELSE history[moved].after

\* The status the requester is shown, which comes from the public events
\* only, is the row's status in the requester's words.
PublicStatusIsTrue ==
    PublicStatus = CASE request.status = "resolved" -> "resolved"
                     [] request.status = "open" -> "received"
                     [] OTHER -> "in_progress"

\* An account deletion resolved as completed has a recorded permanent action,
\* and that one a linked account or a verified identity; the only requests
\* without are those classified as a deletion after they were resolved.
DeletionsAreProven ==
    /\ "permanent" \in proofs => request.linked \/ "identity" \in proofs
    /\ (/\ request.status = "resolved" /\ request.category = "action_completed"
        /\ IsAccountDeletion(request) /\ "permanent" \notin proofs)
       => \E i, j \in 1..Len(history) :
             /\ i < j /\ history[i].type = "resolved" /\ history[j].type = "classified"
             /\ \A k \in i+1..Len(history) : history[k].type \notin PublicEvents

\* Whichever way a request reaches an Operator (a claim, a reassignment, the
\* return to whoever resolved it), he may handle it as it is then.
AssigneesMayHandle ==
    [][request'.assignee \notin {None, request.assignee} => MayHandle(request', request'.assignee)]_vars

\* Work is not taken from an Operator who may still do it, except that
\* another who may handle the request escalates it.
WorkIsNotTaken ==
    [][ /\ request.assignee # None /\ request'.assignee # request.assignee
        /\ MayHandle(request, request.assignee)
        => LET last == history'[Len(history')]
           IN  last.type = "escalated" \/ last.actor = request.assignee ]_vars

\* What a requester adds to the thread leaves the request with the Operators:
\* no reply is filed in a request that stays resolved.
RepliesAreHeard ==
    [][ /\ Len(messages') > Len(messages)
        /\ messages'[Len(messages')].kind = "requester"
        /\ ~messages'[Len(messages')].initial
        => request'.status # "resolved" ]_vars

\* No step leaves something of the requester in a redacted request that was
\* not there before: neither the redaction itself, nor an edit or a reply
\* under way.  Only the first message can come late, when the request is
\* redacted between the statements that create it.
Remains(m) == m.kind = "requester" /\ (m.personal \/ m.author # None)
RedactionHolds ==
    [][ request'.redacted =>
          /\ request'.submitter = None /\ ~request'.personal
          /\ \A i \in 1..Len(history') : history'[i].byRequester => history'[i].actor = None
          /\ \A i \in 1..Len(messages') : Remains(messages'[i]) =>
                \/ creating.next = "message"
                \/ request.redacted /\ i \in 1..Len(messages) /\ Remains(messages[i]) ]_vars

\* The row, its history and what the requester is told agree at every moment,
\* and no deletion counts as done without its proof.
RequestIsSound ==
    TypeOK /\ HistoryTellsTheState /\ PublicStatusIsTrue /\ DeletionsAreProven

\* Work changes hands only to whoever may do it, from whoever may no longer.
WorkIsHandedOn == AssigneesMayHandle /\ WorkIsNotTaken
=============================================================================
