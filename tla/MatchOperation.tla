--------------------------- MODULE MatchOperation ---------------------------
(***************************************************************************)
(* A backfill or rescore of the whole catalog                              *)
(* (catalog/curation/match_operations.py, catalog/tasks.py and the command *)
(* run_property_match_operation), and the measurements of grouped          *)
(* Properties that its last phase takes (curation/group_consistency.py).   *)
(*                                                                         *)
(* A page is one transaction on a durable checkpoint.  The message of the  *)
(* next page is sent after its commit and carries the generation of the    *)
(* checkpoint, by which old messages are known.                            *)
(***************************************************************************)
EXTENDS Naturals, FiniteSets, FiniteSetsExt

CONSTANTS
    Subject,        \* 1..n: Properties in the order of their primary keys
    Batch,          \* --limit: candidates, suggestions or groups of one page
    Clerk,          \* Celery workers
    MaxGeneration,  \* bound: pages of an operation
    MaxTroubles,    \* bound: lost workers, refusals, failed pages, repetitions
    MaxLeavers,     \* bound: Properties that are merged or no longer listed
    Edited          \* bound: groups that are changed, once each

ASSUME OperationAssumption ==
    /\ Subject \subseteq Nat \ {0} /\ IsFiniteSet(Subject)
    /\ Batch \in Nat \ {0} /\ MaxGeneration \in Nat

VARIABLES
    op,         \* the PropertyMatchOperation
    deployed,   \* the scoring version that runs: 1, then 2
    eligible,   \* Properties that are roots with Listings
    message,    \* generations whose messages wait
    clerk,
    evaluated,  \* history: pairs, suggestions and groups this operation was at
    repeated,   \* history: those it was at more than once
    carried,    \* history: Properties that began at another one's candidate
    owner,      \* history: the Property that op.candidate belongs to
    halted,     \* history: an error ended the chain since the last command
    troubles,
    content,    \* what a group's pairs are measured on, by its changes
    current,    \* current_consistency_measurement: content measured, or none
    edit        \* transactions that change a group

checkpoint == <<op, evaluated, repeated, carried, owner>>
measurements == <<content, current, edit>>
operationVars == <<checkpoint, deployed, eligible, message, clerk, halted, troubles, measurements>>

\* What a group's pairs are measured on, by its changes, and a measurement of it.
Content == 1..2
Unmeasured == 0
Measurement == Content \cup {Unmeasured}
Idle == [step |-> "idle", generation |-> 0, found |-> "none"]
Absent == [status |-> "absent", phase |-> "none", cursor |-> 0, candidate |-> 0, generation |-> 0,
           version |-> 0]

OperationInit ==
    /\ op = Absent /\ deployed = 1 /\ eligible = Subject
    /\ message = {} /\ clerk = [c \in Clerk |-> Idle]
    /\ evaluated = {} /\ repeated = {} /\ carried = {} /\ owner = 0
    /\ halted = FALSE /\ troubles = 0
    /\ content = [r \in Subject |-> 1] /\ current = [r \in Subject |-> Unmeasured]
    /\ edit = [r \in Subject |-> "none"]

Trouble == troubles < MaxTroubles /\ troubles' = troubles + 1

-----------------------------------------------------------------------------
(* run_property_match_operation.                                           *)

\* the generation is read without a lock; for a new operation it is 0
Command ==
    /\ \/ message = {} /\ (halted \/ op = Absent) /\ UNCHANGED troubles
       \/ Trouble
    /\ message' = message \cup {op.generation}
    /\ halted' = FALSE
    /\ UNCHANGED <<checkpoint, deployed, eligible, clerk, measurements>>

TakeMessage(c) ==
    \E g \in message :
       /\ clerk[c] = Idle
       /\ message' = message \ {g}
       /\ clerk' = [clerk EXCEPT ![c] = [step |-> "ensure", generation |-> g, found |-> "none"]]
       /\ UNCHANGED <<checkpoint, deployed, eligible, halted, troubles, measurements>>

\* ensure_property_match_operation, by a statement of its own
Ensure(c) ==
    \E phase \in {"candidates", "suggestions"} :
       /\ clerk[c].step = "ensure"
       /\ op' = IF op = Absent
                THEN [Absent EXCEPT !.status = "pending", !.phase = phase, !.version = deployed]
                ELSE op
       /\ clerk' = [clerk EXCEPT ![c].step = "page"]
       /\ UNCHANGED <<evaluated, repeated, carried, owner, deployed, eligible, message, halted,
                      troubles, measurements>>

-----------------------------------------------------------------------------
(* process_property_match_operation_page, under the row's lock.            *)

First(S, n) == {r \in S : Cardinality({s \in S : s < r}) < n}
Beyond(cursor) == {r \in eligible : r > cursor}

\* Mutant: the cursor of the phase before is kept.
GroupsAfterCursor(row) == [row EXCEPT !.phase = "groups"]
Groups(row) ==
    [row EXCEPT !.phase = "groups", !.cursor = 0, !.candidate = 0]

\* the checkpoint once an exhausted phase is left for the next
Entered ==
    IF op.phase \in {"candidates", "suggestions"} /\ Beyond(op.cursor) = {}
    THEN Groups(op)
    ELSE op

(* measure_indexed_candidate_page: the candidates of a Property in the      *)
(* order of their keys.  `candidate` is not compared with the Property it   *)
(* was left by: when that one was merged, the next begins behind it.        *)
CandidatesFrom(r) == {s \in eligible : s > Max({r, op.candidate})}
CandidatePage(r) == First(CandidatesFrom(r), Batch)


CandidatesTo(row, r) ==
    IF Cardinality(CandidatePage(r)) = Batch
    THEN [row EXCEPT !.candidate = Max(CandidatePage(r))]
    ELSE [row EXCEPT !.cursor = r, !.candidate = 0]

Advanced(row) == [row EXCEPT !.status = "running", !.generation = @ + 1]

Completed(row) ==
    [row EXCEPT !.status = "completed", !.phase = "completed", !.cursor = 0,
                !.generation = @ + 1]

Visit(items) == /\ evaluated' = evaluated \cup items
                /\ repeated' = repeated \cup (evaluated \cap items)

Unlocked(page) == \A r \in page : edit[r] # "locked"

Page ==
    LET row == Entered
        rest == Beyond(row.cursor)
        page == First(rest, Batch)
    IN \/ /\ row.phase = "candidates"
          /\ LET r == Min(rest) IN
             /\ op' = Advanced(CandidatesTo(row, r))
             /\ Visit({<<"pair", r, s>> : s \in CandidatePage(r)})
             /\ carried' = IF row.candidate # 0 /\ owner # r THEN carried \cup {r} ELSE carried
             /\ owner' = r
          /\ UNCHANGED measurements
       \/ /\ row.phase = "suggestions"
          /\ op' = Advanced([row EXCEPT !.cursor = Max(page)])
          /\ Visit({<<"suggestion", r, r>> : r \in page})
          /\ UNCHANGED <<carried, owner, measurements>>
       \/ /\ row.phase = "groups" /\ page # {}
          /\ Unlocked(page)
          /\ op' = Advanced([row EXCEPT !.cursor = Max(page)])
          /\ current' = [r \in Subject |-> IF r \in page /\ current[r] = Unmeasured
                                        THEN content[r] ELSE current[r]]
          /\ Visit({<<"group", r, r>> : r \in page})
          /\ UNCHANGED <<carried, owner, content, edit>>
       \/ /\ \/ row.phase = "groups" /\ page = {}
             \/ row.phase = "completed"
          /\ op' = Completed(row)
          /\ UNCHANGED <<evaluated, repeated, carried, owner, measurements>>

\* Mutant: only a page that advanced the checkpoint is followed by a message.
NeverFollowed(g) == FALSE
Overtaken(g) == op.status \in {"running", "failed"} /\ op.generation > g

\* what is sent once the transaction has committed, if anything
SendsOf(c, g, sends) ==
    clerk' = [clerk EXCEPT ![c] = IF sends THEN [step |-> "send", generation |-> g, found |-> "none"]
                                  ELSE Idle]

\* an older or repeated message, or one that came late
Refuse(c) ==
    /\ clerk[c].step = "page"
    /\ op.status = "completed" \/ op.generation # clerk[c].generation
    /\ SendsOf(c, op.generation, Overtaken(clerk[c].generation))
    /\ UNCHANGED <<checkpoint, deployed, eligible, message, halted, troubles, measurements>>

Process(c) ==
    /\ clerk[c].step = "page" /\ op.generation < MaxGeneration
    /\ op.status # "completed" /\ op.generation = clerk[c].generation
    /\ IF op.version # deployed
       THEN /\ op' = [op EXCEPT !.status = "failed"]
            /\ UNCHANGED <<evaluated, repeated, carried, owner, measurements>>
            /\ halted' = TRUE
       ELSE Page /\ UNCHANGED halted
    /\ SendsOf(c, op'.generation, op'.status = "running")
    /\ UNCHANGED <<deployed, eligible, message, troubles>>

Send(c) ==
    /\ clerk[c].step = "send"
    /\ message' = message \cup {clerk[c].generation}
    /\ clerk' = [clerk EXCEPT ![c] = Idle]
    /\ UNCHANGED <<checkpoint, deployed, eligible, halted, troubles, measurements>>

-----------------------------------------------------------------------------
(* Troubles.                                                               *)

\* the page raises and is rolled back, or the broker refuses the next one
Error(c) ==
    /\ clerk[c].step \in {"page", "send"} /\ Trouble
    /\ clerk' = [clerk EXCEPT ![c].step = "look"]
    /\ UNCHANGED <<checkpoint, deployed, eligible, message, halted, measurements>>

(* record_property_match_operation_failure reads the row without a lock and *)
(* writes its status back later: another worker may complete the operation  *)
(* in between, and then it stands as failed until the command is given      *)
(* again.                                                                   *)
LookUp(c) ==
    /\ clerk[c].step = "look"
    /\ clerk' = [clerk EXCEPT ![c].step = "record", ![c].found = op.status]
    /\ UNCHANGED <<checkpoint, deployed, eligible, message, halted, troubles, measurements>>

Record(c) ==
    /\ clerk[c].step = "record"
    /\ op' = IF clerk[c].found = "completed" THEN op ELSE [op EXCEPT !.status = "failed"]
    /\ halted' = TRUE
    /\ clerk' = [clerk EXCEPT ![c] = Idle]
    /\ UNCHANGED <<evaluated, repeated, carried, owner, deployed, eligible, message, troubles,
                   measurements>>

\* acknowledged late: the message of a lost worker comes again
LoseClerk(c) ==
    /\ clerk[c] # Idle /\ Trouble
    /\ \E g \in 0..clerk[c].generation :
          /\ clerk[c].step = "send" => g + 1 = clerk[c].generation
          /\ clerk[c].step # "send" => g = clerk[c].generation
          /\ message' = message \cup {g}
    /\ clerk' = [clerk EXCEPT ![c] = Idle]
    /\ UNCHANGED <<checkpoint, deployed, eligible, halted, measurements>>

RepeatMessage(c) ==
    /\ clerk[c].step = "page" /\ Trouble
    /\ message' = message \cup {clerk[c].generation}
    /\ UNCHANGED <<checkpoint, deployed, eligible, clerk, halted, measurements>>

Leave(r) ==
    /\ r \in eligible /\ Cardinality(Subject \ eligible) < MaxLeavers
    /\ eligible' = eligible \ {r}
    /\ UNCHANGED <<checkpoint, deployed, message, clerk, halted, troubles, measurements>>

Deploy ==
    /\ deployed = 1 /\ Trouble
    /\ deployed' = 2
    /\ UNCHANGED <<checkpoint, eligible, message, clerk, halted, measurements>>

-----------------------------------------------------------------------------
(* A transaction that changes a group: the change is written, the signal's  *)
(* invalidate_group_consistency takes the Property's row, and both commit.  *)

Write(r) ==
    /\ edit[r] = "none" /\ content[r] = 1 /\ r \in Edited
    /\ edit' = [edit EXCEPT ![r] = "written"]
    /\ UNCHANGED <<checkpoint, deployed, eligible, message, clerk, halted, troubles, content,
                   current>>

\* the new value is seen after the commit; nobody else has the row until then
Invalidate(r) ==
    /\ edit[r] = "written"
    /\ edit' = [edit EXCEPT ![r] = "locked"]
    /\ current' = [current EXCEPT ![r] = Unmeasured]
    /\ UNCHANGED <<checkpoint, deployed, eligible, message, clerk, halted, troubles, content>>

Commit(r) ==
    /\ edit[r] = "locked"
    /\ edit' = [edit EXCEPT ![r] = "none"]
    /\ content' = [content EXCEPT ![r] = @ + 1]
    /\ UNCHANGED <<checkpoint, deployed, eligible, message, clerk, halted, troubles, current>>

Serve(c) == \/ TakeMessage(c) \/ Ensure(c) \/ Refuse(c) \/ Process(c) \/ Send(c)
            \/ LookUp(c) \/ Record(c)

OperationNext ==
    \/ Command \/ Deploy
    \/ \E c \in Clerk : Serve(c) \/ Error(c) \/ LoseClerk(c) \/ RepeatMessage(c)
    \/ \E r \in Subject : Leave(r) \/ Write(r) \/ Invalidate(r) \/ Commit(r)

(* Workers take messages and go on, and transactions commit; nobody has to  *)
(* give the command again.                                                  *)
OperationFairness ==
    /\ \A c \in Clerk : WF_operationVars(Serve(c))
    /\ \A r \in Subject : WF_operationVars(Commit(r))

OperationSpec == OperationInit /\ [][OperationNext]_operationVars /\ OperationFairness

-----------------------------------------------------------------------------
(* Properties.                                                             *)

OperationTypeOK ==
    /\ op.status \in {"absent", "pending", "running", "failed", "completed"}
    /\ op.phase \in {"none", "candidates", "suggestions", "groups", "completed"}
    /\ op.cursor \in Subject \cup {0} /\ op.candidate \in Subject \cup {0}
    /\ op.generation \in 0..MaxGeneration /\ message \subseteq 0..MaxGeneration
    /\ \A r \in Subject : edit[r] \in {"none", "written", "locked"}
    /\ content \in [Subject -> Content] /\ current \in [Subject -> Measurement]

\* A completed operation was at every pair that could be compared throughout,
\* or at every suggestion, and at every group, and was at none of them twice,
\* whatever pages failed, came again or were sent again.  Left out are pairs of
\* a Property that began behind the candidates of one that was merged.
OperationCovers ==
    /\ repeated = {}
    /\ op.status = "completed" =>
          /\ \A r \in eligible : <<"group", r, r>> \in evaluated
          /\ \/ \A r \in eligible : <<"suggestion", r, r>> \in evaluated
             \/ \A r, s \in eligible :
                   r < s /\ r \notin carried => <<"pair", r, s>> \in evaluated

\* The measurement a group points at is of what the group is now, although
\* changes and measurements overlap.
ConsistencyIsCurrent ==
    \A r \in Subject : current[r] # Unmeasured => current[r] = content[r]

\* An operation ends, or an error stops it until the command is given again:
\* lost workers and messages that come late or twice do not.
OperationEnds == op.status # "absent" ~> op.status = "completed" \/ halted
=============================================================================
