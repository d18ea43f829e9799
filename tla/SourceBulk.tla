----------------------------- MODULE SourceBulk -----------------------------
(***************************************************************************)
(* Decisions about many pages of one external Source at once.              *)
(*                                                                         *)
(* bulk_actions.py: a preview shows what an action would do and signs it   *)
(* with a digest of all that the action depends on; the token comes back   *)
(* later, perhaps several times, and is applied when the digest still      *)
(* holds.  candidate_batch.py: a list of candidates is decided with an     *)
(* outcome for each, on the revisions that the form shows.  Every one of   *)
(* them holds the Source row.  How a candidate comes to be and what its    *)
(* publication does to the Listing is in SourcePublication.                *)
(*                                                                         *)
(* The serialized candidate in the digest holds more than is kept here     *)
(* (images, history, timestamps): with it fewer tokens match.              *)
(***************************************************************************)
EXTENDS Naturals, FiniteSets

CONSTANTS
    Page,         \* SourceExtractionException rows of the Source
    Operator,
    Token,        \* previews
    MaxVersion,   \* bound: results of a page
    MaxDesk,      \* bound: changes of responsibility, processing or mode
    MaxRules,     \* bound: restrictions added or lifted
    MaxSent       \* bound: times that a token is sent

Nobody == 0

ASSUME BulkAssumption == Nobody \notin Operator /\ MaxVersion \in Nat \ {0}

VARIABLES
    desk,         \* the responsible Operator and the revisions of the Source
    page,         \* the current result of each page
    restricted,   \* pages that an active SourceExclusion matches
    leased,       \* pages whose candidate the responsible Operator has claimed
    token,        \* the signed previews
    applied,      \* SourceBulkAction rows of each token
    shown,        \* the result of each page that an Operator's list shows
    decided,      \* history: page and result of each decision made in a batch
    notified,     \* history: page and result of the events of each batch notice
    stale,        \* history: tokens since whose preview a decision, a new result
                  \* or a change of the desk touched what they are about
    steps         \* changes of the desk and restrictions so far

bulkVars == <<desk, page, restricted, leased, token, applied, shown, decided, notified,
              stale, steps>>

Desk == [responsible : Operator \cup {Nobody}, transfers : Nat, grant : Nat,
         paused : BOOLEAN, mode : Nat]
Result == [version : 0..MaxVersion, state : {"none", "pending", "published", "rejected"},
           valid : BOOLEAN, grant : Nat]
\* The candidates as the list of an Operator shows them, by their results.
Shown == [Page -> 0..MaxVersion]
Action == {"publish", "exclude", "request_action"}
Unused == [actor |-> Nobody]

BulkInit ==
    /\ \E o \in Operator :
          desk = [responsible |-> o, transfers |-> 0, grant |-> 0, paused |-> FALSE, mode |-> 0]
    /\ page \in [Page -> {[version |-> 1, state |-> s, valid |-> TRUE, grant |-> 0] :
                             s \in {"none", "pending"}}]
    /\ restricted = {} /\ leased = {}
    /\ token = [t \in Token |-> Unused]
    /\ applied = [t \in Token |-> 0]
    /\ shown = [o \in Operator |-> [p \in Page |-> 1]]
    /\ decided = {} /\ notified = {} /\ stale = {}
    /\ steps = [desk |-> 0, rules |-> 0, sent |-> [t \in Token |-> 0]]

Issued == {t \in Token : token[t] # Unused}
About(S) == {t \in Issued : token[t].pages \cap S # {}}

-----------------------------------------------------------------------------
(* The Source goes on meanwhile.                                            *)

ChangeDesk(d) ==
    /\ steps.desk < MaxDesk
    /\ steps' = [steps EXCEPT !.desk = @ + 1]
    /\ desk' = d
    /\ stale' = stale \cup Issued

\* take_responsibility and reassign_responsibility; leases end with a transfer
Responsible(o) == [desk EXCEPT !.responsible = o, !.transfers = @ + 1]

Transfer(o) ==
    /\ o # desk.responsible
    /\ ChangeDesk(Responsible(o))
    /\ leased' = {}
    /\ UNCHANGED <<page, restricted, token, applied, shown, decided, notified>>

\* change_processing, or another assignment: older results are not authorized
Regrant ==
    /\ \/ ChangeDesk([desk EXCEPT !.paused = ~@, !.grant = @ + 1])
       \/ ChangeDesk([desk EXCEPT !.grant = @ + 1])
    /\ UNCHANGED <<page, restricted, leased, token, applied, shown, decided, notified>>

\* change_publication_mode
ChangeModeOfDesk ==
    /\ ChangeDesk([desk EXCEPT !.mode = @ + 1])
    /\ UNCHANGED <<page, restricted, leased, token, applied, shown, decided, notified>>

(* A run completes with a candidate for the page, or without: either way it *)
(* is the row's last_run.                                                   *)
Extract(p, state, valid) ==
    /\ ~desk.paused /\ page[p].version < MaxVersion
    /\ page' = [page EXCEPT ![p] = [version |-> @.version + 1, state |-> state,
                                    valid |-> valid, grant |-> desk.grant]]
    /\ leased' = leased \ {p}
    /\ stale' = stale \cup About({p})
    /\ UNCHANGED <<desk, restricted, token, applied, shown, decided, notified, steps>>

(* add_exclusion and remove_exclusion by the responsible Operator           *)
RestrictPage(p) ==
    /\ desk.responsible # Nobody /\ steps.rules < MaxRules
    /\ steps' = [steps EXCEPT !.rules = @ + 1]
    /\ restricted' = IF p \in restricted THEN restricted \ {p} ELSE restricted \cup {p}
    /\ UNCHANGED <<desk, page, leased, token, applied, shown, decided, notified, stale>>

Authorized(p) == ~desk.paused /\ page[p].grant = desk.grant
Waiting(p) == page[p].state = "pending" /\ Authorized(p)

(* A claim lasts fifteen minutes.                                           *)
Lease(p) ==
    /\ desk.responsible # Nobody /\ Waiting(p) /\ p \notin leased
    /\ leased' = leased \cup {p}
    /\ UNCHANGED <<desk, page, restricted, token, applied, shown, decided, notified,
                   stale, steps>>

LeaseEnds(p) ==
    /\ p \in leased /\ leased' = leased \ {p}
    /\ UNCHANGED <<desk, page, restricted, token, applied, shown, decided, notified,
                   stale, steps>>

-----------------------------------------------------------------------------
(* Previews.                                                                *)

\* publish_candidate finds nothing against the candidate
Publishable(p) == Waiting(p) /\ page[p].valid /\ p \notin restricted

\* action_eligible of an item
Eligible(p, action) ==
    CASE action = "publish" -> Publishable(p)
      [] action = "exclude" -> p \notin restricted
      [] action = "request_action" -> TRUE

\* Mutant: whose desk the Source is on and its revisions are not in the digest.
DigestOfItems(S, action) ==
    [items |-> [p \in S |-> [result |-> page[p], restricted |-> p \in restricted,
                             leased |-> p \in leased, eligible |-> Eligible(p, action)]],
     desk |-> 0]

\* snapshot and digest
Digest(S, action) ==
    [items |-> [p \in S |-> [result |-> page[p], restricted |-> p \in restricted,
                             leased |-> p \in leased, eligible |-> Eligible(p, action)]],
     desk |-> desk]

Preview(t, o, action, S) ==
    /\ token[t] = Unused /\ o = desk.responsible
    /\ token' = [token EXCEPT ![t] = [actor |-> o, action |-> action, pages |-> S,
                                      digest |-> Digest(S, action), expired |-> FALSE]]
    /\ UNCHANGED <<desk, page, restricted, leased, applied, shown, decided, notified,
                   stale, steps>>

\* fifteen minutes
TokenExpires(t) ==
    /\ t \in Issued /\ ~token[t].expired
    /\ token' = [token EXCEPT ![t].expired = TRUE]
    /\ UNCHANGED <<desk, page, restricted, leased, applied, shown, decided, notified,
                   stale, steps>>

\* the claims left when S is decided
ClaimsWithout(S) == leased \ S

Published(S) ==
    [p \in Page |-> IF p \in S THEN [page[p] EXCEPT !.state = "published"] ELSE page[p]]

\* what apply asks of the token
Applicable(t) ==
    /\ ~token[t].expired /\ token[t].actor = desk.responsible
    /\ Digest(token[t].pages, token[t].action) = token[t].digest
    /\ applied[t] = 0

(* apply: what other tokens are about changes with the pages decided here.  *)
Apply(t) ==
    LET affected == {p \in token[t].pages : Eligible(p, token[t].action)} IN
    /\ t \in Issued /\ steps.sent[t] < MaxSent
    /\ steps' = [steps EXCEPT !.sent[t] = @ + 1]
    /\ Applicable(t)
    /\ applied' = [applied EXCEPT ![t] = @ + 1]
    /\ IF token[t].action = "publish"
       THEN /\ page' = Published(affected)
            /\ leased' = ClaimsWithout(affected)
            /\ stale' = stale \cup About(affected)
       ELSE UNCHANGED <<page, leased, stale>>
    /\ restricted' = IF token[t].action = "exclude" THEN restricted \cup affected
                                                    ELSE restricted
    /\ UNCHANGED <<desk, token, shown, decided, notified>>

-----------------------------------------------------------------------------
(* Batches.                                                                 *)

\* an Operator opens the list of candidates
List(o) ==
    /\ shown' = [shown EXCEPT ![o] = [p \in Page |-> page[p].version]]
    /\ UNCHANGED <<desk, page, restricted, leased, token, applied, decided, notified,
                   stale, steps>>

Sent(o, S) == {<<p, shown[o][p]>> : p \in S}

(* approve_external_listing_candidate or reject_external_listing_candidate   *)
(* succeeds for the item.  A candidate belongs to one result, so another     *)
(* result is another candidate.                                              *)
Decidable(o, p, action) ==
    /\ shown[o][p] = page[p].version
    /\ Waiting(p)
    /\ action = "approve" => Publishable(p)

Events(o, S, done) == Sent(o, done)

(* decide_batch: items that cannot be decided fail alone; the requester of  *)
(* the runs, who represents the Source, gets one notice for the others.     *)
DecideBatch(o, S, action) ==
    LET done == {p \in S : Decidable(o, p, action)}
        state == IF action = "approve" THEN "published" ELSE "rejected"
    IN  /\ o = desk.responsible /\ S # {} /\ done # {}
        /\ page' = [p \in Page |-> IF p \in done THEN [page[p] EXCEPT !.state = state]
                                                 ELSE page[p]]
        /\ leased' = ClaimsWithout(done)
        /\ decided' = decided \cup {<<p, page[p].version>> : p \in done}
        /\ notified' = notified \cup {Events(o, S, done)}
        /\ stale' = stale \cup About(done)
        /\ UNCHANGED <<desk, restricted, token, applied, shown, steps>>

BulkNext ==
    \/ \E o \in Operator \cup {Nobody} : Transfer(o)
    \/ Regrant \/ ChangeModeOfDesk
    \/ \E p \in Page : \/ Extract(p, "none", FALSE)
                       \/ \E valid \in BOOLEAN : Extract(p, "pending", valid)
                       \/ RestrictPage(p) \/ Lease(p) \/ LeaseEnds(p)
    \/ \E t \in Token, o \in Operator, action \in Action, S \in SUBSET Page \ {{}} :
          Preview(t, o, action, S)
    \/ \E t \in Token : TokenExpires(t) \/ Apply(t)
    \/ \E o \in Operator : List(o)
    \/ \E o \in Operator, S \in SUBSET Page, action \in {"approve", "reject"} :
          DecideBatch(o, S, action)

BulkSpec == BulkInit /\ [][BulkNext]_bulkVars

-----------------------------------------------------------------------------
(* Properties.                                                              *)

\* Results, tokens and lists have their types; only a waiting candidate is
\* under a claim.
BulkTypeOK ==
    /\ desk \in Desk
    /\ page \in [Page -> Result]
    /\ restricted \subseteq Page
    /\ \A p \in leased : page[p].state = "pending"
    /\ \A t \in Issued : token[t].actor \in Operator /\ token[t].pages \subseteq Page
    /\ shown \in [Operator -> Shown]

\* A preview is carried out at most once, however often its token is sent:
\* also the message to the representative, which changes nothing that the
\* digest is of.
AppliedOnce == \A t \in Token : applied[t] <= 1

\* A preview is carried out only by the Operator it was shown to, while they
\* are responsible, and only if nothing it is about was decided, extracted
\* anew, paused, handed over or switched since: also when everything has
\* returned to where it was.
AppliedAsPreviewed ==
    [][\A t \in Token :
          applied'[t] > applied[t]
             => t \notin stale /\ token[t].actor = desk.responsible]_bulkVars

\* No result is published in bulk or in a batch while its page is restricted,
\* and each is a result that the Operator was shown.
PublishedAsShown ==
    [][\A p \in Page :
          page'[p].state = "published" /\ page[p].state # "published"
             => /\ p \notin restricted
                /\ \/ shown[desk.responsible][p] = page[p].version
                   \/ \E t \in About({p}) : token[t].digest.items[p].result = page[p]]_bulkVars

\* The notices of batches name every decision once and nothing else.
BatchesAreTold ==
    /\ UNION notified = decided
    /\ \A M, N \in notified : M # N => M \cap N = {}

\* What an Operator carries out in bulk is what they were shown, done once and
\* told once.
BulkHolds ==
    /\ [](BulkTypeOK /\ AppliedOnce /\ BatchesAreTold)
    /\ AppliedAsPreviewed /\ PublishedAsShown
=============================================================================
