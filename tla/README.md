# Verification of the TorobRent backend

TLA+ specifications of the workflows that TorobRent's Django backend
(`src/backend/apps`) runs over its database, Celery queues and users, the TLC
configurations that check them, and TLAPS proofs of their main properties.

Every definition translates code; `PROJECT.json` maps each of them to its lines.

1. The system · 2. The modules · 3. Runs · 4. Fairness · 5. Proofs · 6. What the
work showed about the code · 7. Hazards · 8. Not modelled

## 1. The system

TorobRent lists rental homes. A home gets into the catalog in two ways: somebody
submits it and an Operator reviews it, or it is extracted from the website of an
external Source that an Operator has approved. The backend consists of

| component | state | operations | what makes it hard | modelled by |
|---|---|---|---|---|
| Submission review (`submissions`) | Submission, ReviewClaim, append-only SubmissionEvent | draft, verify the contact, submit, discard; claim, renew, release, decide; sweep of expired claims | several Operators, claims that expire, a sweep without the row lock, checks made by views before the lock | `SubmissionReview` |
| Submission images | SubmissionImage with position and state | upload, process (Celery), replace, reorder, remove, clean up | a slow worker against a retry; unique positions at every update; lost jobs | `SubmissionImages` |
| Decision notifications | SubmissionDecisionNotification | dispatch, deliver, retry | mail sent inside a transaction; messages lost after commit | `DecisionNotification` |
| Operator capabilities, accounts and sign-in (`accounts`) | users, codes, links, groups | register, verify, reset, grant, anonymise | codes asked for, tried and used up side by side; forms checked earlier than they are saved | `AccountAccess` |
| Listing lifecycle (`catalog`) | Listing, Property, evidence | publish, confirm, mark unavailable, archive, expire | the owner, the review and the Sources all move it | `SubmissionReview`, `SourcePublication` |
| Property grouping and curation | Property, match suggestions, claims, measurements | merge, partition, reject, snooze, measure, backfill | aliases; favourites saved in two steps; jobs behind cache keys that lapse | `CatalogGrouping`, `MatchMaintenance`, `MatchOperation` |
| Source proposals and discovery (`source_proposals`) | SourceProposal, reservation, claim, profile versions | propose, claim, approve the URL, discover, approve, revoke, hand over | one website, several cases; slices of a Discovery with lost workers | `SourceCase` |
| Source profiles and repair | profile versions, repair runs | edit, repair, approve | the case changes hands while the model answers | `SourceCase` |
| Source extraction workers | ExtractionRequest, ExtractionRun, broker messages | deliver, begin, checkpoint, complete, retry, recover | two deliveries at two workers, lost workers and messages | `ExtractionWorkers` |
| Source publication | assignment, profile version, mode, candidates, exceptions, exclusions | complete a run, approve, reject, pause, resume, re-version, revoke, exclude | runs that finish in any order, under authority that changed since | `SourcePublication` |
| Source operations | schedule, notification state, signed previews, batches | dispatch, summarise, alert, preview, apply, decide in bulk | overlapping tasks; forms and previews that are stale when they come back | `SourceSchedule`, `SourceNotices`, `SourceBulk` |
| Extraction of a page (`source_extraction`) | frontier and checkpoint of a crawl; robots cache, slots and threads of a fetcher | crawl, fetch, render, checkpoint, resume | threads nobody waits for; a lost slice; deadlines | `SourceCrawl`, `PageFetcher` |
| Support requests (`contact`) | SupportRequest, events, messages, deletion records | claim, triage, escalate, answer, resolve, reopen, redact | windows for replies and edits, creation in three statements | `SupportRequest` |
| Communications | Inquiry, messages, reports, evidence holds, blocks | start, reply, edit, report, decide, release, block, suspend | edits that do not take the lock of the report; accounts that go meanwhile | `ListingInquiry` |
| External media and snapshots | media rows, files | download, retain, delete | mostly I/O | - |
| Common, system, frontend | none of their own | middleware, health checks, rendering of the API | every rule modelled here is enforced by the services | - |

How they interact: approving a Submission publishes its Listing in the same
transaction; verified phones and the capabilities of `accounts` guard the review;
`expire_listings` and the Listing's owner move the same Listing. A case becomes an
assignment with an approved profile; its schedule submits requests; a completed run
of extraction makes candidates, which become Listings by an Operator's approval, in
bulk, or automatically, and tells the responsible Operator about changes; revoking
the assignment cancels requests, runs and candidates and takes the Listings down.
Changed Properties are compared again after the commit and every night. Celery tasks
carry extraction, Discovery, image processing, comparisons and mail; Beat repeats
what may have been lost.

## 2. The modules

| module | what it is |
|---|---|
| `SubmissionReview`, `ReviewDesk` | the review of one Submission, and the abstract desk that it implements |
| `SubmissionImages` | its images |
| `DecisionNotification` | the mail about one decision |
| `AccountAccess` | phones, addresses, passwords and Operator access of accounts |
| `CatalogGrouping` | which Listings are one Property |
| `MatchMaintenance`, `MatchOperation`, `MatchJobs` | the jobs that compare Properties again: focused, nightly, the whole catalog; the two together |
| `SourceCase`, `SourceRepairs` | cases of websites, their Discovery, profiles and assignments; with the history of who had a case during a repair |
| `SourceSchedule`, `SourceNotices`, `SourceBulk` | recurring crawls, what an Operator is told, decisions in bulk |
| `ExtractionWorkers`, `ExtractionRequest` | the delivery, attempts and recovery of one request, and the abstract promise it keeps |
| `SourcePublication` | what becomes of the results of all requests of one Source |
| `PageFetcher`, `SourceCrawl` | the fetcher with its threads, and the crawl that uses it |
| `SupportRequest` | one Support Request |
| `ListingInquiry` | Listing Inquiries, their reports and restrictions |
| `MC...` | instances for TLC; where one set of bounds would not do, a constant `bound` selects among several |
| `..._proofs` | theorems |

`ExtractionWorkers` and `SourcePublication` meet at the request: the first shows
that a request, however it is worked on, behaves like `ExtractionRequest` (open,
then complete, failed or cancelled, results kept once and only under authority;
a failed one may be attempted again); the second takes requests with just these
states and transitions (`SubmitRequest`, `RetryRequest`, `Finish`,
`FinishCancelled`) and follows their results. `SourceCase` and `SourcePublication`
meet at the assignment and its profile version, `SourceSchedule` and
`SourcePublication` at `submit_request`, `SourceBulk` and `SourcePublication` at the
approval of a candidate. `SourceCrawl` extends `PageFetcher`: every step of a crawl
that fetches is a step of the fetcher. Where `MC...` modules put several modules into
one run, the modules share nothing but a row lock and a behaviour is about one of them.

### SubmissionReview

One instance is one Submission; no row of these operations is shared by two.
`state`, `revision`, `discarded` and `listing` are columns; `claims` and `events`
are the ReviewClaim and SubmissionEvent rows; `complete` stands for everything
`_validate_complete_submission` asks of fields, consents and media, and
`contact_verified` for the comparison of the verified phone. `shown` is the
revision whose content the Listing carries.

* Services lock the Submission row. An Operator's transaction is two steps,
  `Begin...` (checks, under the lock) and `Commit...` (writes visible), because
  `release_unavailable_review_claims` reads (`SweepRead`) and writes
  (`SweepSave`) claims with no lock at all in between; a `Rollback` may come
  instead of any commit. `tx` is the open transaction. The Submitter's
  transactions touch no claim and are one step each.
* Views check `discarded_at` and capabilities before their service takes the
  lock. `late` holds the requests that passed such a check before it turned
  false; at most `MaxLate` at a time.
* Time is `Tick`, which shortens the open claims; a claim is renewed to
  `ClaimDuration`.
* Environment: capabilities come and go, the account's phone changes, the image
  pipeline completes or breaks a draft, Listings expire.

### SubmissionImages

The rows of one Submission's images with status, position, primary flag, the file a
row was given (`source`) and the one its variants show (`shown`). A reordering or
removal renumbers rows one statement at a time (`edit`), since the database checks the
unique constraints at every row. A worker reads the file in its first transaction and
stores the result in a second one; the jobs between commit and broker may be lost,
tasks may fail and be repeated, a lost worker's message comes back. `cleaner` is the
list that `cleanup_abandoned_images` has read and goes through. The lock order of
that job (services.py:1188) is opposite to that of the services; Postgres then aborts
one of the two, which are atomic, so nothing of it is seen here. A message given back by
a lost worker can let an older file overwrite a newer upload: `LatestFileShown` is
about images with no such message (`again`).

### DecisionNotification

One row, the calls that are about to dispatch it, the messages at the broker by the
retries they have left, and the delivery that holds the row's lock while it sends the
mail. The broker may refuse; a process may be lost anywhere. Decisions made today
create a SystemNotification, so rows are historical ones.

### AccountAccess

User rows, code challenges, and requests on their way. `_issue_phone_otp` consists of
statements that commit one by one (`request` holds how far one has come): two requests
at once may leave two open challenges, and an older code works once the newer is used
up. `verify_phone` waits for the row lock and sees the row as it is then. A unique
column that is taken fails the whole transaction (`TryInVain`). Links are signed for
the row as it was. The form of Operator access is checked before it is saved.
`MaxAttempts = 2` stands for the code's 5. The token of an e-mail link names only the
account; a request begun while an account was active may change the address of one
anonymised meanwhile, and the anonymisation keeps the phone.

### CatalogGrouping, MatchMaintenance, MatchOperation, MatchJobs

`alias` is `merged_into`; `home` is the Property of a Listing. Services lock the
Properties they touch and are one step each, but for saving a favourite, which follows
the aliases to a root (`route`) before it locks it. Suggestions carry the evidence they
were scored on (`seen`), the evidence they were rejected on (`quiet`), and the scoring
version. `parted` are the fingerprints that a partition leaves so that it is not
suggested back. In the model the content of a Property is its scoring evidence: the
bulk update of `expire_listings` (catalog/services.py:217-221) sends no signal, and the
state of a Listing is part of `group_revision`, so measurement pointers may outlive it.

`MatchMaintenance`: after commit a hook sets the cache key of its Property and sends a
job, or finds the key and sets `dirty`; the job compares, and looks at `dirty` when it
ends. `identity` and `measured` number what there is and what was compared. Every
night a chain of pages runs under a token. Keys lapse, processes are lost, messages
refused.

`MatchOperation`: a backfill or rescore in pages, each one transaction on a durable
checkpoint; the next message carries the checkpoint's generation, which tells old
messages from new ones. `record_failure` reads without a lock and may write FAILED over
COMPLETED; giving the command again repairs it. Counters, and commands of the wrong
kind, which are refused before anything, are left out.

`MatchJobs` is the conjunction of the two: each has state of its own, and any steps of
theirs may come between each other.
### SourceCase

The cases of several websites: `row` (state, host, responsible Operator, revisions),
claims, Discovery reservations, profile versions, assignments, repair runs, Discovery
messages (`broker`) and the workers on them (`fetching`). Each service is one
transaction under its case's row and is one step; a slice of a Discovery and a repair
are two, around what they do without a lock. Whatever a Discovery finds is one of a
profile, nothing, or a failure. A reservation that has expired stays until it is
released, by maintenance or by a competitor's `approve_url`. Deliveries may repeat,
messages and workers be lost. A worker's hard limit of 660 s is shorter than the 12
minutes after which a run counts as stale, so `GrowStale` waits for the worker.
Left out: DRAFT rows of old releases, `needs_reconciliation`, the checks of capabilities.
A reservation released by a competitor leaves the stage stale, which the serializer
masks (`Shown`); the first message of a Discovery is not sent again and waits for the
expiry; a rejected replacement leaves the case REJECTED with its assignment active.

### ExtractionWorkers

One request and its run. The broker is a bag of messages (`queue`); a message has
its generation, its retries so far and the attempt it waits for (`after`: Celery's
countdown of twelve minutes). `run.recent` says that `started_at` is less than
`RECOVERY_DELAY` ago; this is all that time means to the code, and a slow worker
may outlast it here, which the time limits of the real worker make rarer, not
impossible in the model. `worker[w]` is what a process does between its
transactions:

* `Deliver`, `Redeliver`: `deliver_extraction_request` after commit and each
  minute, and the continuation that `expire_reservations` sends again;
* `Dismiss`, `FindBusy`, `GiveUp`, `Begin`: the first transaction of
  `run_extraction`, one per return or outcome;
* `Checkpoint` then `SendContinuation` or `LoseContinuation`: saved progress and,
  outside the transaction, the message that continues it;
* `FencedOff`, `Succeed`, `Fail`, `Cancel`: the completion transaction;
* `Return`: the task ends, its message is acknowledged, a retry is sent or, past
  `max_retries`, dropped;
* `Crash`: the worker is lost and its message comes back (`acks_late`,
  `reject_on_worker_lost`), perhaps in addition to the retry it sent;
* `Kill`: the task ends by the hard limit or an exception outside the `try`, and
  Celery acknowledges its message;
* `EndAuthority` (pause, new version) and `Revoke`.

Left out: the progress columns, the hundred deliveries per minute, the deletion
of checkpoints older than thirty days, and the pages themselves.

### SourcePublication

One Source with the pages `Url` and an entry page `Website`. Requests are numbered
in creation order, which is the order the code compares. Every operation locks
the Source row first and is one step. `source.grant` is what a request copies
when it is created (assignment, profile version, processing revision) together
with the publication mode and its revision at that time. `Finish` is the
completion transaction: candidates are created and replaced, publishable ones
published if the mode is automatic, exceptions recorded, withdrawn pages taken
down, in the order of the code. `candidate[r][u]`, `listing[u]`, `latest[u]`
(`SourceExtractionException.last_run`) and `withdrawals[r]` are its rows.
`fenced` and `switched` are history: the requests that existed at the latest
pause, resume, version or revocation, and at the latest such or change of mode.
`valid` says whether a candidate passes `validate_candidate`.

### SourceSchedule, SourceNotices, SourceBulk

`SourceSchedule`: Celery starts `dispatch_scheduled_crawls` every 60 s with a limit of
300 s and late acknowledgement, so two tasks overlap. A task reads the time once and
lists what is due without a lock (`task`), then serves each Source in a transaction.
`form` is what an Operator's form shows, to be compared with the revision when it
comes back. `BatchSize = 1` stands for 100; the list is served in any order, as none of
the properties depends on it; errors other than ValidationError are left out.

`SourceNotices`: runs complete in any order and record their health by the order of
their requests; a task sends one summary a day and the failure notice that found nobody.
One Source. A task begun before midnight can date a summary to the day before after the
new day's was sent (`RepeatedDate`); until the following day the unique (source,
summary_date) constraint then ends every task at that Source, and the Sources behind it
in the list wait too, which one Source does not show.

`SourceBulk`: a preview is signed with a digest of what the action depends on, and comes
back, perhaps several times; a list of candidates comes back with an outcome for each, on
the versions that the form shows. The real digest holds more (images, history,
timestamps), so fewer tokens match in the code. The candidates that a run supersedes
are the page's `version`. A batch with no decidable item changes nothing. What
publication does is in `SourcePublication`.

### PageFetcher, SourceCrawl

`PageFetcher` is one fetcher with its slots, its robots cache and its threads: lookups,
connections and renderings that nobody waits for once their deadline has passed, which
go on and take their slot until they end (`alive`). Deadlines pass at any time. Every
caller asks for one URL at a time, so batches are left out, as are the pauses of
`_pace_fetch`. Only redirects of pages are held against robots.txt, and failures to read
robots.txt are not cached, as in the code. `SourceCrawl` is the crawl: a frontier by
score, pages, aliases, and a checkpoint when a slice pauses; a slice may lose its worker or
find its authorization gone; exclusions come meanwhile. A `Website` is any assignment of
origins, robots.txt, redirects, kinds and links to the addresses, and is rigid. Link
scores are good, weak or poor. A fetcher is new in each slice, and threads of an earlier
one are not counted. A page first met under a worse classification keeps it; best-first
order may give a page a larger depth than its shortest; evidence of blocked resources
may be missing after the deadline. Left out: the image fetcher, the recheck of
exclusions and the confirmation of withdrawals after a crawl.

### SupportRequest

The row, its history, its thread, the two windows (replies after resolution, edits), the
deletion's records. A command runs under the row's lock and is one step; the creation of
a request is three statements that commit one by one (`creating`), so that a redaction
between them lets the first message come late; a page that is read and the mark that it
was read are two steps (communications/views.py:303). Texts are personal or redacted. The
requester's own reply also marks as read; triage's escalation changes the public status
without `public_updated_at`; after redaction the former requester, if an Operator, may
handle it; a resolved request reclassified as a deletion is unproven.

### ListingInquiry

Inquiries between a renter and a submitter about Listings, messages, reports with the
evidence they hold, restrictions, the deletion of accounts through the Django admin and
the cleanup. Transactions are two steps from lock to commit (`open`), as an edit of a
message does not take the lock under which it is reported: the foreign keys of the holds
make the report's commit wait for the edit, so what is held does not change, but the
copied evidence may carry the text before an edit under way. A block made in one inquiry of
a pair does not stop a reply that is being written in another. `Radius = 0` and two
messages stand for a radius of 2. Source Conversations, the list of messages, System
Notifications and read marks (two statements, as in SupportRequest) are left out;
`lock_listing_inquiry_message_edits` has no caller.
## 3. Runs

All pass but `discard_race`, which finds a violation. Properties that belong together
are checked as one conjunction, whose parts are in brackets.

| run | instance | properties |
|---|---|---|
| `review` | `MCSubmissionReview` | `ResponsibilityHolds` (one responsible Operator; closed claims stay closed), `DecisionsAreSound` (claimed, one per revision, history tells the state), `ListingCarriesApprovedRevision`, `LiveOnlyByReviewOrConfirmation`, `ReviewImplementsDesk` |
| `discard_race` | the same | `ReviewedIsNotDiscarded`, expected to be violated: see section 6 |
| `submission_images` | `MCSubmissionImages` | `ImagesAreSound` (constraints at every row, dense order, reviewed media are ready), `ReadyFilesHold` (the latest file is shown; ready stays ready), `ImagesSettle` |
| `accounts_and_mail` | `MCAccountAccess` | `DeliveryHolds` (mailed once, delivered is mailed and stays), `OwedIsSettled`, `AccountsAreSound` (phones are proved, codes used up, a link resets once, access goes to verified accounts) |
| `catalog_grouping` | `MCCatalogGrouping` | `NothingAtAliases`, `GroupsAreSound` (one review per Property, suggestions current, partitions hold, favourites follow), `RejectionHolds`; `JobsAreSound` (changes followed up, nights alone, operations cover and repeat nothing, measurements current), `JobsEnd` |
| `source_case` | `MCSourceCase` | `CasesAreSound` (a website is current in one case, a host held once, claims and Sources follow the responsible Operator, active is approved, reservations belong to reviews, the stage tells the Discovery), `OneFetcher`, `WorkersKeepToTheCase`, `HostsComeFree` |
| `extraction_workers` | `ExtractionWorkers` | `RequestKeepsPromise` (implements `ExtractionRequest`), `WorkersAgree` (one holder, request agrees with run, never stranded, late workers write nothing), `Settles` |
| `source_publication` | `MCSourcePublication` | `PublicationIsAuthorized` (live only under the assignment, overtaken never publish, automatic only when granted), `ContentStands` (one current result, content never goes back), `OlderEvidenceNeverHides` |
| `source_control` | `MCSourceControl` | `ScheduleHolds` (an interval apart, pauses keep the schedule, replaced as seen), `NoticesAreSound` (every change told once, health of the newest run, failure told once), `BulkHolds` (applied once and as previewed, batches told, published as shown), `ControlGoesOn` |
| `source_crawl` | `MCSourceCrawl` | `FetchingIsSound` (threads bounded, robots heeded, evidence complete), `CrawlIsComplete` (pages distinct, nothing forgotten, aliases kept, excluded stays out), `CrawlEnds` |
| `support_request` | `MCSupportRequest` | `RequestIsSound` (history tells the state, public status true, deletions proven), `WorkIsHandedOn`, `RepliesAreHeard`, `RedactionHolds` |
| `listing_inquiry` | `MCListingInquiry` | `InquiriesAreSound` (kept by purpose, evidence stands, quota), `HeldIsFrozen`, `RestrictionsHold` (suspended start nothing; a blocked pair falls silent) |

Type invariants are checked within these conjunctions. Every property of a passing run
has a mutant in `PROJECT.json`: a definition with a bug someone could have written
there, which the run detects.

Deadlock is checked by `review`. Elsewhere the system may stop: a request, a crawl, an
operation or a case comes to its end, and bounded inputs are used up.

### Bounds, and why they are enough

* `review`, `discard_race`: three Operators, one of them the Submitter; two
  claim rows, enough for a claim and its takeover, per behaviour; two revisions,
  enough for a return and a resubmission, with a Listing that shows the older
  revision; two ticks per claim, so that a claim can be renewed, near its end and
  over; one late request.
* `submission_images`: three images to be ordered, since a permutation of three that is
  made row by row passes through every kind of collision; two under two workers; or one
  that is uploaded three times while a task fails or a worker is lost.
* `accounts_and_mail`: the mail with the code's three retries, two calls and two lost
  processes; codes in four instances (two requests and two attempts of one account; two
  accounts that want one phone; codes that expire or are lost; two phones of one account);
  links and access in two.
* `catalog_grouping`: three Properties and Listings, the least with a chain of aliases,
  begun apart or two together; two decisions; two Operators, one of them a submitter; a new
  scoring, an edit or a favourite. Jobs: two Properties, two workers, one fault. Operations:
  three subjects in batches of two, so that there is a next page; two workers; one trouble.
* `source_case`: seven instances, each with what its question needs: two cases for one
  host; slices with lost messages and workers; a repair during three transfers;
  replacements and corrections at two hosts; two websites of one submitter; an Operator who
  has a website. All of them together are beyond TLC; the proofs are not so bound.
* `extraction_workers`: two workers, because the hazards are of one worker
  against another; the code's three attempts and three retries; one checkpoint;
  one delivered copy beyond what retries and crashes add; one lost worker and one
  task that ends without a result. A larger run (two lost workers, 1.5 million
  states) found nothing more.
* `source_publication`: one page, as pages interact through no row. Three requests under
  one authority, for every order of results; two requests under two versions and two
  processing revisions, for every way of overtaking one by a change; two under two changes
  of mode, so that a grant is withdrawn and found again by an older request.
* `source_control`: two tasks at one Source, or one task and two Sources; two intervals and
  four hours, enough to be late by a full interval; three runs and days; two pages, previews
  and versions, since a preview can only be wrong by a change and a change back.
* `source_crawl`: three sites of five addresses with cycles, aliases, two origins, redirects
  and scripts, in six instances; four pages so that the limit is reached; two attempts.
* `support_request`: a requester, an Operator, a superuser, and four sets of limits: the work
  with its escalations, the thread with its edits, the same with pages, a deletion.
* `listing_inquiry`: two accounts; one Listing with reports and edits, or two with blocks.

The theorems of section 5 hold for every value of these constants.

## 4. Fairness

Liveness is `Settles`, `ImagesSettle`, `OwedIsSettled`, `JobsEnd`, `HostsComeFree`, `CrawlEnds`
and `ControlGoesOn`. Wherever a property is one of these, the specification states

* what Celery Beat starts again and again: `Deliver(TRUE)` and `Redeliver` of requests
  each minute, `DispatchPending`, `ReadAbandoned`, `StartTask`, `StartDelivery`,
  `ExpireReservations`, `Recover` and `Redeliver` of Discoveries;
* that the broker hands out messages and does not refuse all for ever (`Receive` and
  `Dispatch` of the mail are strongly fair, as the row's lock comes and goes; `Start`);
* that tasks end, by their limits if by nothing else: `Work(w)`, `Deliver`, `Checkpoint` or
  `End`, `Focused`, `Nightly`, `Serve`, `Statement`, `CleanNext`, `CrawlStep`. What they end with
  is left open;
* that time passes where something waits for it: `TimePasses`, `Age`, `GrowStale`, `Midnight`,
  the lapse of cache keys (`AbandonedEnds`, `PageKeysEnd`), deadlines (`FetchStep`).

Nothing is assumed of users, Operators, revocations, faults, hooks, or threads that nobody
waits for. `Settles` excludes behaviours in which a task is ended without a result (`kills`):
section 6. The 24 hours of a reservation need not pass for `HostsComeFree`. What is told
of failures and summaries is about what arose before the last day of the bound.
## 5. Proofs

Checked by TLAPS for any values of the constants that satisfy the named
assumptions of the modules (`Nat`, non-zero durations and limits, null values
that are no members of the sets).

**SubmissionReview_proofs.** `ReviewInv` is inductive: typing, `OneResponsibleOperator`,
`DecisionsAreClaimed`, `OneDecisionPerRevision`, `HistoryTellsState`, and two
strengthenings. `TxWellFormed` says what the transaction in progress still knows at
its commit: nothing but the sweep wrote since its checks, so the Submission is still
pending, the claim it acts under is its Operator's and of the current revision, and
every other open claim is among those it will close. `SweepWellFormed` says that a
sweep holds only rows that exist: it may close a claim again or close a newer
state of it, never resurrect one. The other theorems follow; `ReviewRefinesDesk`
maps the responsible Operator to the one whose decision is being written, or the
owner of the one open claim.

The same module proves `SubmissionImages`. `RowsHold` is about the rows at every statement:
`Renumbering` splits them by what the edit has done to each (still to be shifted, shifted
above `Limit`, renumbered below `next`), so that a position an UPDATE is about to take is free
whichever row comes first, and the row that is to be primary is among them; with it
`MediaHold`, that a Submission under review has no edit under way and complete media. That a
removal finds the rest in the order of their positions, which the model chooses, is
`RestInOrder`. `FileFits` counts what may still write to an image: unless a lost worker's message
was given back for it, there is one message or one worker at work, on the file given last, and
neither once the image is ready or has failed. Hence a replacement, which asks for a failed
image, never meets a worker with the file it replaces. `ImagesStand` and `ReadyFilesStand` follow.

**ExtractionWorkers_proofs.** `HolderInv` orders attempts and generations: no worker is
ahead of the run, and two workers at work on the same attempt of the same
generation are one. A `queued` run needs its own part: `Begin` after a checkpoint
keeps the attempt number, so the generation must separate the new holder from the one
that left. `WriterInv` adds `RequestAgreesWithRun`, which makes `Finished`, the guard
of deliveries, speak for the run as well. It gives `OneHolder`,
`LateWorkersWriteNothing` and the refinement of `ExtractionRequest`.
`NothingIsStranded` needs more: `DeliveryInv` bounds the retries of a message by
the attempt it waits for, so that, with `MaxAttempts <= MaxRetries`, a message
about the present attempt has a retry left, and `CoverInv` says who will take the
request up: a message of its generation, the worker that holds it, or one that is
about to retry. `NeverStranded` speaks of behaviours in which no task was ended without
a result, as it must.

**SourcePublication_proofs.** `TypeOK` needs one fact more to be inductive: an assignment
comes with a version of its own, so the bound on versions bounds assignments (`Typed`).
Two invariants then carry everything. `AuthorityInv`: a request's grant never exceeds
the Source's, and what was overtaken stays so, because versions and processing
revisions only grow and a revoked Source returns only with another version; this is
why an authorization check that compares for equality is enough. `ResultInv`: only
complete requests have candidates, the exception row of a page is at least as new as
each of its candidates, the newest candidate of a page stands and no other one does, and
a Listing shows a candidate whose state is still published. `OneCurrentResult` alone is
not inductive: a run that finds no *standing* newer candidate concludes that there is
no newer one at all, which needs that the newest always stands. `ListingStep` says how a
Listing moves: it stays, is taken down, or is published by an authorized request newer
than every candidate; the action properties follow from it and the two invariants.

**SourceCase_proofs.** The invariant `Inv` has a part for every kind of row: rows are numbered
without gaps (`Counted`); what the state of a case says of its row (`CaseInv`); every row is
of its case (`OfItsCase`); what a version, an assignment, a claim's lease, the stage and a
worker are backed by (`VersionInv`, `AssignmentInv`, `LeaseInv`, `StageInv`, `FetchInv`);
`OneCurrentWebsite`. `HostIsExclusive` and `ReservedForReview` need `Reserving`: a reservation
that was not released is of the current revision of a pending case, the last one of its case,
the only one at its host, and nobody else is assigned there. Almost every operation
changes the rows of one case, so the steps share two lemmas, `StepOfCase` and
`ReservingStep`, and lemmas about the writes that the services have in common: of a row,
a transfer, the stage and its deadline, a release, a proposal. `CasesStand`,
`OneWorkerFetches` and `LateWorkers` follow. Of `SourceRepairs`, `RepairInv` compares the number of
transfers that a repair was begun with to the case's: they differ as soon as somebody else has
been responsible, and stay different when the case comes back, since a transfer counts
whoever gets the case (`TransfersAreCounted`). `RepairsKeepToTheCase` follows.

**SourceControl_proofs.** `SourceNotices`: `NoticesInv` keeps the newest run that the record
considered, so an older result that arrives late changes neither health nor the count, and
ties the alerts and the recoveries told to whether the Source fails. `SourceSchedule`:
`ScheduleInv` says that the next crawl is an interval after the latest one, however old a
dispatch task's list is, and that a form which shows the revision in force shows its
interval. `SourceBulk`: `RowsInv`, `PreviewInv` (a stale token was overtaken by a digest of
another state, and rows only move onward, so no state returns under a token) and
`BatchInv` (what a batch decided is settled).

`SourceCrawl` with its `PageFetcher`: `FetcherInv` counts threads against slots and says when
the fetch under way is inside a request (`RequestsFit`: then robots.txt of that origin is known
and allows it) and that a browser whose record was returned is gone or was told to stop
(`RenderingsFit`). The count of those who wait for a kind of thread changes by one at most with
each step of a request (`RequestMoves`, `BrowserMoves`), which is where `Url` and `Browser` must
be finite. `CrawlFits` is what holds alike of the crawl in the worker's hands and of its
checkpoint, so that either may replace the other: every link of a page that leads on is
visited, in the frontier, or too far; a failure stands for an address that was visited.
`SliceFits` adds that an item which is being fetched has room for its page and has none
yet, and that a checkpoint has no more pages than the slice, so a lost worker adds nothing. The
lemmas on sequences (`BestIsThere`, `Removed`, `JoinedSets`, `Listed`) say that the frontier
loses the best entry and nothing else. `FetchersStand` and `CrawlsStand` hold for every
`Website`.

**AccountsAndMail_proofs.** Of the mail of a decision (`DecisionNotification`), `MailInv`: before the delivery is recorded, mails exceed lost
workers by the uncommitted one at most; after it, no transaction holds the row. `OneMail`
and `DeliveredIsFinal` rest on this and so on the lock.

Of `AccountAccess`, `AccountInv` has a part for rows, codes and links. `RowsInv`: phones and
addresses are one account's, and a verified phone has a proof in the history. `CodesInv`:
challenges are numbered as they are issued; what was compared with one counts as attempts
of it, and the right code closed it, so a challenge found before its lock was waited for is
looked at again. `LinksInv` keeps passwords numbered: a link that was used is signed for a
password before its account's, or from before its account was anonymized, and no two used
links are signed alike. That a link serves once needs the second case: an anonymized
account may be made active again and ask for a link while it has no password.

Of `ListingInquiry`, `InquiryInv` relates the rows to the transactions that wait. What one has read
under its lock still holds when it commits: of a start, that its renter may contact the submitter
and is under the limit; of a reply or a report, that the inquiry is kept and that what it copies
was said there; of an edit, that nobody holds its message (`StartsStand`, `AnswersStand`,
`EditsStand`; `ActorsStay` keeps who acts among the accounts). An inquiry is kept exactly while it
has messages, a report yet to be decided is retained for its investigation, and the reports with
those under way stay in the bound (`SaidWhileKept`, `PendingIsInvestigated`, `ReportsFit`). What an
operation does to each table is summed up once (`InquiryMoves`, `OpenMoves`, `RestrictionMoves`,
`ReportMoves`, `RecentMoves`), and the parts are proved from the summaries. `KeptByPurpose` follows
from exactly what `Removable` asks before a thread may go, together with `EvidenceStands`. `HeldStaysFrozen` and
`RestrictionsStand` are the action properties under this invariant; that a blocked pair falls
silent is stated of single steps (`BlockedFallSilent`: once a pair is blocked and an
inquiry has no reply under way, no message is added to it and none gets under way until the
block is lifted).

**CatalogGrouping_proofs.** `GroupInv` joins five parts, each kept by every step with the help
of the earlier ones. `HomeInv`: Listings, favourites and aliases are at Properties, and nothing
is left at an alias. `ClaimInv`: a comparison is of two Properties, a partition of one, and two
reviews never share one. `FreshParts`: the Listings an Operator means to separate are a proper
part of the Property's as long as the review is fresh, because whatever moves a Listing marks
the reviews of both Properties stale; so both sides of a partition have Listings, and the pair
is measured before it is rejected. `RowsInv`: a suggestion that waits for an Operator is about
two roots, carries evidence of its own pair, and is not one a partition ruled out; a partition
adds evidence of its own pair only. `RestInv` has the remaining types. With `Follow`, a
recursive function, the proof shows first that such a function exists (a least number of steps
for which it would not leads to a contradiction), then that it leads to a Property and from
next to a root to the root: an account that saved either of two merged Properties finds it under
the target (`FavoritesFollow`). Property is assumed finite, as the rows of a table are: the
bound of the loop that follows aliases is a cardinality. `Shaped` and `StepKeeps` say how a
suggestion may change in a step (measured again, rebased, decided, suppressed): a rejected pair
is asked about again only on other evidence than it was rejected on, which gives
`RejectionHolds`.

Of `MatchMaintenance`, `JobInv` joins `FocusInv` and `NightInv`. `FocusInv` adds to
`ChangesAreFollowedUp` that whoever holds the key of a Property still has its measurement
before him (`KeyHasJob`): a hook that finds the key may then leave it at a mark, which the
task reads after it has given the key back. `NightInv` says that whoever measures has the
lock's token, that at most one task is past the door with it, that its page then has its
`processing` key and no other page of the token waits, and that never two of them wait; a
page that comes twice, a lost worker and a lapsed lock keep it, and two tasks at work
(`ReconciledAlone`) contradict it. It rests on the keys of Properties being positive and on
`NoToken` being no token. Of `MatchOperation`, `CoverInv` says for each phase what it was at and
what it has still to do, in terms of the checkpoint: pairs up to the cursor, and of the
Property at work those up to `candidate`, unless that one left. That a page is the least keys
after the cursor, and all of them when it is not full (`FirstIs`), is proved for any finite set
of keys, whose greatest element exists because the order of its subsets is well founded.
`MeasuredInv` relates a measurement to a change under way: a group that is locked has none. `JobsStand`
states all of it for the conjunction of the two specifications (`MatchJobs`).

**SupportRequest_proofs.** `RequestInv` joins four parts. `Consistent` relates the fields of the
row. `Told` says that the history is a chain which ends at the row's status, that its latest
move names the assignee, and that its latest public event reads as the row's status does; every
command records one event that follows the row as it was read under the lock (`Follows`), and
`ToldMore` carries `Told` over it. `Proven` is the rule of deletions with its one excuse, a
classification after the request was resolved. `Private` says that a requester's own events
and first message go by the row's submitter, so that once the submitter is gone nobody passes
for the author of an edit or a reply. A redaction rewrites who acted and nothing else of the
history (`Alike`), hence it disturbs none of the other parts.

**What stays with TLC.** Liveness under fairness (`Settles`, `ImagesSettle`, `JobsEnd`,
`HostsComeFree`, `CrawlEnds`, `ControlGoesOn`, `OwedIsSettled`) needs ENABLED, which is out of the
prover's reach. Every invariant and every other action property of the passing runs is
stated by a theorem.
## 6. What the work showed about the code

* `discard_race` (`services.py:679`): a submit request passes its view while the Submission
  is a draft, the Submission is discarded in another tab, and `submit_for_review`, which
  looks at the state and the submitter only, submits the discarded Submission.
  Operators can claim and publish it; its owner gets 404.
* A task of extraction that is ended by the hard time limit leaves its run RUNNING: Celery
  acknowledges the message, no delivery is left that could recover it, and the maintenance
  looks at queued requests only (docs/source-extraction.md:220-221 relies on the recovery
  window). Hence the condition in `NeverStranded` and `Settles`.
* docs/development.md:444-447 says that older candidates "cannot overwrite a newer publication
  or withdrawal outcome". A withdrawal makes no candidate, and `retention.py:57` and the
  approval compare candidates only: an older run may publish what a newer one found gone.
* Discarding the draft of a published Submission (`services.py:245`) leaves its Listing live.
* The admin's confirmation of an expired Listing (`catalog/admin.py:454`) asks nothing of the
  assignment under which it was published.
* `group_origin` (`property_partitions.py:131`) is where a Listing's first event moved it from,
  which docs/development.md:555-556 describes otherwise; `property_partitions.py:70` locks in
  another order than its siblings.
* A hook that finds the key taken and sets `dirty` after the worker has looked leaves a change
  unmeasured until the nightly chain (`test_property_match_suggestions.py:776` promises a
  follow-up). A first worker of a night that is lost, or a page that is delivered again while
  its processing key lives, ends the chain until the next night. Hence `missed` in
  `ChangesAreFollowedUp`.
* `candidate_cursor` is not compared with the Property that it was left at: if that Property is
  merged or expires between its pages, the next one begins behind it, and those pairs are not
  evaluated (docs/development.md:605 "evaluates each bounded indexed pair once"). Hence `carried`
  in `OperationCovers`; without it TLC finds the violation.
* `run_discovery` and `approve_url` lock a case and an expired reservation's case in orders that
  may cross; Postgres would abort one.

Only the first is a run of its own; the others are visible as the conditions named.

## 7. Hazards

`PROJECT.json` lists what is hard to test here, each at its line, with the properties that
would catch it going wrong. Every one is covered by a run.

## 8. Not modelled

* the Django admin but for the deletion of accounts: its Listing actions bypass the services;
* `append_submission_decision_correction`, which adds to the history only;
* prices, texts, geography, product events: data no property here tells apart;
* parsing of pages (`rules`, `observations`, `normalization`), the comparison of profiles and
  the model's prompt: pure computations on strings, without state of their own;
* download and retention of media and snapshots, middleware, the frontend;
* sessions, throttling and passwords' hashes; lists and filters that only read.
