---------------------------- MODULE SubmissionImages ----------------------------
(* The images of one Submission (apps/submissions/services.py): uploads,      *)
(* their processing by Celery workers, replacement of a failed one, reordering *)
(* and removal, and the cleanup of abandoned ones. A worker works on the file   *)
(* it read in its first transaction and stores the result in a second one; the  *)
(* Submitter's transactions lock the Submission, a worker's only the image.     *)
(* Reordering and removing renumber the images row by row under constraints     *)
(* that the database checks at every row.                                       *)
EXTENDS Naturals, FiniteSets, SequencesExt

CONSTANTS
    Worker,         \* Celery worker processes
    Limit,          \* MAX_SUBMISSION_IMAGES
    MaxImages,      \* bound: images ever added
    MaxUploads,     \* bound: files ever uploaded
    MaxFaults,      \* bound: tasks that end with an exception and are retried
    MaxLosses       \* bound: workers lost with a message not yet acknowledged

ASSUME LimitAssumption == Limit \in Nat \ {0}
ASSUME BoundAssumption ==
    MaxImages \in Nat /\ MaxUploads \in Nat /\ MaxFaults \in Nat /\ MaxLosses \in Nat

Image == 1..MaxImages
NoFile == 0
File == NoFile..MaxUploads

VARIABLES
    image,      \* rows: SubmissionImage
    submission_state,   \* "decided" is published or changes requested
    media_complete,
    edit,       \* the transaction that is renumbering the images, if any
    jobs,       \* messages of process_submission_image underway, by image
    worker,     \* what each worker holds between its two transactions
    cleaner,    \* images that the running cleanup_abandoned_images has still to visit
    uploads,    \* files uploaded so far, numbered in their order
    given,      \* history: the file uploaded last for an image
    again,      \* history: images whose message was given back by a lost worker
    faults

imageVars == <<image, submission_state, media_complete, edit, jobs, worker, cleaner,
               uploads, given, again, faults>>
rows == <<image, media_complete, edit>>
work == <<jobs, worker, again, faults>>
files == <<uploads, given>>

Temporary == {"pending", "processing", "failed"}

Row == [status : Temporary \union {"ready", "none"}, position : 0..(2 * Limit), primary : BOOLEAN,
        source : File, shown : File, old : BOOLEAN]
NoRow == [status |-> "none", position |-> 0, primary |-> FALSE,
          source |-> NoFile, shown |-> NoFile, old |-> FALSE]

Existing == {i \in Image : image[i].status # "none"}
InOrder(S) ==
    CHOOSE s \in SetToSeqs(S) :
        \A a, b \in 1..Len(s) : a < b => image[s[a]].position < image[s[b]].position

NoEdit == [op |-> "none", plan |-> <<>>, next |-> 0, shift |-> {}, primary |-> 0, clear |-> FALSE]
Idle == [phase |-> "idle", image |-> 0, source |-> NoFile]

\* submission_media_is_complete
MediaComplete(im) ==
    LET S == {i \in Image : im[i].status # "none"} IN
    /\ Cardinality(S) \in 1..Limit
    /\ \A i \in S : im[i].status = "ready"
    /\ Cardinality({i \in S : im[i].primary}) = 1

ImagesInit ==
    /\ image = [i \in Image |-> NoRow]
    /\ submission_state = "draft"
    /\ media_complete = FALSE
    /\ edit = NoEdit
    /\ jobs = [i \in Image |-> 0]
    /\ worker = [w \in Worker |-> Idle]
    /\ cleaner = {}
    /\ uploads = 0
    /\ given = [i \in Image |-> NoFile]
    /\ again = {}
    /\ faults = 0

(***************************************************************************)
(* The Submitter. Every operation locks the Submission and prepares the    *)
(* edit: a decided Submission becomes a draft again.                       *)
(***************************************************************************)

Editable == edit = NoEdit /\ submission_state \in {"draft", "decided"}
PreparedForEdit == Editable /\ submission_state' = "draft"

\* on_commit: the message may be lost with the process that committed.
Enqueue(i) ==
    /\ \E sent \in {0, 1} : jobs' = [jobs EXCEPT ![i] = @ + sent]
    /\ UNCHANGED <<worker, again, faults>>

NewFile(i) ==
    /\ uploads < MaxUploads
    /\ uploads' = uploads + 1
    /\ given' = [given EXCEPT ![i] = uploads + 1]

\* add_submission_image_for_actor: the image takes the position after the last.
Add(i) ==
    /\ PreparedForEdit
    /\ Cardinality(Existing) < Limit
    /\ given[i] = NoFile /\ \A j \in Image : j < i => given[j] # NoFile
    /\ NewFile(i)
    /\ LET position == Cardinality(Existing) IN
       image' = [image EXCEPT ![i] =
                    [NoRow EXCEPT !.status = "pending", !.position = position,
                                  !.primary = (position = 0), !.source = uploads + 1]]
    /\ media_complete' = FALSE
    /\ Enqueue(i)
    /\ UNCHANGED <<edit, cleaner>>

\* Mutant: an image of any status can be replaced.
ReplaceAny(i) ==
    /\ PreparedForEdit
    /\ i \in Existing
    /\ NewFile(i)
    /\ image' = [image EXCEPT ![i] = [@ EXCEPT !.status = "pending", !.shown = NoFile,
                                               !.source = uploads + 1, !.old = FALSE]]
    /\ media_complete' = FALSE
    /\ Enqueue(i)
    /\ UNCHANGED <<edit, cleaner>>

\* retry_submission_image_for_actor: only a failed image takes a new file.
Replace(i) ==
    /\ PreparedForEdit
    /\ image[i].status = "failed"
    /\ NewFile(i)
    /\ image' = [image EXCEPT ![i] = [@ EXCEPT !.status = "pending", !.shown = NoFile,
                                               !.source = uploads + 1, !.old = FALSE]]
    /\ media_complete' = FALSE
    /\ Enqueue(i)
    /\ UNCHANGED <<edit, cleaner>>

\* reorder_submission_images_for_actor: the new order names every image once.
Reorder(plan, primary) ==
    /\ PreparedForEdit
    /\ ToSet(plan) = Existing /\ Len(plan) = Cardinality(Existing)
    /\ primary \in Existing
    /\ edit' = [op |-> "reorder", plan |-> plan, next |-> 0, shift |-> Existing,
              primary |-> primary, clear |-> TRUE]
    /\ UNCHANGED <<image, media_complete, work, cleaner, files>>

\* The image that is primary once i has gone: the first of the rest if i was.
NextPrimary(i, rest) ==
    IF ~image[i].primary
    THEN CHOOSE j \in Image \union {0} :
            IF \E k \in Existing : image[k].primary THEN j \in Existing /\ image[j].primary
            ELSE j = 0
    ELSE IF rest = <<>> THEN 0 ELSE Head(rest)

(* remove_submission_image: the row goes at once, the others close the gap in *)
(* the statements that follow.                                               *)
RemoveImage(i) ==
    LET rest == InOrder(Existing \ {i}) IN
    /\ image' = [image EXCEPT ![i] = NoRow]
    /\ edit' = [op |-> "remove", plan |-> rest, next |-> 0, shift |-> ToSet(rest),
              primary |-> NextPrimary(i, rest),
              clear |-> image[i].primary /\ rest # <<>>]
    /\ UNCHANGED <<media_complete, work, files>>

RemoveForActor(i) ==
    /\ PreparedForEdit
    /\ i \in Existing
    /\ RemoveImage(i)
    /\ UNCHANGED cleaner

(***************************************************************************)
(* The statements of a transaction that renumbers. An UPDATE changes its    *)
(* rows one after the other; the row locks keep workers out until commit.   *)
(***************************************************************************)

\* images.update(position=F("position") + MAX_SUBMISSION_IMAGES), row by row.
Shift(i) ==
    /\ i \in edit.shift
    /\ image' = [image EXCEPT ![i].position = @ + Limit]
    /\ edit' = [edit EXCEPT !.shift = @ \ {i}]
    /\ UNCHANGED <<submission_state, media_complete, work, cleaner, files>>

\* images.update(is_primary=False)
ClearPrimary ==
    /\ edit.shift = {} /\ edit.clear
    /\ image' = [i \in Image |-> [image[i] EXCEPT !.primary = FALSE]]
    /\ edit' = [edit EXCEPT !.clear = FALSE]
    /\ UNCHANGED <<submission_state, media_complete, work, cleaner, files>>

\* The loop over the new order.
Renumber ==
    /\ edit.shift = {} /\ ~edit.clear /\ edit.plan # <<>>
    /\ LET i == Head(edit.plan) IN
       image' = [image EXCEPT ![i].position = edit.next, ![i].primary = (i = edit.primary)]
    /\ edit' = [edit EXCEPT !.plan = Tail(@), !.next = @ + 1]
    /\ UNCHANGED <<submission_state, media_complete, work, cleaner, files>>

\* The end of the transaction; a removal counts the media again.
Commit ==
    /\ edit # NoEdit /\ edit.shift = {} /\ ~edit.clear /\ edit.plan = <<>>
    /\ media_complete' = IF edit.op = "remove" THEN MediaComplete(image) ELSE media_complete
    /\ edit' = NoEdit
    /\ UNCHANGED <<image, submission_state, work, cleaner, files>>

Statement == (\E i \in Image : Shift(i)) \/ ClearPrimary \/ Renumber \/ Commit

(***************************************************************************)
(* The course of the Submission, as far as its images depend on it.         *)
(***************************************************************************)

\* save_submission_step_for_actor, step IMAGES: complete_submission_media_step
CompleteMedia ==
    /\ PreparedForEdit
    /\ MediaComplete(image)
    /\ media_complete' = TRUE
    /\ UNCHANGED <<image, edit, work, cleaner, files>>

\* submit_for_review, with ensure_submission_media_complete
Submit ==
    /\ edit = NoEdit /\ submission_state = "draft"
    /\ media_complete /\ MediaComplete(image)
    /\ submission_state' = "pending"
    /\ UNCHANGED <<rows, work, cleaner, files>>

\* request changes or approve, which checks the media again; or reject
Decide(decision) ==
    /\ edit = NoEdit /\ submission_state = "pending"
    /\ submission_state' = decision
    /\ UNCHANGED <<rows, work, cleaner, files>>

(***************************************************************************)
(* process_image. A message may be for an image that has gone: the task      *)
(* ends with an exception and its retries end the same way.                  *)
(***************************************************************************)

\* The first transaction: the image is being processed, its file is known.
Begin(w, i) ==
    /\ edit = NoEdit
    /\ worker[w] = Idle /\ jobs[i] > 0
    /\ jobs' = [jobs EXCEPT ![i] = @ - 1]
    /\ IF image[i].status \in {"none", "ready"}
       THEN /\ worker' = [worker EXCEPT ![w] = [phase |-> "done", image |-> i, source |-> NoFile]]
            /\ UNCHANGED image
       ELSE /\ worker' = [worker EXCEPT ![w] = [phase |-> "at work", image |-> i,
                                                source |-> image[i].source]]
            /\ image' = [image EXCEPT ![i] = [@ EXCEPT !.status = "processing", !.old = FALSE]]
    /\ UNCHANGED <<submission_state, media_complete, edit, cleaner, files, again, faults>>

Ends(w) == worker' = [worker EXCEPT ![w].phase = "done", ![w].source = NoFile]

(* The second transaction: the variants are stored and the file deleted,    *)
(* unless the image is ready by now or has gone.                            *)
Store(w) ==
    LET i == worker[w].image IN
    /\ edit = NoEdit
    /\ worker[w].phase = "at work" /\ worker[w].source # NoFile
    /\ image' = IF image[i].status \notin Temporary THEN image
                ELSE [image EXCEPT ![i] = [@ EXCEPT !.status = "ready", !.source = NoFile,
                                              !.shown = worker[w].source, !.old = FALSE]]
    /\ Ends(w)
    /\ UNCHANGED <<submission_state, media_complete, edit, jobs, cleaner, files, again, faults>>

\* Mutant: a failure is recorded whatever became of the image.
MarkAnyFailed(w) ==
    LET i == worker[w].image IN
    /\ edit = NoEdit
    /\ worker[w].phase = "at work"
    /\ image' = IF i \notin Existing THEN image
                ELSE [image EXCEPT ![i] = [@ EXCEPT !.status = "failed", !.old = FALSE]]
    /\ Ends(w)
    /\ UNCHANGED <<submission_state, media_complete, edit, jobs, cleaner, files, again, faults>>

\* _mark_image_failed: no file, no image in it, or an error while storing.
MarkFailed(w) ==
    LET i == worker[w].image IN
    /\ edit = NoEdit
    /\ worker[w].phase = "at work"
    /\ image' = IF image[i].status \notin Temporary THEN image
                ELSE [image EXCEPT ![i] = [@ EXCEPT !.status = "failed", !.old = FALSE]]
    /\ Ends(w)
    /\ UNCHANGED <<submission_state, media_complete, edit, jobs, cleaner, files, again, faults>>

\* The task returns and its message is acknowledged (CELERY_TASK_ACKS_LATE).
Acknowledge(w) ==
    /\ worker[w].phase = "done"
    /\ worker' = [worker EXCEPT ![w] = Idle]
    /\ UNCHANGED <<rows, submission_state, jobs, cleaner, files, again, faults>>

\* An exception leaves the image as it is; autoretry sends the message again.
Fault(w) ==
    /\ worker[w].phase = "at work"
    /\ faults < MaxFaults
    /\ faults' = faults + 1
    /\ jobs' = [jobs EXCEPT ![worker[w].image] = @ + 1]
    /\ worker' = [worker EXCEPT ![w] = Idle]
    /\ UNCHANGED <<image, submission_state, media_complete, edit, cleaner, files, again>>

\* A worker is lost before the acknowledgement: the broker gives the message back.
Lose(w) ==
    /\ worker[w].phase # "idle"
    /\ Cardinality(again) < MaxLosses
    /\ jobs' = [jobs EXCEPT ![worker[w].image] = @ + 1]
    /\ again' = again \union {worker[w].image}
    /\ worker' = [worker EXCEPT ![w] = Idle]
    /\ UNCHANGED <<image, submission_state, media_complete, edit, cleaner, files, faults>>

(***************************************************************************)
(* cleanup_abandoned_images                                                 *)
(***************************************************************************)

\* SUBMISSION_ABANDONED_IMAGE_HOURS pass without a change of the row.
Age(i) ==
    /\ image[i].status \in Temporary /\ ~image[i].old
    /\ image' = [image EXCEPT ![i].old = TRUE]
    /\ UNCHANGED <<submission_state, media_complete, edit, work, cleaner, files>>

\* Mutant: only failed images are abandoned.
FailedAndAbandoned(i) == image[i].status = "failed" /\ image[i].old

Abandoned(i) == image[i].status \in Temporary /\ image[i].old

\* The candidates are read without a lock.
ReadAbandoned ==
    /\ cleaner = {}
    /\ {i \in Image : Abandoned(i)} # {}
    /\ cleaner' = {i \in Image : Abandoned(i)}
    /\ UNCHANGED <<rows, submission_state, work, files>>

(* Each is looked at again under its lock. remove_submission_image refuses a *)
(* Submission that is no draft, and the exception ends the whole task.       *)
CleanNext(i) ==
    /\ edit = NoEdit /\ i \in cleaner
    /\ IF ~Abandoned(i)
       THEN cleaner' = cleaner \ {i} /\ UNCHANGED <<rows, submission_state, work, files>>
       ELSE IF submission_state # "draft"
       THEN cleaner' = {} /\ UNCHANGED <<rows, submission_state, work, files>>
       ELSE /\ RemoveImage(i)
            /\ cleaner' = cleaner \ {i}
            /\ UNCHANGED submission_state

Clean == ReadAbandoned \/ \E i \in Image : CleanNext(i)

SubmitterStep ==
    \/ \E i \in Image : Add(i) \/ Replace(i) \/ RemoveForActor(i)
    \/ \E plan \in SetToSeqs(Existing), primary \in Image : Reorder(plan, primary)
    \/ CompleteMedia
    \/ Submit

ImagesNext ==
    \/ SubmitterStep
    \/ Statement
    \/ \E decision \in {"decided", "rejected"} : Decide(decision)
    \/ \E w \in Worker :
          \/ \E i \in Image : Begin(w, i)
          \/ Store(w) \/ MarkFailed(w) \/ Acknowledge(w) \/ Fault(w) \/ Lose(w)
    \/ \E i \in Image : Age(i)
    \/ Clean

ImagesSpec == ImagesInit /\ [][ImagesNext]_imageVars

\* Beat runs the cleanup every hour, time passes, and a transaction ends.
Fairness ==
    /\ WF_imageVars(Statement)
    /\ WF_imageVars(ReadAbandoned)
    /\ \A i \in Image : WF_imageVars(Age(i)) /\ SF_imageVars(CleanNext(i))

FairSpec == ImagesSpec /\ Fairness

-----------------------------------------------------------------------------

ImagesTypeOK ==
    /\ image \in [Image -> Row]
    /\ submission_state \in {"draft", "pending", "decided", "rejected"}
    /\ media_complete \in BOOLEAN
    /\ edit.op \in {"none", "reorder", "remove"} /\ edit.shift \subseteq Existing
    /\ ToSet(edit.plan) \subseteq Existing
    /\ jobs \in [Image -> Nat]
    /\ worker \in [Worker -> [phase : {"idle", "at work", "done"}, image : 0..MaxImages,
                              source : File]]
    /\ cleaner \subseteq Image
    /\ uploads \in 0..MaxUploads /\ given \in [Image -> 0..uploads]
    /\ again \subseteq Image /\ faults \in 0..MaxFaults

(* After every statement, even between the rows of one UPDATE, no two images *)
(* have one position and at most one is primary: the constraints of the      *)
(* table never reject a reordering, a removal or an upload.                  *)
ConstraintsHold ==
    /\ \A i, j \in Existing : image[i].position = image[j].position => i = j
    /\ \A i, j \in Existing : image[i].primary /\ image[j].primary => i = j

(* Between transactions the positions are 0, 1, ... without a gap and exactly *)
(* one image is primary: the next upload finds its position free, and a       *)
(* Submission is never stuck without a primary image.                         *)
OrderIsDense ==
    edit = NoEdit =>
        /\ {image[i].position : i \in Existing} = 0..(Cardinality(Existing) - 1)
        /\ Existing # {} => \E i \in Existing : image[i].primary

(* media_complete speaks the truth, although workers and the cleanup change  *)
(* images without looking at it; so what is reviewed or published has all    *)
(* its images ready, and the cleanup finds nothing to remove there.          *)
ReviewedMediaReady ==
    edit = NoEdit =>
        /\ media_complete => \A i \in Existing : image[i].status = "ready"
        /\ submission_state # "draft" => media_complete /\ MediaComplete(image)

(* A ready image shows the file its Submitter gave last, although a worker    *)
(* works on the file it read some time ago; as long as no lost worker's       *)
(* message was given back for this image.                                     *)
LatestFileShown ==
    \A i \in Image : image[i].status = "ready" /\ i \notin again => image[i].shown = given[i]

(* What has become ready stays ready until it is removed: neither a duplicate *)
(* message nor the cleanup nor a late failure takes it back.                  *)
ReadyStaysReady ==
    [][\A i \in Image : image[i].status = "ready" =>
          \/ image'[i].status = "ready" /\ image'[i].shown = image[i].shown
          \/ RemoveForActor(i)]_imageVars

(* Whatever is lost between the upload, the broker and the workers, an image  *)
(* does not wait for ever: it becomes ready or is removed.                    *)
ImagesSettle ==
    \A i \in Image : image[i].status \in Temporary ~> image[i].status \notin Temporary

(* The rows of a Submission's images agree with each other and with its state: *)
(* constraints, order and what its media count as.                             *)
ImagesAreSound == ConstraintsHold /\ OrderIsDense /\ ReviewedMediaReady

(* Ready images are the latest that were given, and stay.                      *)
ReadyFilesHold == [](ImagesTypeOK /\ LatestFileShown) /\ ReadyStaysReady
=============================================================================
