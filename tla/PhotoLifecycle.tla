--------------------------- MODULE PhotoLifecycle ---------------------------
(***************************************************************************)
(* A photo from the phone's upload to its permanent deletion: the rows of  *)
(* photos (app/services/photos.py), the upload handler                     *)
(* (app/api/routes/mobile.py), the analysis a worker runs on them          *)
(* (process_photo_with_ai in app/services/ai_pipeline.py), the recycle bin *)
(* and its purges (portal.py, app/services/retention.py).                  *)
(*                                                                         *)
(* Jobs are those of TaskContract, which JobQueue implements: what the     *)
(* queue does to the photo in the transaction that changes the job is      *)
(* added here.  A manager who rejects or promotes an analysis changes the  *)
(* two columns of the photo too: that is in AnalysisLogs, not here.        *)
(*                                                                         *)
(* The web process has one event loop: an upload runs on it from the end   *)
(* of its only await (the read of the body) to its answer, so no two       *)
(* uploads interleave there.  Workers, the portal's handlers (threads) and *)
(* the retention pass run in between its two transactions.                 *)
(***************************************************************************)
EXTENDS Integers, FiniteSets

CONSTANTS
  MaxPhotos,    \* rows of photos (bound)
  MaxJobs,      \* jobs ever enqueued (bound)
  MaxAttempts,  \* queue_max_attempts
  MaxPending,   \* queue_max_pending_jobs_per_tenant
  Phones,       \* clients that upload, each with one picture
  PictureOf,    \* [Phones -> picture]: the checksum of what a phone sends
  MaxSends,     \* sends of a phone (bound)
  Purgers,      \* requests that purge the recycle bin, and the retention pass
  Backends,     \* whether AI backends may be found: a subset of BOOLEAN
  Nobody        \* no phone

Photos == 1 .. MaxPhotos
Jobs == 1 .. MaxJobs
NoPhoto == 0

ASSUME PhotoConstants ==
  /\ MaxPhotos \in Nat
  /\ MaxJobs \in Nat
  /\ MaxAttempts \in Nat \ {0}
  /\ MaxPending \in Nat
  /\ MaxSends \in Nat
  /\ Backends \subseteq BOOLEAN
  /\ Nobody \notin Phones

VARIABLES
  \* the row of a photo: where it is, checksum, labeling_status, tag_json
  row, picture, labeling, tags,
  \* the jobs of the queue and the photo each is about
  phase, tries, about,
  \* the worker that executes a job: where it is and what it loaded
  work, seen,
  \* the upload a phone has in flight, the photo it stored or found, the
  \* labeling_status it loaded, and how often the phone sent it
  upload, stored, loaded, sends,
  loop,      \* the upload that has the event loop
  answered,  \* phones that have seen "Upload successful"
  \* a purge: the photos it loaded from the recycle bin and has still to
  \* delete, and whether it must load them anew (after a rollback)
  batch, expired,
  \* history: photos left pending on purpose or found in the recycle bin by
  \* their job, and photos that came back from the recycle bin
  skipped, restored

photoVars == <<row, picture, labeling, tags>>
jobVars == <<phase, tries, about>>
workVars == <<work, seen>>
uploadVars == <<upload, stored, loaded, sends, loop, answered>>
purgeVars == <<batch, expired>>
history == <<skipped, restored>>
vars == <<photoVars, jobVars, workVars, uploadVars, purgeVars, history>>

Queue == INSTANCE TaskContract WITH Withdrawable <- Jobs

ActiveJobs == {j \in Jobs : phase[j] \in {"open", "executing"}}
JobsOf(p) == {j \in Jobs : about[j] = p}

NothingSeen == [labeling |-> "none", tags |-> "none"]

Init ==
  /\ Queue!Init
  /\ row = [p \in Photos |-> "none"]
  /\ picture = [p \in Photos |-> Nobody]
  /\ labeling = [p \in Photos |-> "none"]
  /\ tags = [p \in Photos |-> "none"]
  /\ about = [j \in Jobs |-> NoPhoto]
  /\ work = [j \in Jobs |-> "none"]
  /\ seen = [j \in Jobs |-> NothingSeen]
  /\ upload = [h \in Phones |-> "idle"]
  /\ stored = [h \in Phones |-> NoPhoto]
  /\ loaded = [h \in Phones |-> "none"]
  /\ sends = [h \in Phones |-> 0]
  /\ loop = Nobody /\ answered = {}
  /\ batch = [k \in Purgers |-> {}]
  /\ expired = [k \in Purgers |-> FALSE]
  /\ skipped = {} /\ restored = {}

-----------------------------------------------------------------------------
(* Columns are written back only where they differ from what was loaded *)

WriteLabel(p, old, new) ==
  labeling' = IF old = new THEN labeling ELSE [labeling EXCEPT ![p] = new]

\* The update of a row that may have been deleted meanwhile.
Label(p, new) ==
  labeling' = IF row[p] = "gone" THEN labeling ELSE [labeling EXCEPT ![p] = new]

\* enqueue_photo_ai_task: the job row, or a RuntimeError at capacity.  A photo
\* may have any number of jobs.
AtCapacity == Cardinality(ActiveJobs) >= MaxPending

EnqueueFor(p) ==
  /\ ~AtCapacity
  /\ \E j \in Jobs :
       /\ \A i \in 1 .. j - 1 : phase[i] /= "unknown"
       /\ Queue!Submit(j)
       /\ about' = [about EXCEPT ![j] = p]

\* Mistake: only analysed photos are taken for duplicates.
FoundAnalysed(h) ==
  {p \in Photos : row[p] = "live" /\ picture[p] = PictureOf[h] /\ tags[p] = "analysis"}

\* The duplicates an upload looks for.
Found(h) == {p \in Photos : row[p] = "live" /\ picture[p] = PictureOf[h]}

-----------------------------------------------------------------------------
(* Uploads *)

\* The phone sends its picture until it has seen the answer.
Send(h) ==
  /\ upload[h] = "idle" /\ h \notin answered /\ sends[h] < MaxSends
  /\ upload' = [upload EXCEPT ![h] = "receiving"]
  /\ sends' = [sends EXCEPT ![h] = @ + 1]
  /\ UNCHANGED <<photoVars, jobVars, workVars, stored, loaded, loop, answered, purgeVars, history>>

\* The body is empty, too large or damaged.
Reject(h) ==
  /\ upload[h] = "receiving" /\ loop = Nobody
  /\ upload' = [upload EXCEPT ![h] = "idle"]
  /\ UNCHANGED <<photoVars, jobVars, workVars, stored, loaded, sends, loop, answered, purgeVars, history>>

\* The first transaction of the handler, up to its commit.
Holds(h, p, label) ==
  /\ upload[h] = "receiving" /\ loop = Nobody
  /\ upload' = [upload EXCEPT ![h] = "stored"]
  /\ stored' = [stored EXCEPT ![h] = p]
  /\ loaded' = [loaded EXCEPT ![h] = label]
  /\ loop' = h
  /\ UNCHANGED <<jobVars, workVars, sends, answered, purgeVars, history>>

FindDuplicate(h) ==
  \E p \in Found(h) :
    /\ Holds(h, p, labeling[p])
    /\ UNCHANGED photoVars

Store(h) ==
  /\ Found(h) = {}
  /\ \E p \in Photos :
       /\ row[p] = "none" /\ \A q \in 1 .. p - 1 : row[q] /= "none"
       /\ Holds(h, p, "pending")
       /\ row' = [row EXCEPT ![p] = "live"]
       /\ picture' = [picture EXCEPT ![p] = PictureOf[h]]
       /\ labeling' = [labeling EXCEPT ![p] = "pending"]
       /\ UNCHANGED tags

\* The end of the handler: the loop is free; the phone may miss the answer.
Answer(h) ==
  /\ upload[h] = "stored"
  /\ upload' = [upload EXCEPT ![h] = "idle"]
  /\ loop' = Nobody
  /\ answered' \in {answered, answered \cup {h}}
  /\ loaded' = [loaded EXCEPT ![h] = "none"]
  /\ UNCHANGED <<workVars, stored, sends, purgeVars, restored>>

EnqueueUpload(h) ==
  /\ TRUE \in Backends
  /\ Answer(h)
  /\ EnqueueFor(stored[h])
  /\ skipped' = skipped \ {stored[h]}
  /\ UNCHANGED photoVars

\* AI is off: no job.
SkipAnalysis(h) ==
  /\ FALSE \in Backends
  /\ Answer(h)
  /\ skipped' = skipped \cup {stored[h]}
  /\ UNCHANGED <<photoVars, jobVars>>

\* The RuntimeError of assert_tenant_queue_capacity.
RefuseJob(h) ==
  /\ TRUE \in Backends /\ AtCapacity
  /\ Answer(h)
  /\ row[stored[h]] /= "gone"
  /\ WriteLabel(stored[h], loaded[h], "failed")
  /\ tags' = [tags EXCEPT ![stored[h]] = "refused"]
  /\ UNCHANGED <<row, picture, jobVars, skipped>>

\* The web process dies, or the second transaction fails.
UploadFails(h) ==
  /\ upload[h] /= "idle"
  /\ upload' = [upload EXCEPT ![h] = "idle"]
  /\ loop' = IF loop = h THEN Nobody ELSE loop
  /\ stored' = [stored EXCEPT ![h] = NoPhoto]
  /\ loaded' = [loaded EXCEPT ![h] = "none"]
  /\ UNCHANGED <<photoVars, jobVars, workVars, sends, answered, purgeVars, history>>

-----------------------------------------------------------------------------
(* Workers *)

Claim(j) ==
  /\ Queue!Start(j)
  /\ work' = [work EXCEPT ![j] = "claimed"]
  /\ UNCHANGED <<photoVars, about, seen, uploadVars, purgeVars, history>>

\* A photo that is missing or deleted is skipped without an error.
Load(j) ==
  LET p == about[j] IN
  /\ work[j] = "claimed"
  /\ \/ /\ row[p] = "live"
        /\ work' = [work EXCEPT ![j] = "analysing"]
        /\ seen' = [seen EXCEPT ![j] = [labeling |-> labeling[p], tags |-> tags[p]]]
        /\ UNCHANGED skipped
     \/ /\ row[p] /= "live"
        /\ work' = [work EXCEPT ![j] = "finishing"]
        /\ skipped' = skipped \cup {p}
        /\ UNCHANGED seen
  /\ UNCHANGED <<photoVars, jobVars, uploadVars, purgeVars, restored>>

\* The commit that ends process_photo_with_ai, and where it leaves the job.
EndsIn(j, stage) ==
  /\ work' = [work EXCEPT ![j] = stage]
  /\ seen' = [seen EXCEPT ![j] = NothingSeen]
  /\ UNCHANGED <<row, picture, jobVars, uploadVars, purgeVars, history>>

Analyse(j) ==
  /\ work[j] = "analysing" /\ row[about[j]] /= "gone"
  /\ WriteLabel(about[j], seen[j].labeling, "completed")
  /\ tags' = [tags EXCEPT ![about[j]] = "analysis"]
  /\ EndsIn(j, "finishing")

\* Every backend failed: _mark_photo_failed on the photo as it was loaded.
Exhaust(j) ==
  /\ work[j] = "analysing" /\ row[about[j]] /= "gone"
  /\ WriteLabel(about[j], seen[j].labeling, "failed")
  /\ tags' = [tags EXCEPT ![about[j]] = IF seen[j].tags = "analysis" THEN "analysis" ELSE "error"]
  /\ EndsIn(j, "failing")

\* Any other exception: rollback, then _mark_photo_failed on the photo as it is.
Raise(j) ==
  LET p == about[j] IN
  /\ work[j] \in {"claimed", "analysing"}
  /\ IF row[p] = "live"
     THEN /\ labeling' = [labeling EXCEPT ![p] = "failed"]
          /\ tags' = [tags EXCEPT ![p] = IF @ = "analysis" THEN @ ELSE "error"]
     ELSE UNCHANGED <<labeling, tags>>
  /\ EndsIn(j, "failing")

\* The job's own transaction; its row may have been deleted with the photo.
Complete(j) ==
  /\ work[j] = "finishing"
  /\ work' = [work EXCEPT ![j] = "none"]
  /\ IF phase[j] = "executing" THEN Queue!Finish(j) ELSE UNCHANGED <<phase, tries>>
  /\ UNCHANGED <<photoVars, about, seen, uploadVars, purgeVars, history>>

\* Mistakes: a job that is given up leaves its photo waiting; a photo that was
\* completed meanwhile is left alone.
WaitsForEver(j) == "pending"
KeepsCompleted(j) ==
  IF labeling[about[j]] = "completed" THEN "completed"
  ELSE IF tries[j] = MaxAttempts THEN "failed" ELSE "pending"

\* _mark_related_target_as_failed or _reset_related_target_for_retry.
LabelAfterFailure(j) == IF tries[j] = MaxAttempts THEN "failed" ELSE "pending"

Fail(j) ==
  /\ work' = [work EXCEPT ![j] = "none"]
  /\ seen' = [seen EXCEPT ![j] = NothingSeen]
  /\ IF phase[j] = "executing"
     THEN /\ Queue!Fail({j})
          /\ Label(about[j], LabelAfterFailure(j))
     ELSE UNCHANGED <<phase, tries, labeling>>
  /\ UNCHANGED <<row, picture, tags, about, uploadVars, purgeVars, history>>

TaskFails(j) == work[j] = "failing" /\ Fail(j)

\* The worker died; recover_stale_jobs finds the row.
Recover(j) == work[j] /= "none" /\ Fail(j)

-----------------------------------------------------------------------------
(* Managers, employees and the retention of completed jobs *)

Trash(p) ==
  /\ row[p] = "live"
  /\ row' = [row EXCEPT ![p] = "trashed"]
  /\ UNCHANGED <<picture, labeling, tags, jobVars, workVars, uploadVars, purgeVars, history>>

Restore(p) ==
  /\ row[p] = "trashed"
  /\ row' = [row EXCEPT ![p] = "live"]
  /\ restored' = restored \cup {p}
  /\ UNCHANGED <<picture, labeling, tags, jobVars, workVars, uploadVars, purgeVars, skipped>>

\* queue_photo_reprocess; the portal's single form takes a trashed photo too.
Reprocess(p) ==
  /\ row[p] \in {"live", "trashed"}
  /\ EnqueueFor(p)
  /\ Label(p, "pending")
  /\ skipped' = skipped \ {p}
  /\ UNCHANGED <<row, picture, tags, workVars, uploadVars, purgeVars, restored>>

RetryJob(j) ==
  /\ Queue!Reopen(j)
  /\ Label(about[j], "pending")
  /\ skipped' = skipped \ {about[j]}
  /\ UNCHANGED <<row, picture, tags, about, workVars, uploadVars, purgeVars, restored>>

ForgetJob(j) ==
  /\ Queue!Forget(j)
  /\ UNCHANGED <<photoVars, about, workVars, uploadVars, purgeVars, history>>

-----------------------------------------------------------------------------
(* Purges of the recycle bin *)

\* "destroy" loads one photo, "empty" those in the user's scope, the retention
\* pass a batch of those that are old enough.
LoadBin(k) ==
  /\ batch[k] = {}
  /\ \E S \in SUBSET {p \in Photos : row[p] = "trashed"} \ {{}} :
       batch' = [batch EXCEPT ![k] = S]
  /\ expired' = [expired EXCEPT ![k] = FALSE]
  /\ UNCHANGED <<photoVars, jobVars, workVars, uploadVars, history>>

\* hard_delete_photo trusts the photo.deleted it loaded (expire_on_commit is
\* off) and deletes the photo's jobs whatever their status.
HardDelete(k, p) ==
  /\ p \in batch[k]
  /\ expired[k] => row[p] = "trashed"
  /\ row' = [row EXCEPT ![p] = "gone"]
  /\ picture' = [picture EXCEPT ![p] = Nobody]
  /\ labeling' = [labeling EXCEPT ![p] = "none"]
  /\ tags' = [tags EXCEPT ![p] = "none"]
  /\ Queue!Withdraw(JobsOf(p))
  /\ batch' = [batch EXCEPT ![k] = @ \ {p}]
  /\ UNCHANGED <<about, workVars, uploadVars, expired, history>>

\* An analysis log was inserted meanwhile (foreign key), the photo is not in
\* the bin any more, the database fails: the retention pass rolls back and goes
\* on with the next photo, a request ends.
HardDeleteFails(k, p) ==
  /\ p \in batch[k]
  /\ \/ /\ batch' = [batch EXCEPT ![k] = @ \ {p}]
        /\ expired' = [expired EXCEPT ![k] = batch'[k] /= {}]
     \/ /\ batch' = [batch EXCEPT ![k] = {}]
        /\ expired' = [expired EXCEPT ![k] = FALSE]
  /\ UNCHANGED <<photoVars, jobVars, workVars, uploadVars, history>>

-----------------------------------------------------------------------------
UploadStep(h) ==
  \/ Send(h) \/ Reject(h) \/ FindDuplicate(h) \/ Store(h)
  \/ EnqueueUpload(h) \/ SkipAnalysis(h) \/ RefuseJob(h) \/ UploadFails(h)

WorkerStep(j) ==
  \/ Claim(j) \/ Load(j) \/ Analyse(j) \/ Exhaust(j) \/ Raise(j)
  \/ Complete(j) \/ TaskFails(j) \/ Recover(j)

JobStep(j) == RetryJob(j) \/ ForgetJob(j)

ManagerStep(p) == Trash(p) \/ Restore(p) \/ Reprocess(p)

PurgeStep(k) ==
  \/ LoadBin(k)
  \/ \E p \in Photos : HardDelete(k, p) \/ HardDeleteFails(k, p)

Next ==
  \/ \E h \in Phones : UploadStep(h)
  \/ \E j \in Jobs : WorkerStep(j) \/ JobStep(j)
  \/ \E p \in Photos : ManagerStep(p)
  \/ \E k \in Purgers : PurgeStep(k)

Spec == Init /\ [][Next]_vars

-----------------------------------------------------------------------------
(* Properties *)

\* "Duplicate-upload protection": a picture sent again and again, by a phone
\* that missed the answer or by two phones, is kept once, unless its first copy
\* came back from the recycle bin after the second was stored
\* (save_mobile_upload has no unique constraint to rely on).
OneLivePhotoPerPicture ==
  \A p, q \in Photos \ restored :
    row[p] = "live" /\ row[q] = "live" /\ picture[p] = picture[q] => p = q

\* Once the phone was told "Upload successful", a photo that waits for its
\* analysis has a job that will take care of it, through crashes between the
\* two commits of the upload, failed tries, two jobs racing on the photo and
\* purges.  The exceptions are named in "skipped": AI was off, or the job ran
\* while the photo was in the recycle bin (it completes without an analysis,
\* and the photo stays pending when it is restored).
PendingHasJob ==
  \A h \in answered :
    LET p == stored[h] IN
    row[p] = "live" /\ labeling[p] = "pending" /\ p \notin skipped
      => JobsOf(p) \cap ActiveJobs /= {}

Settled(p) ==
  /\ \A j \in JobsOf(p) : j \notin ActiveJobs /\ work[j] = "none"
  /\ \A h \in Phones : upload[h] = "stored" => stored[h] /= p

\* When nobody is at work on it, a photo that reads "completed" shows an
\* analysis and not the error of a job: two jobs on one photo write its two
\* columns from what each loaded, and only those that differ.  The one
\* exception is a re-sent upload that is refused: it may have loaded "failed"
\* just before an analysis, and then writes its error beside "completed".
CompletedShowsAnalysis ==
  \A p \in Photos :
    row[p] = "live" /\ labeling[p] = "completed" /\ Settled(p)
      => tags[p] \in {"analysis", "refused"}

\* A photo is deleted for good only out of the recycle bin (hard_delete_photo:
\* "Photo must be moved to the recycle bin before permanent deletion").
OnlyTrashIsDestroyed ==
  [][\A p \in Photos : row[p] = "live" => row'[p] /= "gone"]_vars

\* "A failed reprocess must not destroy the last good analysis"
\* (_mark_photo_failed).
AnalysisKept ==
  [][\A p \in Photos : tags[p] = "analysis" /\ row'[p] /= "gone"
       => tags'[p] = "analysis"]_vars

\* How far that is so: a photo that is in use is destroyed only by a purge that
\* had loaded it from the recycle bin before somebody restored it.
DestroyedWasRestored ==
  [][\A p \in Photos : row[p] = "live" /\ row'[p] = "gone" => p \in restored]_vars

\* And an analysis is lost only where the photo has two jobs, of which one had
\* loaded it before the other analysed it, or to the refusal of an upload.
AnalysisLostToRival ==
  [][\A p \in Photos :
       tags[p] = "analysis" /\ row'[p] /= "gone" /\ tags'[p] /= "analysis"
         => tags'[p] = "refused" \/ \E i, j \in JobsOf(p) : i /= j]_vars

-----------------------------------------------------------------------------
(* The invariants behind these two *)

\* What a purge has still to delete is in the recycle bin, or was restored since.
LoadedFromBin ==
  \A k \in Purgers : \A p \in batch[k] : row[p] \in {"trashed", "gone"} \/ p \in restored

\* A worker that has not seen the photo's analysis was overtaken by another job.
OvertakenByRival ==
  \A j \in Jobs :
    work[j] = "analysing" /\ seen[j].tags /= "analysis" /\ tags[about[j]] = "analysis"
      => \E i \in JobsOf(about[j]) : i /= j
=============================================================================
