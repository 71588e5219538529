----------------------------- MODULE MediaAsset -----------------------------
(***************************************************************************)
(* One video from its upload to its deletion: process_media_asset and      *)
(* cleanup_expired_media_assets (app/services/media_pipeline.py), and what *)
(* the job of the video does to its row (app/services/job_queue.py).       *)
(*                                                                         *)
(* The worker process runs jobs and the cleanup in one loop, one after the *)
(* other; the web process runs jobs too, beside both.  Every database      *)
(* session is short: a row is loaded, acted on and committed later, and    *)
(* only the columns that changed are written.  Files are not part of any   *)
(* transaction.                                                            *)
(***************************************************************************)
EXTENDS Integers

CONSTANTS
  MaxAttempts,   \* queue_max_attempts
  MaxRetries,    \* retries by hand (bound)
  MaxStale,      \* executions that outlive the running timeout (bound)
  MaxCuts,       \* cleanups and executions cut short (bound)
  NoRunner

Runners == {"worker", "web"}

VARIABLES
  status,    \* of the media asset
  path,      \* file_path: in hot or in cold storage
  disk,      \* where there is a file
  previews,  \* the preview frames exist
  frames,    \* whose frames are in the working directory
  age,       \* 1: past hot_storage_days, 2: past video_retention_days
  finished,  \* completed_at is set: the age counts from it, else from the last write
  job,       \* status of the video's job
  attempts,
  runner,    \* what each process does with the job, and the status it loaded
  cleaner,   \* what the cleanup does with the row, and whether it moved the file
  retries, stale, cuts,
  torn,       \* a cleanup ended between its files and its commit (history)
  overtaken  \* a job wrote the row while a cleanup worked on it, or after the
             \* cleanup had deleted it (history)

assetVars == <<status, path, disk, previews, frames, age, finished, job,
               attempts, runner, cleaner, retries, stale, cuts, torn, overtaken>>

Storage == {"hot", "cold"}
NoRun == [at |-> "idle", seen |-> "processing"]
NoCleanup == [at |-> "idle", moved |-> FALSE]
InFlight == {"unlinked", "copied", "moved"}

AssetStatuses == {"processing", "completed", "failed", "archived", "deleted"}

\* create_media_asset_from_chunks and its job, committed together.
AssetInit ==
  /\ status = "processing" /\ path = "hot" /\ disk = {"hot"}
  /\ previews = FALSE /\ frames = NoRunner
  /\ age = 0 /\ finished = FALSE
  /\ job = "waiting" /\ attempts = 0
  /\ runner = [r \in Runners |-> NoRun]
  /\ cleaner = NoCleanup
  /\ retries = 0 /\ stale = 0 /\ cuts = 0
  /\ torn = FALSE /\ overtaken = FALSE

\* The age of a row that has just been written.
AgeWritten == IF finished THEN age ELSE 0

\* A job writes the row: nothing makes sure that a cleanup does not.  A row that
\* stays as it was is not written.
WriteRow(to) ==
  /\ status' = to
  /\ age' = IF to = status THEN age ELSE AgeWritten
  /\ overtaken' = (overtaken \/ status = "deleted" \/ cleaner.at /= "idle")

\* The worker's loop is at its next step.
RunnerFree(r) ==
  runner[r].at = "idle" /\ (r = "worker" => cleaner = NoCleanup)

-----------------------------------------------------------------------------
(* The job: _claim_next_job, _mark_job_completed, _mark_job_failed,          *)
(* recover_stale_running_jobs, requeue_task_job                              *)

\* What _reset_related_target_for_retry makes of the video.
ForRetry == IF status \in {"deleted", "archived"} THEN status ELSE "processing"

\* The claim, and the first session of process_media_asset.
StartRun(r) ==
  /\ RunnerFree(r)
  /\ job = "waiting"
  /\ job' = "running" /\ attempts' = attempts + 1
  /\ WriteRow("processing")
  /\ runner' = [runner EXCEPT ![r] = [at |-> "extracting", seen |-> "processing"]]
  /\ UNCHANGED <<path, disk, previews, frames, finished, cleaner, retries,
                 stale, cuts, torn>>

\* extract_video_frames empties the working directory, whoever uses it, and
\* _persist_preview_frames replaces the previews; then the row is loaded again.
Extract(r) ==
  /\ runner[r].at = "extracting"
  /\ path \in disk
  /\ frames' = r
  /\ previews' = TRUE
  /\ runner' = [runner EXCEPT ![r] = [at |-> "analysing", seen |-> status]]
  /\ UNCHANGED <<status, path, disk, age, finished, job, attempts, cleaner,
                 retries, stale, cuts, torn, overtaken>>

\* Only a status that differs from the one that was loaded is written.
CompleteRun(r) ==
  /\ runner[r].at = "analysing"
  /\ frames /= NoRunner
  /\ status' = IF runner[r].seen = "completed" THEN status ELSE "completed"
  /\ age' = 0 /\ finished' = TRUE
  /\ overtaken' = (overtaken \/ status = "deleted" \/ cleaner.at /= "idle")
  /\ frames' = NoRunner
  /\ runner' = [runner EXCEPT ![r].at = "completed"]
  /\ UNCHANGED <<path, disk, previews, job, attempts, cleaner, retries, stale,
                 cuts, torn>>

\* No file, no frames, no answer of a backend: the row says failed.
FailRun(r) ==
  /\ runner[r].at \in {"extracting", "analysing"}
  /\ WriteRow("failed")
  /\ frames' = NoRunner
  /\ runner' = [runner EXCEPT ![r].at = "failed"]
  /\ UNCHANGED <<path, disk, previews, finished, job, attempts, cleaner,
                 retries, stale, cuts, torn>>

MarkCompleted(r) ==
  /\ runner[r].at = "completed"
  /\ job' = "completed"
  /\ runner' = [runner EXCEPT ![r] = NoRun]
  /\ UNCHANGED <<status, path, disk, previews, frames, age, finished, attempts,
                 cleaner, retries, stale, cuts, torn, overtaken>>

\* The job waits for its next attempt, or it is given up with its video.
TryAgainOrGiveUp ==
  \/ attempts < MaxAttempts /\ job' = "waiting" /\ WriteRow(ForRetry)
  \/ attempts = MaxAttempts /\ job' = "dead" /\ WriteRow("failed")

MarkFailed(r) ==
  /\ runner[r].at = "failed"
  /\ TryAgainOrGiveUp
  /\ runner' = [runner EXCEPT ![r] = NoRun]
  /\ UNCHANGED <<path, disk, previews, frames, finished, attempts, cleaner,
                 retries, stale, cuts, torn>>

\* The process dies in the middle of an execution.
Die(r) ==
  /\ runner[r].at /= "idle" /\ cuts < MaxCuts
  /\ cuts' = cuts + 1
  /\ runner' = [runner EXCEPT ![r] = NoRun]
  /\ UNCHANGED <<status, path, disk, previews, frames, age, finished, job,
                 attempts, cleaner, retries, stale, torn, overtaken>>

\* The timeout has passed: the execution is dead, or it is only slow.
RecoverStale ==
  /\ job = "running"
  /\ \/ \A r \in Runners : runner[r].at = "idle"
        /\ UNCHANGED stale
     \/ stale < MaxStale /\ stale' = stale + 1
  /\ TryAgainOrGiveUp
  /\ UNCHANGED <<path, disk, previews, frames, finished, attempts, runner,
                 cleaner, retries, cuts, torn>>

Retry ==
  /\ job = "dead" /\ retries < MaxRetries
  /\ retries' = retries + 1
  /\ job' = "waiting" /\ attempts' = 0
  /\ WriteRow(ForRetry)
  /\ UNCHANGED <<path, disk, previews, frames, finished, runner, cleaner, stale,
                 cuts, torn>>

-----------------------------------------------------------------------------
(* cleanup_expired_media_assets *)

Clean(from, to) ==
  /\ cleaner.at = from
  /\ cleaner' = [cleaner EXCEPT !.at = to]
  /\ UNCHANGED <<path, frames, age, finished, job, attempts, runner, retries,
                 stale, cuts, torn, overtaken>>

\* Mistake: only the videos that were analysed are looked at.
Analysed == status \in {"completed", "archived"}

Settled == status /= "processing"

Select ==
  /\ runner["worker"].at = "idle"
  /\ Settled
  /\ Clean("idle", "selected")
  /\ UNCHANGED <<status, disk, previews>>

\* The row is loaded by itself; its status is compared with the target's only.
Decide ==
  /\ \/ age = 2 /\ status /= "deleted" /\ Clean("selected", "deleting")
     \/ /\ age = 1 /\ status \notin {"archived", "deleted"}
        /\ Clean("selected", "archiving")
     \/ /\ status = "deleted" \/ age = 0 \/ (age = 1 /\ status = "archived")
        /\ Clean("selected", "idle")
  /\ UNCHANGED <<status, disk, previews>>

UnlinkAll == disk' = disk \ {path} /\ previews' = FALSE

Unlink ==
  /\ UnlinkAll
  /\ Clean("deleting", "unlinked")
  /\ UNCHANGED status

\* shutil.move copies from one volume to the other, then unlinks.
Copy ==
  /\ disk' = IF path \in disk THEN disk \cup {"cold"} ELSE disk
  /\ Clean("archiving", "copied")
  /\ UNCHANGED <<status, previews>>

FinishMove ==
  /\ cleaner.at = "copied"
  /\ cleaner' = [at |-> "moved", moved |-> path \in disk]
  /\ disk' = IF path = "hot" THEN disk \ {"hot"} ELSE disk
  /\ UNCHANGED <<status, path, previews, frames, age, finished, job, attempts,
                 runner, retries, stale, cuts, torn, overtaken>>

\* Mistake: the row keeps the path it had.
PathUnchanged == path

\* A file that was not found is archived where it was.
ArchivedPath == IF cleaner.moved THEN "cold" ELSE path

CommitCleanup ==
  /\ \/ cleaner.at = "unlinked" /\ status' = "deleted" /\ UNCHANGED path
     \/ cleaner.at = "moved" /\ status' = "archived" /\ path' = ArchivedPath
  /\ age' = AgeWritten
  /\ cleaner' = NoCleanup
  /\ UNCHANGED <<disk, previews, frames, finished, job, attempts, runner,
                 retries, stale, cuts, torn, overtaken>>

\* The process dies or the database fails: the row and the files stay as they are.
CutCleanup ==
  /\ cleaner.at /= "idle" /\ cuts < MaxCuts
  /\ cuts' = cuts + 1
  /\ torn' = (torn \/ cleaner.at \in InFlight)
  /\ cleaner' = NoCleanup
  /\ UNCHANGED <<status, path, disk, previews, frames, age, finished, job,
                 attempts, runner, retries, stale, overtaken>>

\* An execution is a matter of minutes and a cleanup of seconds.
DayPasses ==
  /\ \A r \in Runners : runner[r].at = "idle"
  /\ cleaner = NoCleanup
  /\ age < 2
  /\ age' = age + 1
  /\ UNCHANGED <<status, path, disk, previews, frames, finished, job, attempts,
                 runner, cleaner, retries, stale, cuts, torn, overtaken>>

Run(r) ==
  Extract(r) \/ CompleteRun(r) \/ FailRun(r) \/ MarkCompleted(r) \/ MarkFailed(r)
CleanStep == Decide \/ Unlink \/ Copy \/ FinishMove \/ CommitCleanup

AssetNext ==
  \/ \E r \in Runners : StartRun(r) \/ Run(r) \/ Die(r)
  \/ RecoverStale \/ Retry
  \/ Select \/ CleanStep \/ CutCleanup
  \/ DayPasses

\* The worker's loop claims and recovers jobs, runs them to an end and cleans up
\* again and again; days pass.  Nobody has to retry.
AssetFairness ==
  /\ \A r \in Runners : WF_assetVars(Run(r))
  /\ SF_assetVars(StartRun("worker")) /\ WF_assetVars(RecoverStale)
  /\ SF_assetVars(age = 2 /\ status /= "deleted" /\ Select)
  /\ WF_assetVars(CleanStep)

AssetSpec == AssetInit /\ [][AssetNext]_assetVars
FairAssetSpec == AssetSpec /\ AssetFairness

-----------------------------------------------------------------------------
(* Properties *)

AtRest == cleaner = NoCleanup /\ \A r \in Runners : runner[r].at = "idle"

\* A video that is not deleted is found where its row says, wherever it was
\* moved and however often it was analysed: neither late nor doubled executions
\* lose it, only a cleanup that a crash or a job cut across
\* (process_media_asset, cleanup_expired_media_assets).
RowFindsFile ==
  status /= "deleted" /\ cleaner.at \notin InFlight /\ ~torn /\ ~overtaken
    => path \in disk

\* A deleted video leaves nothing on the disk, whether it was archived first or
\* not, but for the same two mishaps.
DeletedLeavesNothing ==
  status = "deleted" /\ AtRest /\ ~torn /\ ~overtaken => disk = {} /\ ~previews

\* The files are those that the row speaks of.
FilesFollowRow == RowFindsFile /\ DeletedLeavesNothing

\* A video past its retention is deleted, or it was analysed again and starts
\* anew, whatever crashed in between: no status is a trap for the cleanup.  (An
\* execution that outlives its timeout can set one: it marks the job completed
\* after a recovery or a retry has put the video back in processing.)
ExpiredIsDeleted == age = 2 ~> status = "deleted" \/ age < 2 \/ stale > 0
=============================================================================
