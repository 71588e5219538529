------------------------------ MODULE Reports ------------------------------
(***************************************************************************)
(* A generated report (app/services/reports.py): its row, the PDF on the   *)
(* disk and its jobs.  A retry puts the report back in the queue whatever  *)
(* its status and enqueues a job more, so that a report may have several;  *)
(* the worker process and the web process run them, one job at a time      *)
(* each.  Every execution overwrites the same file, in no transaction, and *)
(* then commits the text of the row; the portal shows the text of the row  *)
(* and lets a completed report's file be downloaded.                       *)
(***************************************************************************)
EXTENDS Integers

CONSTANTS
  MaxJobs,      \* the first request and its retries (bound)
  MaxAttempts,  \* queue_max_attempts
  MaxTexts,     \* executions (bound)
  MaxMisruns    \* executions that die or outlive the running timeout (bound)

ASSUME ReportsAssumption ==
  /\ MaxJobs \in Nat \ {0} /\ MaxAttempts \in Nat \ {0}
  /\ MaxTexts \in Nat /\ MaxMisruns \in Nat

VARIABLES
  report,     \* status, and markdown_content as the execution that wrote it
  pdf,        \* the execution that wrote the file, or Torn while one writes
  work,       \* of each job: status and attempts
  execution,  \* what each process does: the job, the status and the text it has
  texts,      \* executions so far
  misruns,
  outlived,   \* a job was taken from an execution that still went on (history)
  mixed       \* two executions went on at once, or one died at the file, and none that
              \* had the report to itself has committed since (history)

reportVars == <<report, pdf, work, execution, texts, misruns, outlived, mixed>>

ReportJobs == 1 .. MaxJobs
Processes == {"worker", "web"}
NoText == 0
Torn == -1
NoExecution ==
  [at |-> "idle", job |-> 1, seen |-> "queued", text |-> NoText, alone |-> FALSE]
OnTheFile == {"writing", "written"}
ReportStatuses == {"queued", "completed", "failed"}

\* queue_report_generation: the row and its first job are committed together.
ReportInit ==
  /\ report = [status |-> "queued", text |-> NoText] /\ pdf = NoText
  /\ work = [j \in ReportJobs |->
       [status |-> IF j = 1 THEN "waiting" ELSE "none", attempts |-> 0]]
  /\ execution = [p \in Processes |-> NoExecution]
  /\ texts = 0 /\ misruns = 0
  /\ outlived = FALSE /\ mixed = FALSE

LabelReport(label) == report' = [report EXCEPT !.status = label]
Idle(p) == execution[p].at = "idle"
At(p, step) == execution' = [execution EXCEPT ![p].at = step]

-----------------------------------------------------------------------------
(* Requests *)

\* Mistake: a report that has a job gets no other.
Unless(j) ==
  IF \E k \in ReportJobs : work[k].status \in {"waiting", "running"} THEN work
  ELSE [work EXCEPT ![j].status = "waiting"]

Another(j) == [work EXCEPT ![j].status = "waiting"]

\* retry_report_generation asks for no status.  It keeps the text and the file.
RetryReport ==
  /\ \E j \in ReportJobs :
       /\ work[j].status = "none" /\ \A k \in 1 .. j - 1 : work[k].status /= "none"
       /\ work' = Another(j)
  /\ LabelReport("queued")
  /\ UNCHANGED <<pdf, execution, texts, misruns, outlived, mixed>>

\* requeue_task_job
RetryJob(j) ==
  /\ work[j].status = "dead"
  /\ work' = [work EXCEPT ![j] = [status |-> "waiting", attempts |-> 0]]
  /\ LabelReport("queued")
  /\ UNCHANGED <<pdf, execution, texts, misruns, outlived, mixed>>

-----------------------------------------------------------------------------
(* process_generated_report *)

\* No execution of the report is under way.
Unoccupied == \A q \in Processes : Idle(q)

Start(p, j) ==
  /\ Idle(p) /\ work[j].status = "waiting" /\ texts < MaxTexts
  /\ work' = [work EXCEPT ![j] = [status |-> "running", attempts |-> @.attempts + 1]]
  /\ texts' = texts + 1
  /\ execution' = [q \in Processes |->
       IF q = p
       THEN [at |-> "asking", job |-> j, seen |-> report.status, text |-> texts + 1,
             alone |-> Unoccupied]
       ELSE [execution[q] EXCEPT !.alone = FALSE]]
  /\ mixed' = (mixed \/ ~Unoccupied)
  /\ UNCHANGED <<report, pdf, misruns, outlived>>

\* The backend has answered and the PDF is rendered: write_bytes empties the file.
OpenFile(p) ==
  /\ execution[p].at = "asking"
  /\ pdf' = Torn /\ At(p, "writing")
  /\ UNCHANGED <<report, work, texts, misruns, outlived, mixed>>

WriteFile(p) ==
  /\ execution[p].at = "writing"
  /\ pdf' = execution[p].text /\ At(p, "written")
  /\ UNCHANGED <<report, work, texts, misruns, outlived, mixed>>

\* A status that is what the execution loaded is not written.
CommitReport(p) ==
  /\ execution[p].at = "written"
  /\ report' =
       [status |-> IF execution[p].seen = "completed" THEN report.status ELSE "completed",
        text |-> execution[p].text]
  /\ At(p, "completed")
  /\ mixed' = (mixed /\ ~execution[p].alone)
  /\ UNCHANGED <<pdf, work, texts, misruns, outlived>>

\* Mistake: the status is compared with the one that was loaded at the beginning.
UnlessCompleted(p) == IF execution[p].seen = "completed" THEN report.status ELSE "failed"

AfterRollback(p) == "failed"

\* No photo, no answer, no disk space, no database: the row is loaded again.
FailReport(p) ==
  /\ execution[p].at \in {"asking"} \cup OnTheFile
  /\ LabelReport(AfterRollback(p)) /\ At(p, "failed")
  /\ UNCHANGED <<pdf, work, texts, misruns, outlived, mixed>>

-----------------------------------------------------------------------------
(* The job: _mark_job_completed, _mark_job_failed, recover_stale_running_jobs *)

EndJob(p) ==
  /\ execution[p].at = "completed"
  /\ work' = [work EXCEPT ![execution[p].job].status = "completed"]
  /\ execution' = [execution EXCEPT ![p] = NoExecution]
  /\ UNCHANGED <<report, pdf, texts, misruns, outlived, mixed>>

\* The job waits for its next attempt, or it is given up with its report.
AgainOrNever(j) ==
  \/ /\ work[j].attempts < MaxAttempts
     /\ work' = [work EXCEPT ![j].status = "waiting"] /\ LabelReport("queued")
  \/ /\ work[j].attempts = MaxAttempts
     /\ work' = [work EXCEPT ![j].status = "dead"] /\ LabelReport("failed")

\* The execution has failed, or the commit of its completed job has.
EndFailedJob(p) ==
  /\ execution[p].at \in {"failed", "completed"}
  /\ AgainOrNever(execution[p].job)
  /\ execution' = [execution EXCEPT ![p] = NoExecution]
  /\ UNCHANGED <<pdf, texts, misruns, outlived, mixed>>

\* The process dies in the middle of an execution.
DieReporting(p) ==
  /\ ~Idle(p) /\ misruns < MaxMisruns
  /\ misruns' = misruns + 1
  /\ mixed' = (mixed \/ execution[p].at \in OnTheFile)
  /\ execution' = [execution EXCEPT ![p] = NoExecution]
  /\ UNCHANGED <<report, pdf, work, texts, outlived>>

\* The timeout has passed: the execution is dead, or it is only slow.
RecoverReport(j) ==
  /\ work[j].status = "running"
  /\ IF \E p \in Processes : ~Idle(p) /\ execution[p].job = j
     THEN misruns < MaxMisruns /\ misruns' = misruns + 1 /\ outlived' = TRUE
     ELSE UNCHANGED <<misruns, outlived>>
  /\ AgainOrNever(j)
  /\ UNCHANGED <<pdf, execution, texts, mixed>>

Execute(p) ==
  OpenFile(p) \/ WriteFile(p) \/ CommitReport(p) \/ FailReport(p) \/ EndJob(p) \/ EndFailedJob(p)

ReportNext ==
  \/ RetryReport
  \/ \E j \in ReportJobs : RetryJob(j) \/ RecoverReport(j)
  \/ \E p \in Processes : Execute(p) \/ DieReporting(p) \/ \E j \in ReportJobs : Start(p, j)

ReportSpec == ReportInit /\ [][ReportNext]_reportVars

-----------------------------------------------------------------------------
(* Properties *)

\* What is downloaded is what is shown: the file of a completed report is the one
\* of the text in its row, although the file is no part of the transaction and a
\* report that is shown may be generated again by a job that was queued before.
\* The exceptions are the moment at which an execution is between the file and its
\* commit, and executions at the same time or one that died at the file: then the
\* two may differ, until an execution that has the report to itself commits
\* (process_generated_report, download_report_v2).
ShownIsDownloaded ==
  report.status = "completed" /\ ~mixed
    /\ (\A p \in Processes : execution[p].at \notin OnTheFile)
    => pdf = report.text

\* A report that says it is queued has a job that will be run, however often it
\* was retried while its other jobs waited, ran and ended.  Only an execution
\* that outlived its timeout can break this (retry_report_generation).
QueuedIsComing ==
  report.status = "queued" /\ ~outlived =>
    \E j \in ReportJobs : work[j].status \in {"waiting", "running"}
=============================================================================
