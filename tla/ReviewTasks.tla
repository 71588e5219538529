----------------------------- MODULE ReviewTasks -----------------------------
(***************************************************************************)
(* A task that a manager sets an employee (app/services/                   *)
(* review_workflow.py): the row, and the ledger of what was done with it.  *)
(* A manager acts in the management app (app/api/routes/api_v2.py), the    *)
(* employee on the phone (app/api/routes/mobile.py).  A request loads the  *)
(* row, checks it, and commits its columns together with one event.  The   *)
(* recycle bin may destroy the photo that completed the task (hard_delete_ *)
(* photo of app/services/photos.py), which detaches it from the row.       *)
(***************************************************************************)
EXTENDS Integers, Sequences, LoadedRows

CONSTANTS
  Askers,        \* requests of managers and of the employee's devices at one time
  Retakes,       \* photos the employee took after the task was set
  NeedsPhoto,    \* task_type is retake_photo
  MaxAsked,      \* requests (bound)
  NoPhoto, NoAsk

ASSUME ReviewTasksAssumption ==
  NeedsPhoto \in BOOLEAN /\ MaxAsked \in Nat /\ NoPhoto \notin Retakes

VARIABLES
  task,     \* the columns of the row: its status, its times (0 is NULL), the retaken photo
  asking,   \* of each request: the action, the row it loaded and what it makes of it
  ledger,   \* review_task_events, oldest first: the type, the photo of the payload
  destroyed,   \* the retakes that the recycle bin has destroyed
  asked,    \* requests so far, which is also the time
  crossed   \* a request changed a row that was no longer the one it had loaded
            \* (history)

taskVars == <<task, asking, ledger, destroyed, asked, crossed>>

-----------------------------------------------------------------------------
(* create_review_task *)

TaskInit ==
  /\ task = [status |-> "open", acknowledged |-> 0, completed |-> 0,
             photo |-> NoPhoto, cancelled |-> 0]
  /\ asking = [a \in Askers |-> NoAsk]
  /\ ledger = <<[event |-> "created", photo |-> NoPhoto]>>
  /\ destroyed = {} /\ asked = 0 /\ crossed = FALSE

\* A request passed its checks on the row it loaded.
Asked(a, event, wanted) ==
  /\ asking[a] = NoAsk /\ asked < MaxAsked
  /\ asked' = asked + 1
  /\ asking' = [asking EXCEPT ![a] = [event |-> event, seen |-> task, wanted |-> wanted]]
  /\ UNCHANGED <<task, ledger, destroyed, crossed>>

Now == asked + 1

\* A comment of either side changes no column that matters here.
Comment(a) == Asked(a, "commented", task)

-----------------------------------------------------------------------------
(* apply_manager_review_task_action *)

Cancellable == task.status \notin {"completed", "cancelled"}

Cancel(a) ==
  /\ Cancellable
  /\ Asked(a, "cancelled", [task EXCEPT !.status = "cancelled", !.cancelled = Now])

\* Mistake: the task opens again, the cancellation stays on the row.
StatusOnly(row) == [row EXCEPT !.status = "open"]

Reopened(row) ==
  [row EXCEPT !.status = "open", !.cancelled = 0, !.completed = 0, !.photo = NoPhoto]

Reopen(a) ==
  /\ task.status = "cancelled"
  /\ Asked(a, "reopened", Reopened(task))

-----------------------------------------------------------------------------
(* apply_employee_review_task_action *)

Acknowledge(a) ==
  /\ task.status = "open"
  /\ Asked(a, "acknowledged",
           [task EXCEPT !.status = "acknowledged", !.acknowledged = Now])

\* A task that is not a retake may be answered with a message; a photo that is no
\* longer there is refused.
Complete(a) ==
  /\ task.status \in {"open", "acknowledged"}
  /\ \E p \in (Retakes \ destroyed) \cup {NoPhoto} :
       /\ NeedsPhoto => p /= NoPhoto
       /\ Asked(a, "completed",
                [task EXCEPT !.status = "completed", !.completed = Now, !.photo = p])

-----------------------------------------------------------------------------
(* The commit of management_review_task_action_v2 and mobile_review_task_action *)

\* The request would store a photo that was destroyed since it was loaded, which
\* the foreign key refuses.
Dangling(a) == asking[a].wanted.photo \in destroyed \ {asking[a].seen.photo}

CommitTask(a) ==
  /\ asking[a] /= NoAsk /\ ~Dangling(a)
  /\ task' = Merged(task, asking[a].seen, asking[a].wanted)
  /\ ledger' = Append(ledger, [event |-> asking[a].event,
                               photo |-> IF asking[a].event = "completed"
                                         THEN asking[a].wanted.photo ELSE NoPhoto])
  /\ asking' = [asking EXCEPT ![a] = NoAsk]
  /\ crossed' = (crossed \/ asking[a].seen \notin {task, asking[a].wanted})
  /\ UNCHANGED <<destroyed, asked>>

FailTask(a) ==
  /\ asking[a] /= NoAsk /\ Dangling(a)
  /\ asking' = [asking EXCEPT ![a] = NoAsk]
  /\ UNCHANGED <<task, ledger, destroyed, asked, crossed>>

-----------------------------------------------------------------------------
(* hard_delete_photo *)

DetachPhoto(p) ==
  /\ p \notin destroyed
  /\ destroyed' = destroyed \cup {p}
  /\ task' = [task EXCEPT !.photo = IF @ = p THEN NoPhoto ELSE @]
  /\ UNCHANGED <<asking, ledger, asked, crossed>>

TaskNext ==
  \/ \E a \in Askers :
       \/ Comment(a) \/ Cancel(a) \/ Reopen(a)
       \/ Acknowledge(a) \/ Complete(a)
       \/ CommitTask(a) \/ FailTask(a)
  \/ \E p \in Retakes : DetachPhoto(p)

TaskSpec == TaskInit /\ [][TaskNext]_taskVars

-----------------------------------------------------------------------------
(* Properties *)

\* What happened last to the task, and the status this tells of.
LastAct(events) ==
  LET acts == {i \in DOMAIN events : events[i].event /= "commented"}
  IN  events[CHOOSE i \in acts : \A k \in acts : k <= i]

StatusAfter(act) == IF act.event \in {"created", "reopened"} THEN "open" ELSE act.event

\* A status comes with its time.
Stamped(row) ==
  CASE row.status = "acknowledged" -> row.acknowledged > 0
    [] row.status = "completed"    -> row.completed > 0
    [] row.status = "cancelled"    -> row.cancelled > 0
    [] OTHER                       -> TRUE

\* The row and the ledger tell one story.  Of two requests that overtake each other
\* the row has the status of the one that committed last, with its time, and never
\* a photo that is destroyed.  So long as no request changes a row that another one
\* has changed since it was loaded, the row also shows nothing of an earlier end: it
\* has the times of its own status only, and the photo the employee completed it
\* with, which a retake demands, until that photo is destroyed.
RowFollowsLedger ==
  LET act == LastAct(ledger)
  IN  /\ task.status = StatusAfter(act) /\ Stamped(task)
      /\ task.photo \notin destroyed
      /\ ~crossed =>
           /\ task.completed > 0 => task.status = "completed"
           /\ task.cancelled > 0 => task.status = "cancelled"
           /\ task.photo = IF act.photo \in destroyed THEN NoPhoto ELSE act.photo
           /\ NeedsPhoto /\ task.status = "completed" => act.photo /= NoPhoto
=============================================================================
