---------------------------- MODULE AnalysisLogs ----------------------------
(***************************************************************************)
(* The analysis logs of one photo and the snapshot in photos.tag_json that *)
(* is rebuilt from them (app/services/ai_pipeline.py): a worker adds a     *)
(* log, a manager rejects, reinstates or promotes one or rolls a batch     *)
(* back, a lens run (app/services/photo_lenses.py) adds a log without      *)
(* rebuilding, and the retention pass deletes rejected logs.               *)
(*                                                                         *)
(* A rebuild flushes the change of its transaction, selects the active     *)
(* logs, calls a backend for the embedding, which takes long, and commits. *)
(* The select sees what is committed and the transaction's own change.     *)
(***************************************************************************)
EXTENDS Integers, FiniteSets

CONSTANTS
  MaxLogs,   \* logs ever created (bound); a log is named by its created_at
  Sessions,  \* the database sessions of workers and managers
  Batches    \* batch_id values

Logs == 1 .. MaxLogs
NoLog == 0

ASSUME LogConstants == MaxLogs \in Nat /\ Batches /= {}

VARIABLES
  created,   \* logs flushed so far, committed or not
  status,    \* the committed status of each log: none before the commit
  batch,     \* its batch_id
  shown,     \* the log whose result photos.tag_json holds
  \* each session: the statuses it has flushed, the snapshot it computed, the
  \* tag_json it loaded, and whether a commit overtook it (history)
  open, own, snapshot, loaded, overtaken,
  \* history: the last rebuild overlapped no other; logs that a lens added since
  alone, unseen

sessionVars == <<open, own, snapshot, loaded, overtaken>>
vars == <<created, status, batch, shown, sessionVars, alone, unseen>>

Status == {"none", "active", "rejected", "deleted"}
NoChange == [l \in {} |-> "none"]

\* own is a function of the sessions, own[s] one of the logs s has changed.
TypeOK ==
  /\ created \in 0 .. MaxLogs
  /\ status \in [Logs -> Status]
  /\ batch \in [Logs -> Batches]
  /\ shown \in Logs \cup {NoLog}
  /\ open \in [Sessions -> BOOLEAN]
  /\ snapshot \in [Sessions -> Logs \cup {NoLog}]
  /\ loaded \in [Sessions -> Logs \cup {NoLog}]
  /\ overtaken \in [Sessions -> BOOLEAN]
  /\ own = [s \in Sessions |-> own[s]]
  /\ \A s \in Sessions :
       /\ DOMAIN own[s] \subseteq 1 .. created
       /\ \A l \in DOMAIN own[s] : own[s][l] \in Status
       /\ ~open[s] => own[s] = NoChange
  /\ \A s, t \in Sessions : s /= t => DOMAIN own[s] \cap DOMAIN own[t] = {}
  /\ alone \in BOOLEAN /\ unseen \subseteq Logs

Init ==
  /\ created = 0
  /\ status = [l \in Logs |-> "none"]
  /\ batch \in [Logs -> Batches]
  /\ shown = NoLog
  /\ open = [s \in Sessions |-> FALSE]
  /\ own = [s \in Sessions |-> NoChange]
  /\ snapshot = [s \in Sessions |-> NoLog]
  /\ loaded = [s \in Sessions |-> NoLog]
  /\ overtaken = [s \in Sessions |-> FALSE]
  /\ alone = TRUE /\ unseen = {}

-----------------------------------------------------------------------------
(* The snapshot *)

\* The statuses a session sees once it has flushed its change.
With(change) ==
  [l \in Logs |-> IF l \in DOMAIN change THEN change[l] ELSE status[l]]

Active(stat) == {l \in Logs : stat[l] = "active"}

Newest(S) == IF S = {} THEN NoLog ELSE CHOOSE l \in S : \A k \in S : k <= l

\* Mistake: the change is not flushed before the select (autoflush is off).
MergeUnflushed(change) == Newest(Active(status))

\* merge_active_ai_analysis_logs(_active_ai_analysis_logs_for_photo): of the
\* active logs, whatever their analysis type, the newest one's result.
Merge(change) == Newest(Active(With(change)))

\* A row that another session has updated is locked.
Unlocked(s, S) == \A t \in Sessions \ {s} : DOMAIN own[t] \cap S = {}

\* rebuild_photo_ai_snapshot after the session's change, up to the embedding.
Rebuild(s, change) ==
  /\ ~open[s] /\ Unlocked(s, DOMAIN change)
  /\ open' = [open EXCEPT ![s] = TRUE]
  /\ own' = [own EXCEPT ![s] = change]
  /\ snapshot' = [snapshot EXCEPT ![s] = Merge(change)]
  /\ loaded' = [loaded EXCEPT ![s] = shown]
  /\ UNCHANGED <<status, batch, shown, overtaken, alone, unseen>>

-----------------------------------------------------------------------------
(* Operations *)

\* process_photo_with_ai has a result, or promote_ai_analysis_log_to_primary
\* copies one: a new active log.
Create(s) ==
  /\ created < MaxLogs
  /\ created' = created + 1
  /\ Rebuild(s, [l \in {created + 1} |-> "active"])

Promote(s, l) == status[l] \in {"active", "rejected"} /\ Create(s)

\* set_ai_analysis_log_status; the same status again writes nothing, but the
\* snapshot is rebuilt all the same.
SetStatus(s, l, new) ==
  /\ status[l] \in {"active", "rejected"}
  /\ Rebuild(s, IF status[l] = new THEN NoChange ELSE [k \in {l} |-> new])
  /\ UNCHANGED created

\* rollback_ai_analysis_batch leaves a photo alone none of whose logs changes.
RollBackBatch(s, b) ==
  LET S == {l \in Logs : batch[l] = b /\ status[l] = "active"} IN
  /\ S /= {}
  /\ Rebuild(s, [l \in S |-> "rejected"])
  /\ UNCHANGED created

\* The unit of work leaves a column alone whose value is the one it loaded.
Written(s) == IF snapshot[s] = loaded[s] THEN shown ELSE snapshot[s]

Close(s) ==
  /\ open' = [open EXCEPT ![s] = FALSE]
  /\ own' = [own EXCEPT ![s] = NoChange]
  /\ snapshot' = [snapshot EXCEPT ![s] = NoLog]
  /\ loaded' = [loaded EXCEPT ![s] = NoLog]

\* Whoever else is open has read what this commit changes.
Overtake(s) ==
  overtaken' = [t \in Sessions |-> t /= s /\ (open[t] \/ overtaken[t])]

Commit(s) ==
  /\ open[s]
  /\ status' = With(own[s])
  /\ shown' = Written(s)
  /\ alone' = ~overtaken[s]
  /\ unseen' = {}
  /\ Close(s)
  /\ Overtake(s)
  /\ UNCHANGED <<created, batch>>

\* The session's process dies or the commit fails.
Rollback(s) ==
  /\ open[s]
  /\ Close(s)
  /\ overtaken' = [overtaken EXCEPT ![s] = FALSE]
  /\ UNCHANGED <<created, status, batch, shown, alone, unseen>>

\* run_photo_lens_shadow commits a log without a rebuild; only a valid result is
\* active.
RunLens ==
  /\ created < MaxLogs
  /\ created' = created + 1
  /\ \E valid \in BOOLEAN :
       /\ status' = [status EXCEPT ![created + 1] = IF valid THEN "active" ELSE "rejected"]
       /\ unseen' = IF valid THEN unseen \cup {created + 1} ELSE unseen
  /\ overtaken' = [t \in Sessions |-> open[t]]
  /\ UNCHANGED <<batch, shown, open, own, snapshot, loaded, alone>>

\* The retention pass deletes old logs that are not active.
Expire(l) ==
  /\ status[l] = "rejected" /\ \A s \in Sessions : l \notin DOMAIN own[s]
  /\ status' = [status EXCEPT ![l] = "deleted"]
  /\ UNCHANGED <<created, batch, shown, sessionVars, alone, unseen>>

Next ==
  \/ \E s \in Sessions :
       \/ Create(s) \/ Commit(s) \/ Rollback(s)
       \/ \E l \in Logs : Promote(s, l) \/ SetStatus(s, l, "active") \/ SetStatus(s, l, "rejected")
       \/ \E b \in Batches : RollBackBatch(s, b)
  \/ RunLens
  \/ \E l \in Logs : Expire(l)

Spec == Init /\ [][Next]_vars

-----------------------------------------------------------------------------
(* Properties *)

\* After a rebuild that no other session overtook, the photo shows its newest
\* active log, however the sessions before it interleaved: what an overtaken
\* rebuild left wrong is mended by the next one.  Logs that a lens added since
\* are not shown yet.
ShowsNewestActive ==
  alone => shown = Newest(Active(status) \ unseen)

\* Why it holds: a rebuild under way that no commit has overtaken has computed
\* what the photo will show when it commits, and has loaded what it shows now.
SnapshotIsCurrent ==
  \A s \in Sessions : open[s] /\ ~overtaken[s] =>
    snapshot[s] = Merge(own[s]) /\ loaded[s] = shown

\* A log that was not created yet has no status.
Unborn == \A l \in Logs : l > created => status[l] = "none"
=============================================================================
