------------------------------ MODULE IPCamera ------------------------------
(***************************************************************************)
(* One IP camera: its registration and review (app/api/routes/portal.py),  *)
(* the connection test and the scheduled capture with their failure alert  *)
(* (app/services/camera_scheduler.py), and the webhook that delivers       *)
(* recordings (app/api/routes/api_v2.py).                                  *)
(*                                                                         *)
(* The worker's loop polls the camera; its owner and the reviewer change   *)
(* it from the portal meanwhile.  Each of them loads the row, works for    *)
(* some seconds and commits; a commit writes only the columns whose value  *)
(* differs from the loaded one, so it merges with what others wrote.       *)
(***************************************************************************)
EXTENDS Integers, LoadedRows

CONSTANTS
  Urls,         \* stream configurations: address and protocol
  Threshold,    \* camera_failure_alert_threshold
  MaxFailures,  \* where the failure counter is capped (bound)
  MaxEdits,     \* requests of the owner (bound)
  MaxReviews,   \* requests of the reviewer (bound)
  MaxBreaks     \* polls that end in the middle (bound)

ASSUME CameraAssumption ==
  /\ Threshold \in Nat \ {0} /\ MaxFailures \in Nat /\ Threshold <= MaxFailures
  /\ MaxEdits \in Nat /\ MaxReviews \in Nat /\ MaxBreaks \in Nat

Actors == {"poller", "owner", "reviewer"}

VARIABLES
  camera,      \* the camera's row
  present,  \* the row exists
  live,       \* the stream can be reached
  session,  \* of each actor: what it is doing, and the row it loaded
  clip,     \* configuration the poller's clip was recorded from
  stored,   \* configurations of the clips that became media assets (history)
  granted,  \* configurations the reviewer approved (history)
  mails,    \* alerts since the last success that was recorded: those that left, and of
            \* them those whose commit failed (history)
  crossing,  \* a commit fell on a row that had changed since it was loaded (history)
  edits, reviews, breaks

cameraVars == <<camera, present, live, session, clip, stored, granted, mails,
                crossing, edits, reviews, breaks>>
bounds == <<edits, reviews, breaks>>

Rows ==
  [url : Urls, enabled : BOOLEAN, approval : {"pending", "approved", "rejected"},
   online : BOOLEAN, failures : 0 .. MaxFailures, alerted : BOOLEAN]

Doings == {"idle", "recording", "storing", "failing", "probing", "failed",
           "passed", "changing", "enabling", "disabling", "approving", "rejecting"}

\* A session that is over remembers nothing.
Blank == CHOOSE r \in Rows : TRUE
Over == [doing |-> "idle", seen |-> Blank]

NoMails == [sent |-> 0, lost |-> 0]

\* create_ip_camera_action.
CameraInit ==
  /\ camera \in [url : Urls, enabled : BOOLEAN, approval : {"pending"},
              online : {FALSE}, failures : {0}, alerted : {FALSE}]
  /\ present = TRUE /\ live = TRUE
  /\ session = [a \in Actors |-> Over]
  /\ clip = camera.url /\ stored = {} /\ granted = {}
  /\ mails = NoMails /\ crossing = FALSE
  /\ edits = 0 /\ reviews = 0 /\ breaks = 0

-----------------------------------------------------------------------------
(* Sessions *)

Doing(a, what) == session[a].doing = what
Turn(a, what) == session' = [session EXCEPT ![a].doing = what]
EndSession(a) == session' = [session EXCEPT ![a] = Over]

\* A row that was deleted meanwhile ends the request with an error.
Load(a, what) ==
  session' = [session EXCEPT ![a] =
    IF present THEN [doing |-> what, seen |-> camera] ELSE Over]

\* wanted is what a's session made of the row it had loaded.
CommitCamera(a, wanted) ==
  /\ camera' = IF present THEN Merged(camera, session[a].seen, wanted) ELSE camera
  /\ crossing' = (crossing \/ camera /= session[a].seen)

-----------------------------------------------------------------------------
(* What the sessions write *)

\* Mistake: the alert of the last outage stays.
Reconnected(r) == [r EXCEPT !.online = TRUE, !.failures = 0]

\* _mark_camera_success
Succeeded(r) == [r EXCEPT !.online = TRUE, !.failures = 0, !.alerted = FALSE]

\* _mark_camera_failure; the counter has no cap in the code.
OneMore(n) == IF n < MaxFailures THEN n + 1 ELSE n

\* _maybe_send_camera_failure_alert
AlertDue(r) == OneMore(r.failures) >= Threshold /\ ~r.alerted

Failed(r) ==
  [r EXCEPT !.online = FALSE, !.failures = OneMore(@), !.alerted = @ \/ AlertDue(r)]

\* The mail leaves before the commit (sent is capped at what MaxBreaks allows).
Mailed(r) ==
  IF AlertDue(r) /\ mails.sent <= MaxBreaks THEN [mails EXCEPT !.sent = @ + 1] ELSE mails
MailedInVain(r) ==
  IF AlertDue(r) /\ mails.sent <= MaxBreaks
  THEN [sent |-> mails.sent + 1, lost |-> mails.lost + 1] ELSE mails

\* Mistake: an approval stays with the camera whatever it shows.
KeepReview(r, url) == [r EXCEPT !.url = url]

\* update_ip_camera_action, _reset_camera_review
ChangeStream(r, url) ==
  [r EXCEPT !.url = url, !.approval = IF url = r.url THEN @ ELSE "pending"]

\* A test that passes asks for another review.
Tested(r) ==
  [Succeeded(r) EXCEPT !.approval = IF @ = "approved" THEN @ ELSE "pending"]

-----------------------------------------------------------------------------
(* poll_enabled_rtsp_cameras *)

\* Mistake: a camera that is down is left alone.
EnabledOnline == camera.enabled /\ camera.approval = "approved" /\ (camera.online \/ camera.failures = 0)

\* _enabled_rtsp_cameras
Enabled == camera.enabled /\ camera.approval = "approved"

ListCamera ==
  /\ Doing("poller", "idle") /\ present /\ Enabled
  /\ Turn("poller", "recording")
  /\ clip' = camera.url
  /\ UNCHANGED <<camera, present, live, stored, granted, mails, crossing, bounds>>

\* A clip, or the error of ffmpeg; the row is loaded again, its review is not
\* looked at again.
Record ==
  /\ Doing("poller", "recording")
  /\ Load("poller", IF live THEN "storing" ELSE "failing")
  /\ UNCHANGED <<camera, present, live, clip, stored, granted, mails, crossing, bounds>>

\* The asset and its job are committed with the camera.
StoreClip ==
  /\ Doing("poller", "storing")
  /\ CommitCamera("poller", Succeeded(session["poller"].seen))
  /\ stored' = IF present THEN stored \cup {clip} ELSE stored
  /\ mails' = IF present THEN NoMails ELSE mails
  /\ EndSession("poller")
  /\ UNCHANGED <<present, live, clip, granted, bounds>>

\* A full queue or disk: the session is rolled back, the camera is blamed.
StoreFails ==
  /\ Doing("poller", "storing") /\ breaks < MaxBreaks
  /\ breaks' = breaks + 1
  /\ Load("poller", "failing")
  /\ UNCHANGED <<camera, present, live, clip, stored, granted, mails, crossing, edits,
                 reviews>>

PollFails ==
  /\ Doing("poller", "failing")
  /\ CommitCamera("poller", Failed(session["poller"].seen))
  /\ mails' = Mailed(session["poller"].seen)
  /\ EndSession("poller")
  /\ UNCHANGED <<present, live, clip, stored, granted, bounds>>

\* The process dies, or the commit fails, when the mail has left or before.
Break(a) ==
  /\ ~Doing(a, "idle") /\ breaks < MaxBreaks
  /\ breaks' = breaks + 1
  /\ \/ UNCHANGED mails
     \/ session[a].doing \in {"failing", "failed"} /\ mails' = MailedInVain(session[a].seen)
  /\ EndSession(a)
  /\ UNCHANGED <<camera, present, live, clip, stored, granted, crossing, edits, reviews>>

-----------------------------------------------------------------------------
(* The owner: update_ip_camera_action, bulk_ip_camera_action,                *)
(* test_ip_camera_action, delete_ip_camera_action                            *)

Ask(what) ==
  /\ Doing("owner", "idle") /\ present /\ edits < MaxEdits
  /\ edits' = edits + 1
  /\ Load("owner", what)
  /\ UNCHANGED <<camera, present, live, clip, stored, granted, mails, crossing, reviews,
                 breaks>>

OwnerAsks == \E what \in {"changing", "enabling", "disabling", "probing"} : Ask(what)

Write(a, what, wanted) ==
  /\ Doing(a, what)
  /\ CommitCamera(a, wanted)
  /\ EndSession(a)
  /\ UNCHANGED <<present, live, clip, stored, bounds>>

Change ==
  /\ \E url \in Urls, on \in BOOLEAN :
       Write("owner", "changing",
             [ChangeStream(session["owner"].seen, url) EXCEPT !.enabled = on])
  /\ UNCHANGED <<granted, mails>>

Switch ==
  /\ \/ Write("owner", "enabling", [session["owner"].seen EXCEPT !.enabled = TRUE])
     \/ Write("owner", "disabling", [session["owner"].seen EXCEPT !.enabled = FALSE])
  /\ UNCHANGED <<granted, mails>>

\* probe_ip_camera_stream takes up to 15 seconds.
Probe ==
  /\ Doing("owner", "probing")
  /\ Turn("owner", IF live THEN "passed" ELSE "failed")
  /\ UNCHANGED <<camera, present, live, clip, stored, granted, mails, crossing, bounds>>

TestPasses ==
  /\ Write("owner", "passed", Tested(session["owner"].seen))
  /\ mails' = IF present THEN NoMails ELSE mails
  /\ UNCHANGED granted

TestFails ==
  /\ Write("owner", "failed", Failed(session["owner"].seen))
  /\ mails' = Mailed(session["owner"].seen)
  /\ UNCHANGED granted

Delete ==
  /\ Doing("owner", "idle") /\ present /\ edits < MaxEdits
  /\ edits' = edits + 1
  /\ present' = FALSE
  /\ UNCHANGED <<camera, live, session, clip, stored, granted, mails, crossing, reviews,
                 breaks>>

-----------------------------------------------------------------------------
(* The reviewer, the media server, the stream *)

ReviewerAsks ==
  /\ Doing("reviewer", "idle") /\ present /\ reviews < MaxReviews
  /\ reviews' = reviews + 1
  /\ \E what \in {"approving", "rejecting"} : Load("reviewer", what)
  /\ UNCHANGED <<camera, present, live, clip, stored, granted, mails, crossing, edits,
                 breaks>>

\* approve_ip_camera_for_platform_action
Approve ==
  /\ Write("reviewer", "approving",
           [session["reviewer"].seen EXCEPT !.approval = "approved"])
  /\ granted' = granted \cup {session["reviewer"].seen.url}
  /\ UNCHANGED mails

\* reject_ip_camera_for_platform_action
RejectCamera ==
  /\ Write("reviewer", "rejecting",
           [session["reviewer"].seen EXCEPT !.approval = "rejected", !.enabled = FALSE])
  /\ UNCHANGED <<granted, mails>>

\* rtmp_recording_done_webhook: the failures and the alert stay.
PushRecording ==
  /\ present /\ ~camera.online /\ live
  /\ camera' = [camera EXCEPT !.online = TRUE]
  /\ UNCHANGED <<present, live, session, clip, stored, granted, mails, crossing, bounds>>

StreamChanges ==
  /\ live' = ~live
  /\ UNCHANGED <<camera, present, session, clip, stored, granted, mails, crossing, bounds>>

Poll == ListCamera \/ Record \/ StoreClip \/ PollFails
Owner == Change \/ Switch \/ Probe \/ TestPasses \/ TestFails
Reviewer == Approve \/ RejectCamera

CameraNext ==
  \/ Poll \/ StoreFails \/ \E a \in Actors : Break(a)
  \/ OwnerAsks \/ Owner \/ Delete
  \/ ReviewerAsks \/ Reviewer
  \/ PushRecording \/ StreamChanges

\* The worker polls again and again; nobody has to look at the portal.
CameraFairness == WF_cameraVars(Poll) /\ WF_cameraVars(Owner) /\ WF_cameraVars(Reviewer)

CameraSpec == CameraInit /\ [][CameraNext]_cameraVars
FairCameraSpec == CameraSpec /\ CameraFairness

-----------------------------------------------------------------------------
(* Properties *)

\* The owner is told of an outage when it has lasted Threshold checks, and once,
\* or once more for each mail whose record was lost with its commit: polls and
\* tests share one counter and one mark of the alert, and a success clears both
\* (_mark_camera_success, _maybe_send_camera_failure_alert).  Two checks that
\* overlap are the exception.
OneMailPerOutage ==
  ~crossing /\ present =>
    mails.sent = mails.lost + (IF camera.failures >= Threshold THEN 1 ELSE 0)

\* Scheduled capture takes clips only from configurations that the platform
\* approved: an approval ends with the configuration it was given to, whatever
\* the poller and the test do meanwhile (update_ip_camera_action,
\* test_ip_camera_action).  A review that crosses an edit is the exception.
CapturedWasApproved == ~crossing => stored \subseteq granted

\* A camera that is captured, and that stays down, is announced, even if tests,
\* edits, reviews and webhooks overwrote each other's columns and polls broke
\* off before.
OutageAnnounced ==
  <>[](present /\ camera.enabled /\ camera.approval = "approved" /\ ~live) => <>camera.alerted
=============================================================================
