----------------------------- MODULE PhoneQueue -----------------------------
(***************************************************************************)
(* The offline queue of the web client on a worker's phone                 *)
(* (app/static/public/h5/app.js): captures are stored in the browser's     *)
(* database and uploaded to /upload, oldest first, by calls of syncQueue.  *)
(*                                                                         *)
(* JavaScript is single-threaded: a step of this module is what runs       *)
(* between two awaits.  A call of syncQueue tests syncInProgress before    *)
(* its first await and sets it after, so two calls can be in its loop.     *)
(***************************************************************************)
EXTENDS Integers

CONSTANTS
  MaxCaptures, \* photos a worker takes (bound)
  Calls,       \* the calls of syncQueue in progress at once (bound)
  MaxMishaps,  \* reloads of the page, and calls that begin while another
               \* runs (bound)
  Refusable,   \* captures the server may refuse for good
  NoCall, NoCapture

Captures == 1 .. MaxCaptures

VARIABLES
  refused,  \* captures the server will never take
  server,   \* captures the server has
  queue,    \* the object store of the browser's database
  taken,    \* captures stored so far
  dropped,  \* captures the worker deleted unsent (history)
  dropping, \* captures handleClearQueue goes through
  syncing,  \* state.syncInProgress
  current,  \* state.currentUpload.id
  call,     \* where each call of syncQueue is and what it has still to upload
  camera,   \* captureBusy, by the await it waits in: ready is not busy
  captor,   \* the call of syncQueue the camera awaits
  mishaps

phoneVars == <<refused, server, queue, taken, dropped, dropping, syncing,
               current, call, camera, captor, mishaps>>

\* Where a call is: listing awaits the database, showing the page, sending the
\* server, accepted the delete, removed the page; hung awaits a promise that
\* nothing settles any more.
Places == {"idle", "listing", "showing", "sending", "accepted", "removed", "hung"}
NoWork == [at |-> "idle", left |-> {}]

\* Mistake: the queue is sorted the other way round.
Newest(captures) == CHOOSE c \in captures : \A d \in captures : d <= c

Oldest(captures) == CHOOSE c \in captures : \A d \in captures : c <= d
Item(s) == Oldest(call[s].left)
Running == {s \in Calls : call[s].at \notin {"idle", "hung"}}
Uploading == {"showing", "sending", "accepted", "removed"}

PhoneInit ==
  /\ refused \in SUBSET (Refusable \cap Captures)
  /\ server = {} /\ queue = {} /\ taken = 0
  /\ dropped = {} /\ dropping = {}
  /\ syncing = FALSE /\ current = NoCapture
  /\ call = [s \in Calls |-> NoWork]
  /\ camera = "ready" /\ captor = NoCall
  /\ mishaps = 0

-----------------------------------------------------------------------------
(* syncQueue *)

\* Up to the first await.  Offline, or without settings, no call begins.
Begin(s, wanted) ==
  /\ ~syncing
  /\ call[s].at = "idle"
  /\ mishaps' = mishaps + (IF Running = {} THEN 0 ELSE 1)
  /\ mishaps' <= MaxMishaps
  /\ call' = [call EXCEPT ![s] = [at |-> "listing", left |-> wanted]]

\* The events and the timer that want the whole queue sent, and "Upload Now".
SyncAll ==
  /\ \E s \in Calls : Begin(s, Captures)
  /\ UNCHANGED <<refused, server, queue, taken, dropped, dropping, syncing,
                 current, camera, captor>>

SyncOne ==
  /\ \E s \in Calls, c \in queue : Begin(s, {c})
  /\ UNCHANGED <<refused, server, queue, taken, dropped, dropping, syncing,
                 current, camera, captor>>

\* The call returns, and the camera's await of it with it.
Return(s) ==
  /\ call' = [call EXCEPT ![s] = NoWork]
  /\ camera' = IF captor = s THEN "ready" ELSE camera
  /\ captor' = IF captor = s THEN NoCall ELSE captor

\* The finally block, whichever call it belongs to.
ClearFlag(s) == current' = NoCapture /\ syncing' = FALSE

End(s) ==
  /\ ClearFlag(s)
  /\ Return(s)

StartUpload(s, captures) ==
  /\ current' = Oldest(captures)
  /\ call' = [call EXCEPT ![s] = [at |-> "showing", left |-> captures]]

List(s) ==
  /\ call[s].at = "listing"
  /\ LET found == call[s].left \cap queue IN
     \/ found = {} /\ Return(s) /\ UNCHANGED <<syncing, current>>
     \/ /\ found /= {}
        /\ syncing' = TRUE
        /\ StartUpload(s, found)
        /\ UNCHANGED <<camera, captor>>
  /\ UNCHANGED <<refused, server, queue, taken, dropped, dropping, mishaps>>

Send(s) ==
  /\ call[s].at = "showing"
  /\ call' = [call EXCEPT ![s].at = "sending"]
  /\ UNCHANGED <<refused, server, queue, taken, dropped, dropping, syncing,
                 current, camera, captor, mishaps>>

\* The server stores what arrives; it knows a photo it has by its checksum.
Arrive(s) ==
  /\ call[s].at = "sending"
  /\ Item(s) \notin refused
  /\ server' = server \cup {Item(s)}
  /\ UNCHANGED <<refused, queue, taken, dropped, dropping, syncing, current,
                 call, camera, captor, mishaps>>

\* onload looks at the answer only while the page shows this item.
Heard(s) == current = Item(s)

\* Mistake: any answer is a success.
AnsweredAtAll(s) == TRUE

Accepted(s) == Item(s) \in server

Accept(s) ==
  /\ call[s].at = "sending" /\ Accepted(s) /\ Heard(s)
  /\ call' = [call EXCEPT ![s].at = "accepted"]
  /\ UNCHANGED <<refused, server, queue, taken, dropped, dropping, syncing,
                 current, camera, captor, mishaps>>

\* The server says no, the network breaks or 45 seconds pass: the first failure
\* ends the call, whatever is left.
Fail(s) ==
  /\ call[s].at = "sending"
  /\ End(s)
  /\ UNCHANGED <<refused, server, queue, taken, dropped, dropping, mishaps>>

\* onload returns before it settles the promise.  A call nobody awaits is
\* forgotten; the camera awaits its own for ever.
Ignore(s) ==
  /\ call[s].at = "sending" /\ ~Heard(s)
  /\ \/ captor = s /\ call' = [call EXCEPT ![s].at = "hung"]
     \/ captor /= s /\ call' = [call EXCEPT ![s] = NoWork]
  /\ UNCHANGED <<refused, server, queue, taken, dropped, dropping, syncing,
                 current, camera, captor, mishaps>>

Remove(s) ==
  /\ call[s].at = "accepted"
  /\ queue' = queue \ {Item(s)}
  /\ call' = [call EXCEPT ![s].at = "removed"]
  /\ UNCHANGED <<refused, server, taken, dropped, dropping, syncing, current,
                 camera, captor, mishaps>>

Proceed(s) ==
  /\ call[s].at = "removed"
  /\ LET left == call[s].left \ {Item(s)} IN
     \/ left = {} /\ End(s)
     \/ left /= {} /\ StartUpload(s, left) /\ UNCHANGED <<syncing, camera, captor>>
  /\ UNCHANGED <<refused, server, queue, taken, dropped, dropping, mishaps>>

-----------------------------------------------------------------------------
(* handleTakePhoto and handleCapturedBlob *)

TakePhoto ==
  /\ camera = "ready" /\ taken < MaxCaptures
  /\ camera' = "preparing"
  /\ UNCHANGED <<refused, server, queue, taken, dropped, dropping, syncing,
                 current, call, captor, mishaps>>

\* The position and the watermark fail the capture or let it be stored.
Prepare ==
  /\ camera = "preparing"
  /\ \/ camera' = "ready" /\ UNCHANGED <<queue, taken>>
     \/ /\ camera' = "stored"
        /\ taken' = taken + 1
        /\ queue' = queue \cup {taken'}
  /\ UNCHANGED <<refused, server, dropped, dropping, syncing, current, call,
                 captor, mishaps>>

\* The handler awaits its own call of syncQueue, or the call returns at once.
SyncCapture ==
  /\ camera = "stored"
  /\ \/ \E s \in Calls :
          Begin(s, Captures) /\ captor' = s /\ camera' = "syncing"
     \/ camera' = "ready" /\ UNCHANGED <<call, captor, mishaps>>
  /\ UNCHANGED <<refused, server, queue, taken, dropped, dropping, syncing,
                 current>>

-----------------------------------------------------------------------------
(* handleDeleteQueueItem, handleClearQueue and a reload *)

\* The worker confirms after the flag was tested and the queue was listed.
Drop ==
  /\ ~syncing /\ dropping = {} /\ queue /= {}
  /\ \/ dropping' = queue
     \/ \E c \in queue : dropping' = {c}
  /\ UNCHANGED <<refused, server, queue, taken, dropped, syncing, current, call,
                 camera, captor, mishaps>>

DropNext ==
  /\ \E c \in dropping :
       /\ queue' = queue \ {c}
       /\ dropped' = dropped \cup {c}
       /\ dropping' = dropping \ {c}
  /\ UNCHANGED <<refused, server, taken, syncing, current, call, camera, captor,
                 mishaps>>

\* Only the browser's database survives.
Reload ==
  /\ mishaps < MaxMishaps
  /\ mishaps' = mishaps + 1
  /\ syncing' = FALSE /\ current' = NoCapture /\ dropping' = {}
  /\ call' = [s \in Calls |-> NoWork]
  /\ camera' = "ready" /\ captor' = NoCall
  /\ UNCHANGED <<refused, server, queue, taken, dropped>>

SyncStep(s) ==
  List(s) \/ Send(s) \/ Accept(s) \/ Fail(s) \/ Ignore(s) \/ Remove(s) \/ Proceed(s)

PhoneNext ==
  \/ \E s \in Calls : SyncStep(s) \/ Arrive(s)
  \/ SyncAll \/ SyncOne
  \/ TakePhoto \/ Prepare \/ SyncCapture
  \/ Drop \/ DropNext
  \/ Reload

\* Promises of the browser settle and an upload ends within 45 seconds; the
\* timer syncs every 15 seconds, and an upload that is tried again and again
\* gets through.  Nobody has to take photos, to drop them or to reload.
PhoneFairness ==
  /\ \A s \in Calls :
       /\ WF_phoneVars(SyncStep(s))
       /\ SF_phoneVars(Arrive(s)) /\ SF_phoneVars(Accept(s))
  /\ SF_phoneVars(queue /= {} /\ SyncAll)
  /\ WF_phoneVars(Prepare) /\ WF_phoneVars(SyncCapture)

PhoneSpec == PhoneInit /\ [][PhoneNext]_phoneVars
FairPhoneSpec == PhoneSpec /\ PhoneFairness

-----------------------------------------------------------------------------
(* Properties *)

\* A capture that was stored is in the queue or at the server until the worker
\* deletes it, whatever overlapping calls upload and delete the same item, a
\* failed upload, an answer nobody hears and a reload (syncQueue).
NothingLost == 1 .. taken \subseteq queue \cup server \cup dropped

\* While the flag keeps other calls out, the last call that wrote currentUpload
\* is still at that upload, so its answer is heard and its finally block clears
\* the flag: overlapping calls cannot stop syncing for good, although a call can
\* hang (syncQueue, onload in uploadWithProgress).
FlagHasOwner ==
  syncing => \E s \in Calls : call[s].at \in Uploading /\ current = Item(s)

\* "The queue will upload automatically when the network is ready": every
\* capture leaves the queue if neither it nor an older one is refused.
QueueDrains ==
  \A c \in Captures :
    c \in queue /\ refused \cap 1 .. c = {} ~> c \notin queue
=============================================================================
