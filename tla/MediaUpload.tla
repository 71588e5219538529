----------------------------- MODULE MediaUpload -----------------------------
(***************************************************************************)
(* The chunked upload of a video: the handler upload_media_v2              *)
(* (app/api/routes/api_v2.py), the files it keeps                          *)
(* (app/services/media_pipeline.py) and a client that, like the edge agent *)
(* (tools/edge_camera_agent.py), sends the chunks in order, each after the *)
(* one before was accepted.  One upload_id, one total_chunks.              *)
(*                                                                         *)
(* The handler is a coroutine.  Its one await, the read of the body, comes *)
(* after it looked for the row; from then on it holds the event loop, so   *)
(* the steps below that take the loop interleave with nothing but          *)
(* a restart of the process.                                               *)
(***************************************************************************)
EXTENDS Integers

CONSTANTS
  TotalChunks,  \* chunks of the upload
  Requests,     \* requests in progress at once (bound)
  MaxRestarts,  \* restarts of the web process (bound)
  NoRequest

ASSUME UploadAssumption == TotalChunks \in Nat \ {0} /\ NoRequest \notin Requests

Chunks == 0 .. TotalChunks - 1

VARIABLES
  part,       \* <chunk>.part in the chunk directory; a write makes it torn first
  file,       \* the assembled file
  asset,      \* the media asset's row is committed, with the job of a video
  request,    \* what each request is doing, for which chunk
  holder,       \* the request that holds the event loop
  accepted,   \* chunks the client knows to be accepted
  cut,        \* a restart cut short a write that nothing repeats: a torn chunk
              \* counts as received, a torn file has its row
  restarts

uploadVars == <<part, file, asset, request, holder, accepted, cut, restarts>>

NoUpload == [at |-> "idle", chunk |-> 0]

UploadInit ==
  /\ part = [c \in Chunks |-> "absent"]
  /\ file = "absent"
  /\ asset = FALSE
  /\ request = [r \in Requests |-> NoUpload]
  /\ holder = NoRequest
  /\ accepted = {}
  /\ cut = FALSE
  /\ restarts = 0

Busy(place) == \E r \in Requests : request[r].at = place

Received == {c \in Chunks : part[c] /= "absent"}

\* The first chunk that is not accepted, or one that is sent again.
MaySend(c) == \A d \in Chunks : d < c => d \in accepted

Answer(r) == request' = [request EXCEPT ![r] = NoUpload]

-----------------------------------------------------------------------------
(* upload_media_v2 *)

\* The row is looked for before the body is read.
ArriveAtOpen(r, c) ==
  /\ request[r].at = "idle" /\ holder = NoRequest
  /\ ~asset
  /\ request' = [request EXCEPT ![r] = [at |-> "reading", chunk |-> c]]
  /\ UNCHANGED <<part, file, asset, holder, accepted, cut, restarts>>

\* "Upload already finalized".
ArriveAtFinalized(r, c) ==
  /\ request[r].at = "idle" /\ holder = NoRequest
  /\ asset
  /\ accepted' = accepted \cup {c}
  /\ UNCHANGED <<part, file, asset, request, holder, cut, restarts>>

HasLoop(r) == holder \in {r, NoRequest}

\* An upload without a body is refused.
Refuse(r) ==
  /\ request[r].at = "reading" /\ holder = NoRequest
  /\ Answer(r)
  /\ UNCHANGED <<part, file, asset, holder, accepted, cut, restarts>>

\* save_media_upload_chunk: the chunk, the manifest, the chunks received.
BeginChunk(r) ==
  /\ request[r].at = "reading" /\ HasLoop(r)
  /\ part' = [part EXCEPT ![request[r].chunk] = "torn"]
  /\ request' = [request EXCEPT ![r].at = "writing"]
  /\ holder' = r
  /\ UNCHANGED <<file, asset, accepted, cut, restarts>>

\* Mistake: the chunks are counted before the last of them is in.
CompleteEarly(received) == \E c \in Chunks : Chunks \ {c} \subseteq received

AllReceived(received) == received = Chunks

EndChunk(r) ==
  /\ request[r].at = "writing" /\ HasLoop(r)
  /\ part' = [part EXCEPT ![request[r].chunk] = "whole"]
  /\ \/ /\ ~AllReceived(Received)
        /\ Answer(r) /\ holder' = NoRequest
        /\ accepted' = accepted \cup {request[r].chunk}
        /\ UNCHANGED file
     \/ /\ AllReceived(Received)
        /\ request' = [request EXCEPT ![r].at = "assembling"]
        /\ file' = "torn"
        /\ UNCHANGED <<holder, accepted>>
  /\ UNCHANGED <<asset, cut, restarts>>

\* _assemble_media_chunks: the file, then the chunk directory is removed.
Assembled == IF \A c \in Chunks : part[c] = "whole" THEN "whole" ELSE "torn"

Assemble(r) ==
  /\ request[r].at = "assembling" /\ HasLoop(r)
  /\ file' = Assembled
  /\ part' = [c \in Chunks |-> "absent"]
  /\ request' = [request EXCEPT ![r].at = "saving"]
  /\ UNCHANGED <<asset, holder, accepted, cut, restarts>>

\* The row and its job are inserted in one transaction.
CommitUpload(r) ==
  /\ request[r].at = "saving" /\ HasLoop(r)
  /\ ~asset
  /\ asset' = TRUE
  /\ Answer(r) /\ holder' = NoRequest
  /\ accepted' = accepted \cup {request[r].chunk}
  /\ UNCHANGED <<part, file, cut, restarts>>

\* The tenant's queue is full, the row exists or the database fails: everything
\* is rolled back but the files.
FailToCommit(r) ==
  /\ request[r].at = "saving" /\ HasLoop(r)
  /\ Answer(r) /\ holder' = NoRequest
  /\ UNCHANGED <<part, file, asset, accepted, cut, restarts>>

\* Every request dies, at whatever byte it was.
RestartWeb ==
  /\ restarts < MaxRestarts
  /\ restarts' = restarts + 1
  /\ cut' = (cut \/ Busy("writing") \/ (asset /\ Busy("assembling")))
  /\ request' = [r \in Requests |-> NoUpload]
  /\ holder' = NoRequest
  /\ UNCHANGED <<part, file, asset, accepted>>

\* A client that gave up sends everything again under the same upload_id.
StartOver ==
  /\ accepted /= {}
  /\ accepted' = {}
  /\ UNCHANGED <<part, file, asset, request, holder, cut, restarts>>

Handle(r) ==
  Refuse(r) \/ BeginChunk(r) \/ EndChunk(r) \/ Assemble(r) \/ CommitUpload(r) \/ FailToCommit(r)

UploadNext ==
  \/ \E r \in Requests :
       \/ \E c \in Chunks :
            MaySend(c) /\ (ArriveAtOpen(r, c) \/ ArriveAtFinalized(r, c))
       \/ Handle(r)
  \/ RestartWeb
  \/ StartOver

UploadSpec == UploadInit /\ [][UploadNext]_uploadVars

-----------------------------------------------------------------------------
(* Properties *)

\* A committed asset has its whole file, although a request that looked before
\* the commit may store its chunk, and even assemble the file, once more after
\* it, and requests for the same chunk overlap: only while a request rewrites
\* the file is it anything less, and only a restart in the middle of a write
\* leaves it so.
RowHasWholeFile == asset /\ ~cut => file = "whole" \/ Busy("assembling")
=============================================================================
