------------------------ MODULE PhotoLifecycleProofs ------------------------
(***************************************************************************)
(* Proofs about a photo's life, for any number of photos, jobs, phones,    *)
(* sends and purges: the pictures that are kept once, the photos that wait *)
(* for an analysis, and the two columns that jobs write from what they     *)
(* loaded.  Then about what a manager reads of one photo.                  *)
(***************************************************************************)
EXTENDS PhotoLifecycle, RoleReviews, TLAPS

Labels == {"none", "pending", "completed", "failed"}
Tags == {"none", "analysis", "error", "refused"}
Phases == {"unknown", "open", "executing", "done", "abandoned", "forgotten"}
Stages == {"none", "claimed", "analysing", "finishing", "failing"}
Pictures == {PictureOf[h] : h \in Phones} \cup {Nobody}

PhotosOK ==
  /\ row \in [Photos -> {"none", "live", "trashed", "gone"}]
  /\ picture \in [Photos -> Pictures]
  /\ labeling \in [Photos -> Labels]
  /\ tags \in [Photos -> Tags]
  /\ skipped \subseteq Photos /\ restored \subseteq Photos

JobsOK ==
  /\ phase \in [Jobs -> Phases]
  /\ tries \in [Jobs -> 0 .. MaxAttempts]
  /\ about \in [Jobs -> Photos \cup {NoPhoto}]
  /\ work \in [Jobs -> Stages]
  /\ seen \in [Jobs -> [labeling : Labels, tags : Tags]]

UploadsOK ==
  /\ upload \in [Phones -> {"idle", "receiving", "stored"}]
  /\ stored \in [Phones -> Photos \cup {NoPhoto}]
  /\ loaded \in [Phones -> Labels]
  /\ sends \in [Phones -> 0 .. MaxSends]
  /\ loop \in Phones \cup {Nobody} /\ answered \subseteq Phones

PurgesOK ==
  /\ batch \in [Purgers -> SUBSET Photos]
  /\ expired \in [Purgers -> BOOLEAN]

TypeOK == PhotosOK /\ JobsOK /\ UploadsOK /\ PurgesOK

\* A job is about a photo that was stored; it is in a worker's hands just while it
\* is executing, or until the worker notices that a purge took the photo and the job.
JobsLinked ==
  \A j \in Jobs :
    /\ phase[j] = "unknown" <=> about[j] = NoPhoto
    /\ about[j] /= NoPhoto => row[about[j]] /= "none"
    /\ phase[j] = "executing" => work[j] /= "none"
    /\ work[j] /= "none" =>
         phase[j] = "executing" \/ (phase[j] = "forgotten" /\ row[about[j]] = "gone")

\* What a phone's upload stored or found is a photo; who was answered sends no more.
UploadsLinked ==
  \A h \in Phones :
    /\ stored[h] /= NoPhoto => row[stored[h]] /= "none"
    /\ upload[h] = "stored" \/ h \in answered => stored[h] /= NoPhoto
    /\ h \in answered => upload[h] = "idle"

There(p) == row[p] \in {"live", "trashed"}

\* A job that will write the photo's label, or has the queue write it: it waits, or
\* its worker has not yet loaded the photo, or has loaded a label other than the one
\* that an analysis writes, or has given up on it.
Caring(j, p) ==
  /\ about[j] = p
  /\ \/ phase[j] = "open"
     \/ /\ phase[j] = "executing"
        /\ \/ work[j] \in {"claimed", "failing"}
           \/ work[j] = "analysing" /\ seen[j].labeling /= "completed"

\* Only uploads that have yet to enqueue or refuse the photo's first job know of it.
Fresh(p) ==
  \A h \in Phones : stored[h] = p => upload[h] = "stored" /\ loaded[h] = "pending"

PendingIsCaredFor ==
  \A p \in Photos :
    There(p) /\ labeling[p] = "pending" /\ p \notin skipped
      => Fresh(p) \/ \E j \in Jobs : Caring(j, p)

\* A label that an error overtook is about to be written by the queue.
ErrorIsTemporary ==
  \A p \in Photos :
    There(p) /\ labeling[p] = "completed" /\ tags[p] \notin {"analysis", "refused"}
      => \E j \in Jobs : about[j] = p /\ phase[j] = "executing" /\ work[j] = "failing"

PhotoInv ==
  /\ TypeOK /\ JobsLinked /\ UploadsLinked
  /\ OneLivePhotoPerPicture /\ PendingIsCaredFor /\ ErrorIsTemporary

-----------------------------------------------------------------------------
(* The steps *)

LEMMA NoSuchPhoto == NoPhoto \notin Photos
  BY DEF NoPhoto, Photos

\* A photo's job gets a row that is free.
LEMMA EnqueueAdds ==
  ASSUME TypeOK, JobsLinked, NEW p \in Photos, EnqueueFor(p)
  PROVE  \E j \in Jobs :
           /\ phase[j] = "unknown" /\ about[j] = NoPhoto /\ work[j] = "none"
           /\ phase' = [phase EXCEPT ![j] = "open"]
           /\ about' = [about EXCEPT ![j] = p]
           /\ UNCHANGED tries
<1>1. PICK j \in Jobs : Queue!Submit(j) /\ about' = [about EXCEPT ![j] = p]
  BY DEF EnqueueFor
<1>2. phase[j] = "unknown" /\ about[j] = NoPhoto /\ work[j] = "none"
  BY <1>1 DEF Queue!Submit, TypeOK, JobsOK, JobsLinked
<1>3. QED
  BY <1>1, <1>2 DEF Queue!Submit

\* Every variable keeps its type: what an upload stored and what a job is about are
\* photos whenever a step writes to their rows.
LEMMA TypeStep == TypeOK /\ JobsLinked /\ UploadsLinked /\ [Next]_vars => TypeOK'
<1> SUFFICES ASSUME TypeOK, JobsLinked, UploadsLinked, [Next]_vars PROVE TypeOK'
  OBVIOUS
<1> USE PhotoConstants, NoSuchPhoto DEF TypeOK, PhotosOK, JobsOK, UploadsOK, PurgesOK, Labels, Tags, Phases,
    Stages, Pictures, JobsLinked, UploadsLinked,
    photoVars, jobVars, workVars, uploadVars, purgeVars, history, vars
<1>1. ASSUME NEW h \in Phones, Send(h) PROVE TypeOK'
  BY <1>1 DEF Send
<1>2. ASSUME NEW h \in Phones, Reject(h) PROVE TypeOK'
  BY <1>2 DEF Reject
<1>3. ASSUME NEW h \in Phones, FindDuplicate(h) PROVE TypeOK'
  BY <1>3 DEF FindDuplicate, Found, Holds
<1>4. ASSUME NEW h \in Phones, Store(h) PROVE TypeOK'
  BY <1>4 DEF Store, Found, Holds
<1>5. ASSUME NEW h \in Phones, EnqueueUpload(h) PROVE TypeOK'
  <2>1. stored[h] \in Photos
    BY <1>5 DEF EnqueueUpload, Answer
  <2>2. PICK j \in Jobs : /\ phase' = [phase EXCEPT ![j] = "open"]
                          /\ about' = [about EXCEPT ![j] = stored[h]]
                          /\ UNCHANGED tries
    BY <1>5, <2>1, EnqueueAdds, SMTT(30) DEF EnqueueUpload
  <2>3. QED
    BY <1>5, <2>1, <2>2 DEF EnqueueUpload, Answer
<1>6. ASSUME NEW h \in Phones, SkipAnalysis(h) PROVE TypeOK'
  BY <1>6 DEF SkipAnalysis, Answer
<1>7. ASSUME NEW h \in Phones, RefuseJob(h) PROVE TypeOK'
  BY <1>7 DEF RefuseJob, Answer, WriteLabel
<1>8. ASSUME NEW h \in Phones, UploadFails(h) PROVE TypeOK'
  BY <1>8 DEF UploadFails
<1>9. ASSUME NEW j \in Jobs, Claim(j) PROVE TypeOK'
  <2>1. tries[j] + 1 \in 0 .. MaxAttempts
    BY <1>9 DEF Claim, Queue!Start
  <2>2. QED
    BY <1>9, <2>1 DEF Claim, Queue!Start
<1>10. ASSUME NEW j \in Jobs, Load(j) PROVE TypeOK'
  <2>1. about[j] \in Photos
    BY <1>10 DEF Load
  <2>2. work' \in [Jobs -> Stages]
    BY <1>10 DEF Load
  <2>3. seen' \in [Jobs -> [labeling : Labels, tags : Tags]]
    BY <1>10, <2>1 DEF Load
  <2>4. skipped' \subseteq Photos
    BY <1>10, <2>1 DEF Load
  <2>5. QED
    <3>1. UNCHANGED <<photoVars, jobVars, uploadVars, purgeVars, restored>>
      BY <1>10 DEF Load
    <3>2. QED
      BY <2>2, <2>3, <2>4, <3>1
<1>11. ASSUME NEW j \in Jobs, Analyse(j) PROVE TypeOK'
  BY <1>11 DEF Analyse, EndsIn, WriteLabel, NothingSeen
<1>12. ASSUME NEW j \in Jobs, Exhaust(j) PROVE TypeOK'
  BY <1>12 DEF Exhaust, EndsIn, WriteLabel, NothingSeen
<1>13. ASSUME NEW j \in Jobs, Raise(j) PROVE TypeOK'
  BY <1>13 DEF Raise, EndsIn, NothingSeen
<1>14. ASSUME NEW j \in Jobs, Complete(j) PROVE TypeOK'
  BY <1>14 DEF Complete, Queue!Finish
<1>15. ASSUME NEW j \in Jobs, Fail(j) PROVE TypeOK'
  BY <1>15 DEF Fail, Queue!Fail, Label, LabelAfterFailure, NothingSeen
<1>16. ASSUME NEW j \in Jobs, RetryJob(j) PROVE TypeOK'
  BY <1>16 DEF RetryJob, Queue!Reopen, Label
<1>17. ASSUME NEW j \in Jobs, ForgetJob(j) PROVE TypeOK'
  BY <1>17 DEF ForgetJob, Queue!Forget
<1>18. ASSUME NEW p \in Photos, Trash(p) PROVE TypeOK'
  BY <1>18 DEF Trash
<1>19. ASSUME NEW p \in Photos, Restore(p) PROVE TypeOK'
  BY <1>19 DEF Restore
<1>20. ASSUME NEW p \in Photos, Reprocess(p) PROVE TypeOK'
  <2>1. PICK j \in Jobs : /\ phase' = [phase EXCEPT ![j] = "open"]
                          /\ about' = [about EXCEPT ![j] = p]
                          /\ UNCHANGED tries
    BY <1>20, EnqueueAdds, SMTT(30) DEF Reprocess
  <2>2. QED
    BY <1>20, <2>1 DEF Reprocess, Label
<1>21. ASSUME NEW k \in Purgers, LoadBin(k) PROVE TypeOK'
  <2>1. PICK S \in SUBSET Photos : batch' = [batch EXCEPT ![k] = S]
    BY <1>21 DEF LoadBin
  <2>2. QED
    BY <1>21, <2>1 DEF LoadBin
<1>22. ASSUME NEW k \in Purgers, NEW p \in Photos, HardDelete(k, p) PROVE TypeOK'
  BY <1>22 DEF HardDelete, Queue!Withdraw, JobsOf
<1>23. ASSUME NEW k \in Purgers, NEW p \in Photos, HardDeleteFails(k, p) PROVE TypeOK'
  <2>1. \E S \in SUBSET Photos : batch' = [batch EXCEPT ![k] = S]
    BY <1>23 DEF HardDeleteFails
  <2>2. \E b \in BOOLEAN : expired' = [expired EXCEPT ![k] = b]
    BY <1>23 DEF HardDeleteFails
  <2>3. QED
    BY <1>23, <2>1, <2>2 DEF HardDeleteFails
<1>24. CASE UNCHANGED vars
  BY <1>24
<1>25. QED
  BY <1>1, <1>2, <1>3, <1>4, <1>5, <1>6, <1>7, <1>8, <1>9, <1>10, <1>11, <1>12, <1>13, <1>14,
     <1>15, <1>16, <1>17, <1>18, <1>19, <1>20, <1>21, <1>22, <1>23, <1>24
     DEF Next, UploadStep, WorkerStep, JobStep, ManagerStep,
     PurgeStep, TaskFails, Recover
\* Jobs and uploads keep to the photos they are about.
LEMMA LinksStep ==
  TypeOK /\ JobsLinked /\ UploadsLinked /\ [Next]_vars => JobsLinked' /\ UploadsLinked'
<1> SUFFICES ASSUME TypeOK, JobsLinked, UploadsLinked, [Next]_vars
             PROVE  JobsLinked' /\ UploadsLinked'
  OBVIOUS
<1> USE NoSuchPhoto DEF TypeOK, PhotosOK, JobsOK, UploadsOK, PurgesOK, JobsLinked, UploadsLinked,
    photoVars, jobVars, workVars, uploadVars, purgeVars, history, vars
<1>1. ASSUME NEW h \in Phones, Send(h) PROVE JobsLinked' /\ UploadsLinked'
  BY <1>1 DEF Send
<1>2. ASSUME NEW h \in Phones, Reject(h) PROVE JobsLinked' /\ UploadsLinked'
  BY <1>2 DEF Reject
<1>3. ASSUME NEW h \in Phones, FindDuplicate(h) PROVE JobsLinked' /\ UploadsLinked'
  <2>1. PICK p \in Photos : row[p] = "live" /\ stored' = [stored EXCEPT ![h] = p]
    BY <1>3 DEF FindDuplicate, Found, Holds
  <2>2. QED
    BY <1>3, <2>1 DEF FindDuplicate, Holds
<1>4. ASSUME NEW h \in Phones, Store(h) PROVE JobsLinked' /\ UploadsLinked'
  <2>1. PICK p \in Photos : /\ row' = [row EXCEPT ![p] = "live"]
                            /\ row[p] = "none"
                            /\ stored' = [stored EXCEPT ![h] = p]
    BY <1>4 DEF Store, Holds
  <2>2. UNCHANGED <<jobVars, workVars, answered>>
    BY <1>4 DEF Store, Holds
  <2>3. JobsLinked'
    BY <2>1, <2>2
  <2>4. QED
    BY <1>4, <2>1, <2>2, <2>3 DEF Store, Holds
<1>5. ASSUME NEW h \in Phones, EnqueueUpload(h) PROVE JobsLinked' /\ UploadsLinked'
  <2>1. PICK j \in Jobs : /\ phase[j] = "unknown" /\ about[j] = NoPhoto /\ work[j] = "none"
                          /\ phase' = [phase EXCEPT ![j] = "open"]
                          /\ about' = [about EXCEPT ![j] = stored[h]]
    <3>1. stored[h] \in Photos
      BY <1>5 DEF EnqueueUpload, Answer
    <3>2. QED
      BY <1>5, <3>1, EnqueueAdds, SMTT(30) DEF EnqueueUpload
  <2>2. QED
    BY <1>5, <2>1 DEF EnqueueUpload, Answer
<1>6. ASSUME NEW h \in Phones, SkipAnalysis(h) PROVE JobsLinked' /\ UploadsLinked'
  BY <1>6 DEF SkipAnalysis, Answer
<1>7. ASSUME NEW h \in Phones, RefuseJob(h) PROVE JobsLinked' /\ UploadsLinked'
  BY <1>7 DEF RefuseJob, Answer, WriteLabel
<1>8. ASSUME NEW h \in Phones, UploadFails(h) PROVE JobsLinked' /\ UploadsLinked'
  BY <1>8 DEF UploadFails
<1>9. ASSUME NEW j \in Jobs, Claim(j) PROVE JobsLinked' /\ UploadsLinked'
  BY <1>9 DEF Claim, Queue!Start
<1>10. ASSUME NEW j \in Jobs, Load(j) PROVE JobsLinked' /\ UploadsLinked'
  BY <1>10 DEF Load
<1>11. ASSUME NEW j \in Jobs, Analyse(j) PROVE JobsLinked' /\ UploadsLinked'
  BY <1>11 DEF Analyse, EndsIn, WriteLabel, NothingSeen
<1>12. ASSUME NEW j \in Jobs, Exhaust(j) PROVE JobsLinked' /\ UploadsLinked'
  BY <1>12 DEF Exhaust, EndsIn, WriteLabel, NothingSeen
<1>13. ASSUME NEW j \in Jobs, Raise(j) PROVE JobsLinked' /\ UploadsLinked'
  BY <1>13 DEF Raise, EndsIn, NothingSeen
<1>14. ASSUME NEW j \in Jobs, Complete(j) PROVE JobsLinked' /\ UploadsLinked'
  BY <1>14 DEF Complete, Queue!Finish
<1>15. ASSUME NEW j \in Jobs, Fail(j) PROVE JobsLinked' /\ UploadsLinked'
  BY <1>15 DEF Fail, Queue!Fail, Label, LabelAfterFailure, NothingSeen
<1>16. ASSUME NEW j \in Jobs, RetryJob(j) PROVE JobsLinked' /\ UploadsLinked'
  BY <1>16 DEF RetryJob, Queue!Reopen, Label
<1>17. ASSUME NEW j \in Jobs, ForgetJob(j) PROVE JobsLinked' /\ UploadsLinked'
  BY <1>17 DEF ForgetJob, Queue!Forget
<1>18. ASSUME NEW p \in Photos, Trash(p) PROVE JobsLinked' /\ UploadsLinked'
  BY <1>18 DEF Trash
<1>19. ASSUME NEW p \in Photos, Restore(p) PROVE JobsLinked' /\ UploadsLinked'
  BY <1>19 DEF Restore
<1>20. ASSUME NEW p \in Photos, Reprocess(p) PROVE JobsLinked' /\ UploadsLinked'
  <2>1. PICK j \in Jobs : /\ phase[j] = "unknown" /\ about[j] = NoPhoto /\ work[j] = "none"
                          /\ phase' = [phase EXCEPT ![j] = "open"]
                          /\ about' = [about EXCEPT ![j] = p]
    BY <1>20, EnqueueAdds, SMTT(30) DEF Reprocess
  <2>2. QED
    <3>1. UNCHANGED <<row, workVars, uploadVars>> /\ row[p] /= "none"
      BY <1>20 DEF Reprocess
    <3>2. QED
      BY <2>1, <3>1
<1>21. ASSUME NEW k \in Purgers, LoadBin(k) PROVE JobsLinked' /\ UploadsLinked'
  BY <1>21 DEF LoadBin
<1>22. ASSUME NEW k \in Purgers, NEW p \in Photos, HardDelete(k, p)
       PROVE  JobsLinked' /\ UploadsLinked'
  <2>1. /\ row' = [row EXCEPT ![p] = "gone"]
        /\ phase' = [j \in Jobs |-> IF about[j] = p THEN "forgotten" ELSE phase[j]]
        /\ UNCHANGED <<about, workVars, uploadVars>>
    BY <1>22 DEF HardDelete, Queue!Withdraw, JobsOf
  <2>2. JobsLinked'
    BY <2>1
  <2>3. UploadsLinked'
    BY <2>1
  <2>4. QED
    BY <2>2, <2>3
<1>23. ASSUME NEW k \in Purgers, NEW p \in Photos, HardDeleteFails(k, p)
       PROVE  JobsLinked' /\ UploadsLinked'
  BY <1>23 DEF HardDeleteFails
<1>24. CASE UNCHANGED vars
  BY <1>24
<1>25. QED
  BY <1>1, <1>2, <1>3, <1>4, <1>5, <1>6, <1>7, <1>8, <1>9, <1>10, <1>11, <1>12, <1>13, <1>14,
     <1>15, <1>16, <1>17, <1>18, <1>19, <1>20, <1>21, <1>22, <1>23, <1>24
     DEF Next, UploadStep, WorkerStep, JobStep, ManagerStep,
     PurgeStep, TaskFails, Recover

\* An upload stores a picture only when no live photo has it, and what comes back from
\* the recycle bin is known by `restored`.
LEMMA DuplicateStep ==
  TypeOK /\ UploadsLinked /\ OneLivePhotoPerPicture /\ [Next]_vars => OneLivePhotoPerPicture'
<1> SUFFICES ASSUME TypeOK, UploadsLinked, OneLivePhotoPerPicture, [Next]_vars
             PROVE  OneLivePhotoPerPicture'
  OBVIOUS
<1> USE NoSuchPhoto DEF TypeOK, PhotosOK, UploadsOK, UploadsLinked, OneLivePhotoPerPicture,
    photoVars, jobVars, workVars, uploadVars, purgeVars, history, vars
<1>1. ASSUME NEW h \in Phones, Store(h) PROVE OneLivePhotoPerPicture'
  BY <1>1 DEF Store, Found, Holds
<1>2. ASSUME NEW p \in Photos, Restore(p) PROVE OneLivePhotoPerPicture'
  BY <1>2 DEF Restore
<1>3. ASSUME NEW p \in Photos, Trash(p) PROVE OneLivePhotoPerPicture'
  BY <1>3 DEF Trash
<1>4. ASSUME NEW k \in Purgers, NEW p \in Photos, HardDelete(k, p)
      PROVE  OneLivePhotoPerPicture'
  BY <1>4 DEF HardDelete, Queue!Withdraw, JobsOf
<1>5. CASE UNCHANGED <<row, picture, restored>>
  BY <1>5
<1>6. QED
  BY <1>1, <1>2, <1>3, <1>4, <1>5 DEF Next, UploadStep, WorkerStep, JobStep, ManagerStep,
     PurgeStep, TaskFails, Recover, Send, Reject, FindDuplicate, Holds, EnqueueUpload,
     SkipAnalysis, RefuseJob, Answer, UploadFails, Claim, Load, Analyse, Exhaust, Raise, EndsIn,
     Complete, Fail, RetryJob, ForgetJob, Reprocess, LoadBin, HardDeleteFails

\* Whoever writes an error beside a finished analysis has the queue write the label next.
LEMMA ErrorStep ==
  TypeOK /\ JobsLinked /\ UploadsLinked /\ ErrorIsTemporary /\ [Next]_vars => ErrorIsTemporary'
<1> SUFFICES ASSUME TypeOK, JobsLinked, UploadsLinked, ErrorIsTemporary, [Next]_vars
             PROVE  ErrorIsTemporary'
  OBVIOUS
<1> USE NoSuchPhoto DEF TypeOK, PhotosOK, JobsOK, UploadsOK, PurgesOK, JobsLinked, UploadsLinked, There, ErrorIsTemporary,
    photoVars, jobVars, workVars, uploadVars, purgeVars, history, vars
<1>1. ASSUME NEW h \in Phones, Send(h) PROVE ErrorIsTemporary'
  BY <1>1 DEF Send
<1>2. ASSUME NEW h \in Phones, Reject(h) PROVE ErrorIsTemporary'
  BY <1>2 DEF Reject
<1>3. ASSUME NEW h \in Phones, FindDuplicate(h) PROVE ErrorIsTemporary'
  BY <1>3 DEF FindDuplicate, Found, Holds
<1>4. ASSUME NEW h \in Phones, Store(h) PROVE ErrorIsTemporary'
  BY <1>4 DEF Store, Found, Holds
<1>5. ASSUME NEW h \in Phones, EnqueueUpload(h) PROVE ErrorIsTemporary'
  <2>1. PICK j \in Jobs : /\ phase[j] = "unknown" /\ about[j] = NoPhoto /\ work[j] = "none"
                          /\ phase' = [phase EXCEPT ![j] = "open"]
                          /\ about' = [about EXCEPT ![j] = stored[h]]
    <3>1. stored[h] \in Photos
      BY <1>5 DEF EnqueueUpload, Answer
    <3>2. QED
      BY <1>5, <3>1, EnqueueAdds, SMTT(30) DEF EnqueueUpload
  <2>2. QED
    BY <1>5, <2>1 DEF EnqueueUpload, Answer
<1>6. ASSUME NEW h \in Phones, SkipAnalysis(h) PROVE ErrorIsTemporary'
  BY <1>6 DEF SkipAnalysis, Answer
<1>7. ASSUME NEW h \in Phones, RefuseJob(h) PROVE ErrorIsTemporary'
  BY <1>7 DEF RefuseJob, Answer, WriteLabel
<1>8. ASSUME NEW h \in Phones, UploadFails(h) PROVE ErrorIsTemporary'
  BY <1>8 DEF UploadFails
<1>9. ASSUME NEW j \in Jobs, Claim(j) PROVE ErrorIsTemporary'
  BY <1>9 DEF Claim, Queue!Start
<1>10. ASSUME NEW j \in Jobs, Load(j) PROVE ErrorIsTemporary'
  BY <1>10 DEF Load
<1>11. ASSUME NEW j \in Jobs, Analyse(j) PROVE ErrorIsTemporary'
  BY <1>11 DEF Analyse, EndsIn, WriteLabel, NothingSeen
<1>12. ASSUME NEW j \in Jobs, Exhaust(j) PROVE ErrorIsTemporary'
  BY <1>12 DEF Exhaust, EndsIn, WriteLabel, NothingSeen
<1>13. ASSUME NEW j \in Jobs, Raise(j) PROVE ErrorIsTemporary'
  BY <1>13 DEF Raise, EndsIn, NothingSeen
<1>14. ASSUME NEW j \in Jobs, Complete(j) PROVE ErrorIsTemporary'
  BY <1>14 DEF Complete, Queue!Finish
<1>15. ASSUME NEW j \in Jobs, Fail(j) PROVE ErrorIsTemporary'
  BY <1>15 DEF Fail, Queue!Fail, Label, LabelAfterFailure, NothingSeen
<1>16. ASSUME NEW j \in Jobs, RetryJob(j) PROVE ErrorIsTemporary'
  BY <1>16 DEF RetryJob, Queue!Reopen, Label
<1>17. ASSUME NEW j \in Jobs, ForgetJob(j) PROVE ErrorIsTemporary'
  BY <1>17 DEF ForgetJob, Queue!Forget
<1>18. ASSUME NEW p \in Photos, Trash(p) PROVE ErrorIsTemporary'
  BY <1>18 DEF Trash
<1>19. ASSUME NEW p \in Photos, Restore(p) PROVE ErrorIsTemporary'
  BY <1>19 DEF Restore
<1>20. ASSUME NEW p \in Photos, Reprocess(p) PROVE ErrorIsTemporary'
  <2>1. PICK j \in Jobs : /\ phase[j] = "unknown" /\ about[j] = NoPhoto /\ work[j] = "none"
                          /\ phase' = [phase EXCEPT ![j] = "open"]
                          /\ about' = [about EXCEPT ![j] = p]
    BY <1>20, EnqueueAdds, SMTT(30) DEF Reprocess
  <2>2. QED
    BY <1>20, <2>1 DEF Reprocess, Label
<1>21. ASSUME NEW k \in Purgers, LoadBin(k) PROVE ErrorIsTemporary'
  BY <1>21 DEF LoadBin
<1>22. ASSUME NEW k \in Purgers, NEW p \in Photos, HardDelete(k, p) PROVE ErrorIsTemporary'
  BY <1>22 DEF HardDelete, Queue!Withdraw, JobsOf
<1>23. ASSUME NEW k \in Purgers, NEW p \in Photos, HardDeleteFails(k, p) PROVE ErrorIsTemporary'
  BY <1>23 DEF HardDeleteFails
<1>24. CASE UNCHANGED vars
  BY <1>24
<1>25. QED
  BY <1>1, <1>2, <1>3, <1>4, <1>5, <1>6, <1>7, <1>8, <1>9, <1>10, <1>11, <1>12, <1>13, <1>14,
     <1>15, <1>16, <1>17, <1>18, <1>19, <1>20, <1>21, <1>22, <1>23, <1>24
     DEF Next, UploadStep, WorkerStep, JobStep, ManagerStep,
     PurgeStep, TaskFails, Recover

\* A photo that waits keeps somebody who cares.
LEMMA PendingStep ==
  TypeOK /\ JobsLinked /\ UploadsLinked /\ PendingIsCaredFor /\ [Next]_vars => PendingIsCaredFor'
<1> SUFFICES ASSUME TypeOK, JobsLinked, UploadsLinked, PendingIsCaredFor, [Next]_vars
             PROVE  PendingIsCaredFor'
  OBVIOUS
<1> USE NoSuchPhoto DEF TypeOK, PhotosOK, JobsOK, UploadsOK, PurgesOK, JobsLinked, UploadsLinked, There, Caring, Fresh, PendingIsCaredFor,
    photoVars, jobVars, workVars, uploadVars, purgeVars, history, vars
<1>1. ASSUME NEW h \in Phones, Send(h) PROVE PendingIsCaredFor'
  BY <1>1 DEF Send
<1>2. ASSUME NEW h \in Phones, Reject(h) PROVE PendingIsCaredFor'
  BY <1>2 DEF Reject
<1>3. ASSUME NEW h \in Phones, FindDuplicate(h) PROVE PendingIsCaredFor'
  BY <1>3 DEF FindDuplicate, Found, Holds
<1>4. ASSUME NEW h \in Phones, Store(h) PROVE PendingIsCaredFor'
  <2>1. PICK p \in Photos : /\ row[p] = "none"
                            /\ row' = [row EXCEPT ![p] = "live"]
                            /\ labeling' = [labeling EXCEPT ![p] = "pending"]
                            /\ stored' = [stored EXCEPT ![h] = p]
    BY <1>4 DEF Store, Holds
  <2>2. /\ upload' = [upload EXCEPT ![h] = "stored"]
        /\ loaded' = [loaded EXCEPT ![h] = "pending"]
        /\ UNCHANGED <<jobVars, workVars, skipped>>
    BY <1>4 DEF Store, Holds
  <2>3. Fresh(p)'
    BY <2>1, <2>2
  <2>4. ASSUME NEW q \in Photos \ {p}, There(q)', labeling'[q] = "pending", q \notin skipped'
        PROVE  Fresh(q)' \/ \E j \in Jobs : Caring(j, q)'
    BY <2>1, <2>2, <2>4
  <2>5. QED
    BY <2>3, <2>4
<1>5. ASSUME NEW h \in Phones, EnqueueUpload(h) PROVE PendingIsCaredFor'
  <2>1. PICK p \in Photos : p = stored[h]
    BY <1>5 DEF EnqueueUpload, Answer
  <2>2. PICK j \in Jobs : /\ phase[j] = "unknown" /\ about[j] = NoPhoto /\ work[j] = "none"
                          /\ phase' = [phase EXCEPT ![j] = "open"]
                          /\ about' = [about EXCEPT ![j] = p]
    BY <1>5, <2>1, EnqueueAdds, SMTT(30) DEF EnqueueUpload
  <2>3. /\ UNCHANGED <<photoVars, workVars>>
        /\ skipped' = skipped \ {p}
    BY <1>5, <2>1 DEF EnqueueUpload, Answer
  <2>4. Caring(j, p)'
    BY <2>2
  <2>5. ASSUME NEW q \in Photos, NEW i \in Jobs, Caring(i, q) PROVE Caring(i, q)'
    BY <2>2, <2>3, <2>5
  <2>6. ASSUME NEW q \in Photos, q /= p, Fresh(q) PROVE Fresh(q)'
    BY <1>5, <2>1, <2>6 DEF EnqueueUpload, Answer
  <2>7. QED
    BY <2>3, <2>4, <2>5, <2>6, SMTT(30)
<1>6. ASSUME NEW h \in Phones, SkipAnalysis(h) PROVE PendingIsCaredFor'
  BY <1>6 DEF SkipAnalysis, Answer
<1>7. ASSUME NEW h \in Phones, RefuseJob(h) PROVE PendingIsCaredFor'
  BY <1>7 DEF RefuseJob, Answer, WriteLabel
<1>8. ASSUME NEW h \in Phones, UploadFails(h) PROVE PendingIsCaredFor'
  <2>1. ASSUME NEW p \in Photos, Fresh(p) PROVE Fresh(p)'
    BY <1>8, <2>1 DEF UploadFails
  <2>2. UNCHANGED <<photoVars, jobVars, workVars, skipped>>
    BY <1>8 DEF UploadFails
  <2>3. QED
    BY <2>1, <2>2
<1>9. ASSUME NEW j \in Jobs, Claim(j) PROVE PendingIsCaredFor'
  BY <1>9, SMTT(30) DEF Claim, Queue!Start
<1>10. ASSUME NEW j \in Jobs, Load(j) PROVE PendingIsCaredFor'
  <2>1. /\ UNCHANGED <<photoVars, jobVars, uploadVars>>
        /\ \A i \in Jobs \ {j} : work'[i] = work[i] /\ seen'[i] = seen[i]
        /\ skipped \subseteq skipped'
    BY <1>10 DEF Load
  <2>2. ASSUME NEW p \in Photos, NEW i \in Jobs \ {j}, Caring(i, p) PROVE Caring(i, p)'
    BY <2>1, <2>2
  <2>3. ASSUME NEW p \in Photos, Fresh(p) PROVE Fresh(p)'
    BY <2>1, <2>3
  <2>4. ASSUME NEW p \in Photos, There(p), labeling[p] = "pending", Caring(j, p), p \notin skipped'
        PROVE  Caring(j, p)'
    <3>1. row[p] = "live" /\ about[j] = p /\ phase[j] = "executing"
      BY <1>10, <2>4 DEF Load
    <3>2. work'[j] = "analysing" /\ seen'[j].labeling = "pending"
      BY <1>10, <2>4, <3>1 DEF Load
    <3>3. QED
      BY <2>1, <3>1, <3>2
  <2>5. QED
    BY <2>1, <2>2, <2>3, <2>4
<1>11. ASSUME NEW j \in Jobs, Analyse(j) PROVE PendingIsCaredFor'
  BY <1>11 DEF Analyse, EndsIn, WriteLabel, NothingSeen
<1>12. ASSUME NEW j \in Jobs, Exhaust(j) PROVE PendingIsCaredFor'
  BY <1>12 DEF Exhaust, EndsIn, WriteLabel, NothingSeen
<1>13. ASSUME NEW j \in Jobs, Raise(j) PROVE PendingIsCaredFor'
  <2>1. /\ work' = [work EXCEPT ![j] = "failing"]
        /\ UNCHANGED <<row, jobVars, uploadVars, skipped>>
        /\ \A p \in Photos : labeling'[p] = "pending" => labeling[p] = "pending"
        /\ \A i \in Jobs \ {j} : seen'[i] = seen[i]
        /\ work[j] \in {"claimed", "analysing"}
    BY <1>13 DEF Raise, EndsIn
  <2>2. ASSUME NEW p \in Photos, There(p), NEW i \in Jobs, Caring(i, p) PROVE Caring(i, p)'
    BY <2>1, <2>2
  <2>3. ASSUME NEW p \in Photos, Fresh(p) PROVE Fresh(p)'
    BY <2>1, <2>3
  <2>4. QED
    BY <2>1, <2>2, <2>3
<1>14. ASSUME NEW j \in Jobs, Complete(j) PROVE PendingIsCaredFor'
  <2>1. /\ work[j] = "finishing" /\ work' = [work EXCEPT ![j] = "none"]
        /\ \A i \in Jobs \ {j} : phase'[i] = phase[i]
        /\ UNCHANGED <<photoVars, about, seen, uploadVars, skipped>>
    BY <1>14 DEF Complete, Queue!Finish
  <2>2. ASSUME NEW p \in Photos, There(p), NEW i \in Jobs, Caring(i, p) PROVE Caring(i, p)'
    BY <2>1, <2>2
  <2>3. QED
    BY <2>1, <2>2, SMTT(30)
<1>15. ASSUME NEW j \in Jobs, Fail(j) PROVE PendingIsCaredFor'
  <2>1. /\ UNCHANGED <<row, about, uploadVars, skipped>>
        /\ work[j] /= "none" => work' = [work EXCEPT ![j] = "none"]
        /\ \A i \in Jobs \ {j} :
             work'[i] = work[i] /\ seen'[i] = seen[i] /\ phase'[i] = phase[i]
    BY <1>15 DEF Fail, Queue!Fail
  <2>2. ASSUME NEW p \in Photos, NEW i \in Jobs \ {j}, Caring(i, p) PROVE Caring(i, p)'
    BY <2>1, <2>2
  <2>3. ASSUME NEW p \in Photos, Fresh(p) PROVE Fresh(p)'
    BY <2>1, <2>3
  <2>4. ASSUME NEW p \in Photos, about[j] = p, phase[j] = "executing", There(p),
               labeling'[p] = "pending"
        PROVE  Caring(j, p)'
    <3>1. tries[j] /= MaxAttempts
      BY <1>15, <2>4 DEF Fail, Label, LabelAfterFailure
    <3>2. phase'[j] = "open"
      BY <1>15, <2>4, <3>1 DEF Fail, Queue!Fail
    <3>3. QED
      BY <2>1, <2>4, <3>2
  <2>5. ASSUME NEW p \in Photos, about[j] /= p \/ phase[j] /= "executing"
        PROVE  labeling'[p] = labeling[p] /\ (Caring(j, p) => Caring(j, p)')
    BY <1>15, <2>5 DEF Fail, Label
  <2>6. QED
    BY <2>1, <2>2, <2>3, <2>4, <2>5
<1>16. ASSUME NEW j \in Jobs, RetryJob(j) PROVE PendingIsCaredFor'
  BY <1>16 DEF RetryJob, Queue!Reopen, Label
<1>17. ASSUME NEW j \in Jobs, ForgetJob(j) PROVE PendingIsCaredFor'
  BY <1>17 DEF ForgetJob, Queue!Forget
<1>18. ASSUME NEW p \in Photos, Trash(p) PROVE PendingIsCaredFor'
  BY <1>18 DEF Trash
<1>19. ASSUME NEW p \in Photos, Restore(p) PROVE PendingIsCaredFor'
  BY <1>19 DEF Restore
<1>20. ASSUME NEW p \in Photos, Reprocess(p) PROVE PendingIsCaredFor'
  <2>1. PICK j \in Jobs : /\ phase[j] = "unknown" /\ about[j] = NoPhoto /\ work[j] = "none"
                          /\ phase' = [phase EXCEPT ![j] = "open"]
                          /\ about' = [about EXCEPT ![j] = p]
    BY <1>20, EnqueueAdds, SMTT(30) DEF Reprocess
  <2>2. QED
    <3>1. Caring(j, p)'
      BY <1>20, <2>1 DEF Reprocess
    <3>2. ASSUME NEW q \in Photos, NEW i \in Jobs, Caring(i, q) PROVE Caring(i, q)'
      BY <1>20, <2>1, <3>2 DEF Reprocess
    <3>3. ASSUME NEW q \in Photos, Fresh(q) PROVE Fresh(q)'
      BY <1>20, <3>3 DEF Reprocess
    <3>4. /\ UNCHANGED row
          /\ skipped' = skipped \ {p}
          /\ \A q \in Photos \ {p} : labeling'[q] = labeling[q]
      BY <1>20 DEF Reprocess, Label
    <3>5. QED
      BY <3>1, <3>2, <3>3, <3>4
<1>21. ASSUME NEW k \in Purgers, LoadBin(k) PROVE PendingIsCaredFor'
  BY <1>21 DEF LoadBin
<1>22. ASSUME NEW k \in Purgers, NEW p \in Photos, HardDelete(k, p) PROVE PendingIsCaredFor'
  BY <1>22 DEF HardDelete, Queue!Withdraw, JobsOf
<1>23. ASSUME NEW k \in Purgers, NEW p \in Photos, HardDeleteFails(k, p) PROVE PendingIsCaredFor'
  BY <1>23 DEF HardDeleteFails
<1>24. CASE UNCHANGED vars
  BY <1>24
<1>25. QED
  BY <1>1, <1>2, <1>3, <1>4, <1>5, <1>6, <1>7, <1>8, <1>9, <1>10, <1>11, <1>12, <1>13, <1>14,
     <1>15, <1>16, <1>17, <1>18, <1>19, <1>20, <1>21, <1>22, <1>23, <1>24
     DEF Next, UploadStep, WorkerStep, JobStep, ManagerStep,
     PurgeStep, TaskFails, Recover
-----------------------------------------------------------------------------
(* The theorems *)

\* The initial states satisfy the invariant.
LEMMA InitHolds == Init => PhotoInv
<1> SUFFICES ASSUME Init PROVE PhotoInv
  OBVIOUS
<1>1. TypeOK
  BY PhotoConstants DEF Init, Queue!Init, NothingSeen, TypeOK, PhotosOK, JobsOK, UploadsOK,
     PurgesOK, Labels, Tags, Phases, Stages, Pictures
<1>2. JobsLinked /\ UploadsLinked
  BY DEF Init, Queue!Init, JobsLinked, UploadsLinked
<1>3. OneLivePhotoPerPicture /\ PendingIsCaredFor /\ ErrorIsTemporary
  BY DEF Init, OneLivePhotoPerPicture, PendingIsCaredFor, ErrorIsTemporary, There
<1>4. QED
  BY <1>1, <1>2, <1>3 DEF PhotoInv

\* The inductive invariant, for any number of photos, jobs, phones and purges.
THEOREM PhotoInvariant == Spec => []PhotoInv
<1>1. PhotoInv /\ [Next]_vars => PhotoInv'
  BY TypeStep, LinksStep, DuplicateStep, PendingStep, ErrorStep DEF PhotoInv
<1>2. QED
  BY InitHolds, <1>1, PTL DEF Spec

\* Every column, every upload and every purge keeps its type.
THEOREM TypeCorrect == Spec => []TypeOK
<1>1. PhotoInv => TypeOK
  BY DEF PhotoInv
<1>2. QED
  BY <1>1, PhotoInvariant, PTL

\* However often and from however many phones a picture is sent, it is kept once
\* (save_mobile_upload).
THEOREM KeptOnce == Spec => []OneLivePhotoPerPicture
<1>1. PhotoInv => OneLivePhotoPerPicture
  BY DEF PhotoInv
<1>2. QED
  BY <1>1, PhotoInvariant, PTL

\* Who was told that a photo is there, and sees it waiting, waits for a job that will
\* come (save_mobile_upload, process_photo_with_ai, recover_stale_running_jobs).
THEOREM WaitingIsNotInVain == Spec => []PendingHasJob
<1>1. ASSUME PhotoInv PROVE PendingHasJob
  <2> SUFFICES ASSUME NEW h \in answered, row[stored[h]] = "live",
                      labeling[stored[h]] = "pending", stored[h] \notin skipped
               PROVE  JobsOf(stored[h]) \cap ActiveJobs /= {}
    BY DEF PendingHasJob
  <2>1. h \in Phones /\ stored[h] \in Photos /\ upload[h] = "idle"
    BY <1>1 DEF PhotoInv, TypeOK, UploadsOK, UploadsLinked
  <2>2. ~Fresh(stored[h])
    BY <2>1 DEF Fresh
  <2>3. PICK j \in Jobs : Caring(j, stored[h])
    BY <1>1, <2>1, <2>2 DEF PhotoInv, PendingIsCaredFor, There
  <2>4. QED
    BY <2>3 DEF Caring, JobsOf, ActiveJobs
<1>2. QED
  BY <1>1, PhotoInvariant, PTL

\* A photo that nobody is at work on and that reads "completed" shows an analysis, or
\* the refusal of the upload that was sent again (_mark_photo_failed,
\* _mark_related_target_as_failed).
THEOREM CompletedIsAnalysed == Spec => []CompletedShowsAnalysis
<1>1. ASSUME PhotoInv PROVE CompletedShowsAnalysis
  <2> SUFFICES ASSUME NEW p \in Photos, row[p] = "live", labeling[p] = "completed",
                      Settled(p), tags[p] \notin {"analysis", "refused"}
               PROVE  FALSE
    BY DEF CompletedShowsAnalysis
  <2>1. PICK j \in Jobs : about[j] = p /\ work[j] = "failing"
    BY <1>1 DEF PhotoInv, ErrorIsTemporary, There
  <2>2. QED
    BY <2>1 DEF Settled, JobsOf
<1>2. QED
  BY <1>1, PhotoInvariant, PTL

-----------------------------------------------------------------------------
(* How far two claims of the code hold that the runs refute *)

\* A purge loads what is in the recycle bin; the one way out of it, for a photo that
\* is not destroyed, is to be restored.
LEMMA BinStep == TypeOK /\ LoadedFromBin /\ [Next]_vars => LoadedFromBin'
<1> SUFFICES ASSUME TypeOK, LoadedFromBin, [Next]_vars PROVE LoadedFromBin'
  OBVIOUS
<1> USE DEF TypeOK, PhotosOK, PurgesOK
<1>1. ASSUME UNCHANGED <<row, batch, restored>> PROVE LoadedFromBin'
  BY <1>1 DEF LoadedFromBin
<1>2. ASSUME NEW h \in Phones, Store(h) PROVE LoadedFromBin'
  BY <1>2 DEF LoadedFromBin, Store, Holds, purgeVars, history
<1>3. ASSUME NEW p \in Photos, Trash(p) PROVE LoadedFromBin'
  BY <1>3 DEF LoadedFromBin, Trash, purgeVars, history
<1>4. ASSUME NEW p \in Photos, Restore(p) PROVE LoadedFromBin'
  BY <1>4 DEF LoadedFromBin, Restore, purgeVars
<1>5. ASSUME NEW k \in Purgers, LoadBin(k) PROVE LoadedFromBin'
  BY <1>5 DEF LoadedFromBin, LoadBin, photoVars, history
<1>6. ASSUME NEW k \in Purgers, NEW p \in Photos, HardDelete(k, p) PROVE LoadedFromBin'
  BY <1>6 DEF LoadedFromBin, HardDelete, history
<1>7. ASSUME NEW k \in Purgers, NEW p \in Photos, HardDeleteFails(k, p) PROVE LoadedFromBin'
  BY <1>7 DEF LoadedFromBin, HardDeleteFails, photoVars, history
<1>8. ASSUME NEW h \in Phones, UploadStep(h) PROVE LoadedFromBin'
  <2>1. Store(h) \/ UNCHANGED <<row, batch, restored>>
    BY <1>8 DEF UploadStep, Send, Reject, FindDuplicate, EnqueueUpload, SkipAnalysis, RefuseJob,
      UploadFails, Holds, Answer, photoVars, purgeVars, history
  <2>2. QED
    BY <1>1, <1>2, <2>1
<1>9. ASSUME NEW j \in Jobs, WorkerStep(j) \/ JobStep(j) PROVE LoadedFromBin'
  <2>1. UNCHANGED <<row, batch, restored>>
    BY <1>9 DEF WorkerStep, JobStep, Claim, Load, Analyse, Exhaust, Raise, Complete, TaskFails,
      Recover, Fail, RetryJob, ForgetJob, EndsIn, photoVars, purgeVars, history
  <2>2. QED
    BY <1>1, <2>1
<1>10. ASSUME NEW p \in Photos, Reprocess(p) PROVE LoadedFromBin'
  BY <1>1, <1>10 DEF Reprocess, purgeVars
<1>11. CASE UNCHANGED vars
  BY <1>1, <1>11 DEF vars, photoVars, purgeVars, history
<1>12. QED
  BY <1>3, <1>4, <1>5, <1>6, <1>7, <1>8, <1>9, <1>10, <1>11 DEF Next, ManagerStep, PurgeStep

\* "Photo must be moved to the recycle bin before permanent deletion" holds of every
\* photo that was not restored while a purge had it in hand.
THEOREM PurgesSpareTheRest == Spec => DestroyedWasRestored
<1> DEFINE Spared == \A p \in Photos : row[p] = "live" /\ row'[p] = "gone" => p \in restored
<1>1. Init => LoadedFromBin
  BY DEF Init, LoadedFromBin
<1>2. TypeOK /\ LoadedFromBin /\ [Next]_vars => Spared
  <2> SUFFICES ASSUME TypeOK, LoadedFromBin, [Next]_vars,
                      NEW p \in Photos, row[p] = "live", row'[p] = "gone"
               PROVE  p \in restored
    OBVIOUS
  <2>1. PICK k \in Purgers, q \in Photos : HardDelete(k, q)
    BY DEF Next, UploadStep, WorkerStep, JobStep, ManagerStep, PurgeStep, Send, Reject, FindDuplicate,
      Store, EnqueueUpload, SkipAnalysis, RefuseJob, UploadFails, Claim, Load, Analyse, Exhaust, Raise,
      Complete, TaskFails, Recover, Fail, RetryJob, ForgetJob, EndsIn, Holds, Answer, Trash, Restore,
      Reprocess, LoadBin, HardDeleteFails, vars, photoVars, TypeOK, PhotosOK
  <2>2. p = q /\ p \in batch[k]
    BY <2>1 DEF HardDelete, TypeOK, PhotosOK
  <2>3. QED
    BY <2>2 DEF LoadedFromBin
<1>3. QED
  BY <1>1, <1>2, BinStep, TypeCorrect, PTL DEF Spec, DestroyedWasRestored

\* A worker that loaded the photo before it was analysed has a rival for it, since a
\* worker that analyses stops analysing.
LEMMA RivalStep ==
  TypeOK /\ JobsLinked /\ UploadsLinked /\ OvertakenByRival /\ [Next]_vars => OvertakenByRival'
<1> SUFFICES ASSUME TypeOK, JobsLinked, UploadsLinked, OvertakenByRival, [Next]_vars
             PROVE  OvertakenByRival'
  OBVIOUS
<1> USE NoSuchPhoto DEF TypeOK, PhotosOK, JobsOK, UploadsOK, JobsLinked, UploadsLinked, OvertakenByRival,
    JobsOf
<1>1. ASSUME UNCHANGED <<tags, about, workVars>> PROVE OvertakenByRival'
  BY <1>1 DEF workVars
<1>2. ASSUME NEW p \in Photos, EnqueueFor(p), UNCHANGED workVars, UNCHANGED tags
      PROVE  OvertakenByRival'
  <2>1. PICK j \in Jobs : work[j] = "none" /\ about[j] = NoPhoto /\ about' = [about EXCEPT ![j] = p]
    BY <1>2, EnqueueAdds
  <2>2. QED
    BY <1>2, <2>1 DEF workVars
<1>3. ASSUME NEW h \in Phones, UploadStep(h) PROVE OvertakenByRival'
  <2>1. CASE EnqueueUpload(h)
    BY <1>2, <2>1 DEF EnqueueUpload, Answer, photoVars
  <2>2. CASE RefuseJob(h)
    BY <2>2 DEF RefuseJob, Answer, jobVars, workVars
  <2>3. CASE UNCHANGED <<tags, about, workVars>>
    BY <1>1, <2>3
  <2>4. QED
    BY <1>3, <2>1, <2>2, <2>3 DEF UploadStep, Send, Reject, FindDuplicate, Store, SkipAnalysis,
      UploadFails, Holds, Answer, photoVars, jobVars
<1>4. ASSUME NEW j \in Jobs, WorkerStep(j) PROVE OvertakenByRival'
  <2>1. CASE Claim(j)
    BY <2>1 DEF Claim, photoVars
  <2>2. CASE Load(j)
    BY <2>2 DEF Load, photoVars, jobVars
  <2>3. CASE Analyse(j)
    BY <2>3 DEF Analyse, EndsIn, jobVars, NothingSeen
  <2>4. CASE Exhaust(j)
    BY <2>4 DEF Exhaust, EndsIn, jobVars, NothingSeen
  <2>5. CASE Raise(j)
    BY <2>5 DEF Raise, EndsIn, jobVars, NothingSeen
  <2>6. CASE Complete(j)
    BY <2>6 DEF Complete, photoVars
  <2>7. CASE TaskFails(j) \/ Recover(j)
    <3>1. /\ work' = [work EXCEPT ![j] = "none"] /\ UNCHANGED <<tags, about>>
          /\ seen' = [seen EXCEPT ![j] = NothingSeen]
      BY <2>7 DEF TaskFails, Recover, Fail
    <3>2. QED
      BY <3>1 DEF NothingSeen
  <2>8. QED
    BY <1>4, <2>1, <2>2, <2>3, <2>4, <2>5, <2>6, <2>7 DEF WorkerStep
<1>5. ASSUME NEW j \in Jobs, JobStep(j) PROVE OvertakenByRival'
  BY <1>1, <1>5 DEF JobStep, RetryJob, ForgetJob, photoVars
<1>6. ASSUME NEW p \in Photos, ManagerStep(p) PROVE OvertakenByRival'
  BY <1>1, <1>2, <1>6 DEF ManagerStep, Trash, Restore, Reprocess, jobVars
<1>7. ASSUME NEW k \in Purgers, NEW p \in Photos, HardDelete(k, p) PROVE OvertakenByRival'
  BY <1>7 DEF HardDelete, workVars
<1>8. ASSUME NEW k \in Purgers, PurgeStep(k) PROVE OvertakenByRival'
  BY <1>1, <1>7, <1>8 DEF PurgeStep, LoadBin, HardDeleteFails, photoVars, jobVars
<1>9. CASE UNCHANGED vars
  BY <1>1, <1>9 DEF vars, photoVars, jobVars
<1>10. QED
  BY <1>3, <1>4, <1>5, <1>6, <1>8, <1>9 DEF Next

\* "A failed reprocess must not destroy the last good analysis" holds of every photo
\* that has one job, however often it fails and is tried again; only the refusal of an
\* upload that was sent again may overwrite it.
THEOREM AnalysisOutlivesFailures == Spec => AnalysisLostToRival
<1> DEFINE Kept ==
      \A p \in Photos :
        tags[p] = "analysis" /\ row'[p] /= "gone" /\ tags'[p] /= "analysis"
          => tags'[p] = "refused" \/ \E i, j \in JobsOf(p) : i /= j
<1>1. Init => OvertakenByRival
  BY DEF Init, OvertakenByRival
<1>2. PhotoInv /\ OvertakenByRival /\ [Next]_vars => OvertakenByRival'
  BY RivalStep DEF PhotoInv
<1>3. PhotoInv /\ OvertakenByRival /\ [Next]_vars => Kept
  <2> SUFFICES ASSUME PhotoInv, OvertakenByRival, [Next]_vars, NEW p \in Photos,
                      tags[p] = "analysis", row'[p] /= "gone", tags'[p] /= "analysis"
               PROVE  tags'[p] = "refused" \/ \E i, j \in JobsOf(p) : i /= j
    OBVIOUS
  <2> USE DEF PhotoInv, TypeOK, PhotosOK, JobsOK
  <2>1. \/ \E h \in Phones : RefuseJob(h)
        \/ \E j \in Jobs : Analyse(j) \/ Exhaust(j) \/ Raise(j)
        \/ \E k \in Purgers, q \in Photos : HardDelete(k, q)
    BY DEF Next, UploadStep, WorkerStep, JobStep, ManagerStep, PurgeStep, Send, Reject, FindDuplicate,
      Store, EnqueueUpload, SkipAnalysis, UploadFails, Claim, Load,
      Complete, TaskFails, Recover, Fail, RetryJob, ForgetJob, Holds, Answer, Trash, Restore,
      Reprocess, LoadBin, HardDeleteFails, vars, photoVars
  <2>2. ASSUME NEW h \in Phones, RefuseJob(h) PROVE tags'[p] = "refused"
    BY <2>2 DEF RefuseJob
  <2>3. ASSUME NEW j \in Jobs, Exhaust(j) PROVE \E i, k \in JobsOf(p) : i /= k
    <3>1. p = about[j] /\ work[j] = "analysing" /\ seen[j].tags /= "analysis"
      BY <2>3 DEF Exhaust
    <3>2. PICK i \in JobsOf(about[j]) : i /= j
      BY <3>1 DEF OvertakenByRival
    <3>3. QED
      BY <3>1, <3>2 DEF JobsOf
  <2>4. ASSUME NEW j \in Jobs, Analyse(j) \/ Raise(j) PROVE FALSE
    BY <2>4 DEF Analyse, Raise
  <2>5. ASSUME NEW k \in Purgers, NEW q \in Photos, HardDelete(k, q) PROVE FALSE
    BY <2>5 DEF HardDelete, Queue!Withdraw, JobsOf
  <2>6. QED
    BY <2>1, <2>2, <2>3, <2>4, <2>5
<1>4. QED
  BY <1>1, <1>2, <1>3, PhotoInvariant, PTL DEF Spec, AnalysisLostToRival

-----------------------------------------------------------------------------
(* RoleReviews *)

Facts == {Unseen} \cup GatedFacts \cup SeenFacts

CountResults ==
  {r \in [status : {"pass", "flagged", "not_enough"}, number : Numbers \cup {NoNumber},
          low : BOOLEAN, refused : BOOLEAN] : r.refused => r.low}

RolesInv ==
  /\ found \in Facts
  /\ direct = NoReview \/ direct \in CountResults
  /\ told /= Untold => found /= Unseen
  /\ NumberIsCounted
  /\ DoubtIsHigh

\* Facts, of whatever origin, have the fields that the rules read.
LEMMA FactsFit ==
  ASSUME NEW f \in GatedFacts \cup SeenFacts
  PROVE  /\ f.issues \subseteq IssueFields
         /\ f.low \in BOOLEAN /\ f.limited \in BOOLEAN /\ f.unclear \in BOOLEAN
         /\ f.alarm \in BOOLEAN /\ f.listed \in BOOLEAN
         /\ f.low => f.limited
<1>1. ASSUME f \in SeenFacts
      PROVE  /\ f \in [step : {"seen"}, kind : {"project", "invoice"},
                       people : Numbers \cup {NoNumber}, listed : BOOLEAN,
                       issues : SUBSET IssueFields, low : BOOLEAN, limited : BOOLEAN,
                       unclear : BOOLEAN, alarm : BOOLEAN, actions : BOOLEAN]
             /\ f.low => f.limited
  BY <1>1 DEF SeenFacts
<1>2. CASE f \in SeenFacts
  BY <1>1, <1>2
<1>3. CASE f \in GatedFacts
  <2>1. PICK k \in {"project", "invoice"}, u \in BOOLEAN :
          f = [step |-> "gated", kind |-> k, people |-> 0, listed |-> FALSE, issues |-> {},
               low |-> TRUE, limited |-> TRUE, unclear |-> u, alarm |-> FALSE,
               actions |-> FALSE]
    BY <1>3 DEF GatedFacts
  <2>2. QED
    BY <2>1
<1>4. QED
  BY <1>2, <1>3

LEMMA CountFits ==
  ASSUME RoleConstants, Count
  PROVE  direct' \in CountResults
<1>1. CASE direct' = [status |-> "not_enough", number |-> NoNumber, low |-> TRUE,
                      refused |-> FALSE]
  BY <1>1 DEF CountResults
<1>2. ASSUME NEW answer \in CountAnswers, direct' = Gated(Normalized(answer))
      PROVE  direct' \in CountResults
  <2>1. PICK a \in CountAnswers : a = Normalized(answer)
    BY DEF CountAnswers, Normalized
  <2>2. Refused(a) \in BOOLEAN /\ a.low \in BOOLEAN
    BY DEF Refused, CountAnswers
  <2>3. QED
    BY <1>2, <2>1, <2>2 DEF Gated, CountResults, CountAnswers
<1>3. QED
  BY <1>1, <1>2 DEF Count

\* What warns the manager, once the reviews are merged.
LEMMA IssuesOfReviews ==
  ASSUME found \in GatedFacts \cup SeenFacts, direct = NoReview \/ direct \in CountResults
  PROVE  Issues(Merged) /= {} <=>
           \/ found.issues /= {} \/ found.limited \/ found.unclear \/ found.alarm
           \/ direct /= NoReview /\ direct.status = "flagged"
<1> DEFINE roles == {"visible_people_count", "safety", "quality", "missing_photo_evidence",
                     "duplicate_low_value", "chief_ai_review"}
<1>1. /\ found.issues \subseteq IssueFields
      /\ found.low \in BOOLEAN /\ found.limited \in BOOLEAN /\ found.unclear \in BOOLEAN
      /\ found.alarm \in BOOLEAN
      /\ found.low => found.limited
  BY FactsFit
<1>2. DOMAIN Merged = roles /\ DOMAIN RuleReviews = roles
  BY DEF Merged, RuleReviews
<1>3. \A raised \in BOOLEAN : Flag(raised).status = "flagged" <=> raised
  BY DEF Flag
<1>4. /\ Merged["safety"] = SafetyRule /\ Merged["quality"] = QualityRule
      /\ Merged["missing_photo_evidence"] = GapRule
      /\ Merged["duplicate_low_value"] = LowValueRule
      /\ Merged["chief_ai_review"] = ChiefRule
      /\ Merged["visible_people_count"] = IF direct /= NoReview THEN direct ELSE CountRule
  BY DEF Merged, RuleReviews
<1>5. /\ Merged["safety"].status = "flagged" => found.issues /= {}
      /\ Merged["quality"].status = "flagged" => found.issues /= {}
  BY <1>3, <1>4 DEF SafetyRule, QualityRule
<1>6. /\ Merged["missing_photo_evidence"].status = "flagged" <=> found.limited
      /\ Merged["duplicate_low_value"].status = "flagged" <=> found.unclear
  BY <1>1, <1>3, <1>4 DEF GapRule, LowValueRule
<1>7. Merged["chief_ai_review"].status = "flagged" <=>
        found.alarm /\ found.issues \subseteq {"housekeeping"}
  <2> DEFINE alarmed == found.alarm /\ found.issues \subseteq {"housekeeping"}
  <2>1. ~(found.low /\ ~found.limited)
    BY <1>1
  <2>2. CASE alarmed
    BY <1>3, <1>4, <2>2 DEF ChiefRule
  <2>3. CASE ~alarmed
    <3>1. ChiefRule = [status |-> "pass", number |-> NoNumber, low |-> FALSE, refused |-> FALSE]
      BY <2>1, <2>3, Zenon DEF ChiefRule
    <3>2. QED
      BY <1>4, <2>3, <3>1
  <2>4. QED
    BY <2>2, <2>3
<1>8. Merged["visible_people_count"].status = "flagged" <=>
        direct /= NoReview /\ direct.status = "flagged"
  BY <1>4 DEF CountRule
<1>9. Issues(Merged) /= {} <=>
        found.issues /= {} \/ \E role \in roles : Merged[role].status = "flagged"
  BY <1>2 DEF Issues
<1>10. QED
  BY <1>1, <1>5, <1>6, <1>7, <1>8, <1>9

LEMMA AttachHolds ==
  ASSUME RoleConstants, RolesInv, Attach
  PROVE  RolesInv'
<1>1. PICK recheck \in BOOLEAN :
        told' = [step |-> "told", people |-> PeopleShown(Merged), value |-> ManagerValue(Merged),
                 usable |-> Usable(recheck)]
  BY DEF Attach
<1>2. /\ found \in GatedFacts \cup SeenFacts /\ found /= Unseen
      /\ direct = NoReview \/ direct \in CountResults
      /\ UNCHANGED <<found, direct>>
  BY DEF Attach, RolesInv, Facts
<1>3. Merged["visible_people_count"] = IF direct /= NoReview THEN direct ELSE CountRule
  BY DEF Merged, RuleReviews
<1>4. NumberIsCounted'
  <2>1. told'.people = PeopleShown(Merged)
    BY <1>1
  <2>2. told'.people.number = IF direct /= NoReview THEN direct.number ELSE found.people
    BY <1>3, <2>1 DEF PeopleShown, CountRule
  <2>3. told'.people.sure => direct = NoReview \/ ~direct.refused
    <3>1. CASE direct /= NoReview
      <4>1. direct.low \in BOOLEAN /\ direct.refused \in BOOLEAN
        BY <1>2, <3>1 DEF CountResults
      <4>2. direct.refused => direct.low
        BY <1>2, <3>1 DEF CountResults
      <4>3. told'.people.sure => ~direct.low
        <5>1. CASE direct.number = NoNumber
          BY <1>3, <2>1, <3>1, <5>1 DEF PeopleShown
        <5>2. CASE direct.number /= NoNumber
          <6>1. told'.people = [number |-> direct.number, sure |-> ~direct.low]
            BY <1>3, <2>1, <3>1, <5>2, Zenon DEF PeopleShown
          <6>2. PICK sure \in BOOLEAN : sure <=> ~direct.low
            BY <4>1
          <6>3. told'.people = [number |-> direct.number, sure |-> sure]
            BY <4>1, <6>1, <6>2
          <6>4. QED
            BY <6>2, <6>3
        <5>3. QED
          BY <5>1, <5>2
      <4>4. QED
        BY <4>2, <4>3
    <3>2. QED
      BY <3>1
  <2>4. QED
    BY <1>2, <2>2, <2>3 DEF NumberIsCounted
<1>5. DoubtIsHigh'
  <2>1. found.low \in BOOLEAN /\ (found.low => found.limited)
    BY <1>2, FactsFit
  <2>2. told'.value = ManagerValue(Merged)
    BY <1>1
  <2>3. /\ told'.value /= "low"
        /\ told'.value = "high" <=> Issues(Merged) /= {}
    BY <1>2, <2>1, <2>2, IssuesOfReviews DEF ManagerValue
  <2>4. told'.usable => /\ found.issues \subseteq {"quality"} => found.listed
                        /\ found.alarm => "defects" \in found.issues
    BY <1>1 DEF Usable, Polluted, SafetyLacking
  <2>5. QED
    BY <1>2, <2>3, <2>4, IssuesOfReviews DEF DoubtIsHigh
<1>6. QED
  BY <1>2, <1>4, <1>5 DEF RolesInv, Facts

\* What a manager reads follows from the facts and the count of the photo, and both are
\* settled before it is told.
THEOREM RolesInvariant == RolesSpec => []RolesInv
<1>0. RoleConstants
  BY RoleConstants DEF RoleConstants
<1>1. RolesInit => RolesInv
  BY DEF RolesInit, RolesInv, Facts, NumberIsCounted, DoubtIsHigh
<1>2. ASSUME RolesInv, [RolesNext]_roleVars PROVE RolesInv'
  <2>1. CASE LookAt
    <3>1. told = Untold /\ told' = Untold /\ direct' = direct
      BY <1>2, <2>1 DEF LookAt, RolesInv
    <3>2. found' \in Facts
      BY <2>1 DEF LookAt, Facts
    <3>3. QED
      BY <1>2, <3>1, <3>2 DEF RolesInv, NumberIsCounted, DoubtIsHigh, Untold
  <2>2. CASE Count
    <3>1. told = Untold /\ told' = Untold /\ found' = found
      BY <2>2 DEF Count
    <3>2. direct' \in CountResults
      BY <1>0, <2>2, CountFits
    <3>3. QED
      BY <1>2, <3>1, <3>2 DEF RolesInv, NumberIsCounted, DoubtIsHigh, Untold
  <2>3. CASE Attach
    BY <1>0, <1>2, <2>3, AttachHolds
  <2>4. CASE UNCHANGED roleVars
    BY <1>2, <2>4 DEF roleVars, RolesInv, NumberIsCounted, DoubtIsHigh
  <2>5. QED
    BY <1>2, <2>1, <2>2, <2>3, <2>4 DEF RolesNext
<1>3. QED
  BY <1>1, <1>2, PTL DEF RolesSpec

\* The number of people that a manager reads is the direct count's own, or the one in the
\* facts of a photo that nothing counts, and never for certain if the evidence gate has
\* refused it (_manager_people_count, _merge_role_review_override).
THEOREM ManagersReadTheCount == RolesSpec => []NumberIsCounted
<1>1. RolesInv => NumberIsCounted
  BY DEF RolesInv
<1>2. QED
  BY <1>1, RolesInvariant, PTL

\* A doubt about a photo makes its value high, never low, and what is usable has something on
\* safety or on people (build_manager_evidence_summary, inspect_ai_pollution).
THEOREM DoubtsAreIssues == RolesSpec => []DoubtIsHigh
<1>1. RolesInv => DoubtIsHigh
  BY DEF RolesInv
<1>2. QED
  BY <1>1, RolesInvariant, PTL

=============================================================================
