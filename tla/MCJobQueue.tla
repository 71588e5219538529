----------------------------- MODULE MCJobQueue -----------------------------
(* Instances of JobQueue for TLC: which job is about which target. *)
EXTENDS JobQueue, TLC

CONSTANTS w1, w2, w3, t1

\* Two jobs about the same target: a video whose upload was sent twice.
Shared == <<t1, t1>>
SingleJob == <<t1>>

OneVideo == t1 :> "media_asset"
OnePhoto == t1 :> "photo"
OneProgressReport == t1 :> "progress_report"

\* The later job has the higher priority.
Rising == <<1, 2>>
One == <<1>>

WorkerSymmetry == Permutations(Workers)
=============================================================================
