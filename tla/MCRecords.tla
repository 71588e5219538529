------------------------------ MODULE MCRecords ------------------------------
(* Instances for TLC of the modules about files and rows that several requests *)
(* and processes write: who overwrites whom, and what a reader then finds.     *)
(* They share no state, so one run checks them side by side: `moving` names    *)
(* the one that moves, from the initial state on.                              *)
EXTENDS
  MediaUpload, EvidenceBundle, PhotoLens, ExpressionArtifacts, FactSummaries,
  PhotoReview, ReviewTasks, Reports, PromptRegistry, ShadowBatches, ReceiptAttribution,
  PromptParity, GoldenReplay, TextSections

VARIABLE moving

recordVars ==
  <<moving, uploadVars, evidenceVars, lensVars, expressionVars, summaryVars, reviewVars,
    taskVars, reportVars, registryVars, batchVars, attributionVars, parityVars, replayVars,
    sectionVars>>

FirstName == CHOOSE f \in FileNames : TRUE

RecordsInit ==
  /\ moving \in {"upload", "evidence", "lens", "expression", "summary", "review", "task",
                 "report", "registry", "batch", "attribution", "parity", "replay", "sections"}
  /\ UploadInit /\ Init /\ BundleInit /\ LensInit /\ SummariesInit
  /\ TaskInit /\ ReportInit /\ ParityInit /\ SectionsInit
  /\ ExpressionInit /\ (moving /= "expression" => kind = "manager")
  /\ ReviewInit /\ (moving /= "review" => photo.visible)
  /\ RegistryInit /\ (moving /= "registry" => Empty)
  /\ BatchesInit /\ (moving /= "batch" => receiptAge = [s \in Sites |-> "none"])
  /\ ReplayInit /\ (moving /= "replay" => type = "employee")
  /\ AttributionInit
  /\ moving /= "attribution" =>
       /\ photoSite = Nowhere /\ staffSite = NoSite
       /\ \A c \in Commands : fileOf[c] = FirstName

UploadMoves ==
  /\ moving = "upload" /\ UploadNext
  /\ UNCHANGED <<moving, evidenceVars, lensVars, expressionVars, summaryVars, reviewVars,
                 taskVars, reportVars, registryVars, batchVars, attributionVars, parityVars,
                 replayVars, sectionVars>>
EvidenceMoves ==
  /\ moving = "evidence" /\ EvidenceNext
  /\ UNCHANGED <<moving, uploadVars, lensVars, expressionVars, summaryVars, reviewVars,
                 taskVars, reportVars, registryVars, batchVars, attributionVars, parityVars,
                 replayVars, sectionVars>>
LensMoves ==
  /\ moving = "lens" /\ LensNext
  /\ UNCHANGED <<moving, uploadVars, evidenceVars, expressionVars, summaryVars, reviewVars,
                 taskVars, reportVars, registryVars, batchVars, attributionVars, parityVars,
                 replayVars, sectionVars>>
ExpressionMoves ==
  /\ moving = "expression" /\ ExpressionNext
  /\ UNCHANGED <<moving, uploadVars, evidenceVars, lensVars, summaryVars, reviewVars,
                 taskVars, reportVars, registryVars, batchVars, attributionVars, parityVars,
                 replayVars, sectionVars>>
SummaryMoves ==
  /\ moving = "summary" /\ SummariesNext
  /\ UNCHANGED <<moving, uploadVars, evidenceVars, lensVars, expressionVars, reviewVars,
                 taskVars, reportVars, registryVars, batchVars, attributionVars, parityVars,
                 replayVars, sectionVars>>
ReviewMoves ==
  /\ moving = "review" /\ ReviewNext
  /\ UNCHANGED <<moving, uploadVars, evidenceVars, lensVars, expressionVars, summaryVars,
                 taskVars, reportVars, registryVars, batchVars, attributionVars, parityVars,
                 replayVars, sectionVars>>
TaskMoves ==
  /\ moving = "task" /\ TaskNext
  /\ UNCHANGED <<moving, uploadVars, evidenceVars, lensVars, expressionVars, summaryVars,
                 reviewVars, reportVars, registryVars, batchVars, attributionVars, parityVars,
                 replayVars, sectionVars>>
ReportMoves ==
  /\ moving = "report" /\ ReportNext
  /\ UNCHANGED <<moving, uploadVars, evidenceVars, lensVars, expressionVars, summaryVars,
                 reviewVars, taskVars, registryVars, batchVars, attributionVars, parityVars,
                 replayVars, sectionVars>>
RegistryMoves ==
  /\ moving = "registry" /\ RegistryNext
  /\ UNCHANGED <<moving, uploadVars, evidenceVars, lensVars, expressionVars, summaryVars,
                 reviewVars, taskVars, reportVars, batchVars, attributionVars, parityVars,
                 replayVars, sectionVars>>
BatchMoves ==
  /\ moving = "batch" /\ BatchesNext
  /\ UNCHANGED <<moving, uploadVars, evidenceVars, lensVars, expressionVars, summaryVars,
                 reviewVars, taskVars, reportVars, registryVars, attributionVars, parityVars,
                 replayVars, sectionVars>>
AttributionMoves ==
  /\ moving = "attribution" /\ AttributionNext
  /\ UNCHANGED <<moving, uploadVars, evidenceVars, lensVars, expressionVars, summaryVars,
                 reviewVars, taskVars, reportVars, registryVars, batchVars, parityVars,
                 replayVars, sectionVars>>

ParityMoves ==
  /\ moving = "parity" /\ ParityNext
  /\ UNCHANGED <<moving, uploadVars, evidenceVars, lensVars, expressionVars, summaryVars,
                 reviewVars, taskVars, reportVars, registryVars, batchVars, attributionVars,
                 replayVars, sectionVars>>

ReplayMoves ==
  /\ moving = "replay" /\ ReplayNext
  /\ UNCHANGED <<moving, uploadVars, evidenceVars, lensVars, expressionVars, summaryVars,
                 reviewVars, taskVars, reportVars, registryVars, batchVars, attributionVars,
                 parityVars, sectionVars>>
SectionMoves ==
  /\ moving = "sections" /\ SectionsNext
  /\ UNCHANGED <<moving, uploadVars, evidenceVars, lensVars, expressionVars, summaryVars,
                 reviewVars, taskVars, reportVars, registryVars, batchVars, attributionVars,
                 parityVars, replayVars>>

RecordsNext ==
  \/ UploadMoves \/ EvidenceMoves \/ LensMoves \/ ExpressionMoves \/ SummaryMoves
  \/ ReviewMoves \/ TaskMoves \/ ReportMoves \/ RegistryMoves \/ BatchMoves \/ AttributionMoves
  \/ ParityMoves \/ ReplayMoves \/ SectionMoves

RecordsSpec == RecordsInit /\ [][RecordsNext]_recordVars

=============================================================================
