------------------------------ MODULE MCUploads ------------------------------
(* Instances of UploadQuota, PhoneQueue and MediaAsset for TLC: what a photo   *)
(* passes on its way in, and what becomes of a video.  They share no state, so *)
(* one run checks them side by side instead of in all their interleavings:     *)
(* `moving` names the one that moves, from the initial state on.               *)
EXTENDS UploadQuota, PhoneQueue, MediaAsset

VARIABLE moving

allVars == <<moving, vars, phoneVars, assetVars>>

AllInit ==
  /\ moving \in {"quota", "phone", "asset"}
  /\ Init /\ PhoneInit /\ AssetInit
  /\ moving /= "quota" => ~private
  /\ moving /= "phone" => refused = {}

QuotaMoves ==
  moving = "quota" /\ Next /\ UNCHANGED <<moving, phoneVars, assetVars>>
PhoneMoves ==
  moving = "phone" /\ PhoneNext /\ UNCHANGED <<moving, vars, assetVars>>
AssetMoves ==
  moving = "asset" /\ AssetNext /\ UNCHANGED <<moving, vars, phoneVars>>

AllNext == QuotaMoves \/ PhoneMoves \/ AssetMoves

AllSpec ==
  /\ AllInit /\ [][AllNext]_allVars
  /\ \/ moving = "quota" /\ Fairness
     \/ moving = "phone" /\ PhoneFairness
     \/ moving = "asset" /\ AssetFairness

=============================================================================
