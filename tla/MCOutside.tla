------------------------------ MODULE MCOutside ------------------------------
(* Instances of AIBackends, AIRateLimiter, AIConcurrencyLimiter and IPCamera   *)
(* for TLC: what the program calls and may not get an answer from, the models  *)
(* and the cameras.  They share no state, so one run checks them side by side: *)
(* `moving` names the one that moves, from the initial state on.               *)
EXTENDS AIBackends, AIRateLimiter, AIConcurrencyLimiter, IPCamera

VARIABLE moving

outsideVars == <<moving, backendVars, rateVars, limiterVars, cameraVars>>

\* The first of three backends has twice the weight of the others.
TwoToOne == <<2, 1, 1>>

OutsideInit ==
  /\ moving \in {"backends", "rate", "limiter", "camera"}
  /\ BackendsInit /\ RateInit /\ LimiterInit /\ CameraInit
  /\ moving /= "rate" => rate = MinRate
  /\ moving /= "limiter" => limit = MinLimit
  /\ moving /= "camera" => camera.url = 1 /\ camera.enabled

BackendsMove ==
  /\ moving = "backends" /\ BackendsNext
  /\ UNCHANGED <<moving, rateVars, limiterVars, cameraVars>>
RateMoves ==
  /\ moving = "rate" /\ RateNext
  /\ UNCHANGED <<moving, backendVars, limiterVars, cameraVars>>
LimiterMoves ==
  /\ moving = "limiter" /\ LimiterNext
  /\ UNCHANGED <<moving, backendVars, rateVars, cameraVars>>
CameraMoves ==
  /\ moving = "camera" /\ CameraNext
  /\ UNCHANGED <<moving, backendVars, rateVars, limiterVars>>

OutsideNext == BackendsMove \/ RateMoves \/ LimiterMoves \/ CameraMoves

OutsideSpec ==
  /\ OutsideInit /\ [][OutsideNext]_outsideVars
  /\ \/ moving = "backends" /\ BackendsFairness
     \/ moving = "rate"
     \/ moving = "limiter" /\ LimiterFairness
     \/ moving = "camera" /\ CameraFairness

=============================================================================
