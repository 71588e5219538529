-------------------------- MODULE MCPhotoLifecycle --------------------------
(* Instances of PhotoLifecycle for TLC: all the phones send one picture.      *)
(* `scene` says of a behaviour, from its initial state on, which of three     *)
(* crowds it shows: phones that send while nothing is purged, one photo with  *)
(* all that workers, managers and purges do to it, or what one analysis makes *)
(* its manager read (RoleReviews), which none of the others touches.          *)
EXTENDS PhotoLifecycle, RoleReviews, TLC

CONSTANT Picture

SamePicture == [h \in Phones |-> Picture]
AnyPhone == Permutations(Phones)

VARIABLE scene

SceneInit == Init /\ RolesInit /\ scene \in {"phones", "photo", "reviews"}

PhonesSend ==
  /\ scene = "phones"
  /\ Next
  /\ UNCHANGED <<scene, purgeVars, roleVars>>
  /\ Cardinality({j \in Jobs : phase'[j] /= "unknown"}) <= 1

PhotoLives ==
  /\ scene = "photo"
  /\ Next
  /\ UNCHANGED <<scene, roleVars>>
  /\ Cardinality({p \in Photos : row'[p] /= "none"}) <= 1
  /\ Cardinality({h \in Phones : sends'[h] > 0}) <= 1

ManagerReads ==
  /\ scene = "reviews"
  /\ RolesNext
  /\ UNCHANGED <<scene, vars>>

SceneNext == PhonesSend \/ PhotoLives \/ ManagerReads

SceneSpec == SceneInit /\ [][SceneNext]_<<vars, roleVars, scene>>

=============================================================================
