--------------------------- MODULE PolicyRegister ---------------------------
(***************************************************************************)
(* What the kernel takes for granted of a tenant's policy (ActivatePolicy  *)
(* of Kernel): at every moment one version, or none yet, is in force;      *)
(* another may take its place in one step, and what has been replaced      *)
(* never governs again - neither an old version nor the state without one, *)
(* in which every action is allowed by default.                            *)
(***************************************************************************)
CONSTANTS Versions, NONE

VARIABLES
  inForce,   (* the version an action resolved now is checked against        *)
  replaced   (* what was in force before                                     *)

Init ==
  /\ inForce = NONE
  /\ replaced = {}

Activate(v) ==
  /\ v \notin replaced \cup {inForce}
  /\ replaced' = replaced \cup {inForce}
  /\ inForce' = v

Next == \E v \in Versions : Activate(v)

Spec == Init /\ [][Next]_<<inForce, replaced>>
=============================================================================
