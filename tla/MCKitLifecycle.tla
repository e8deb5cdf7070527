--------------------------- MODULE MCKitLifecycle ---------------------------
(* Instances of KitLifecycle for TLC: bounds and symmetry are in the cfgs.   *)
EXTENDS KitLifecycle, TLC

Symmetry == Permutations(Jobs) \cup Permutations(Kits) \cup Permutations(Clients)
=============================================================================
