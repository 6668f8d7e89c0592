------------------------ MODULE MCSpacesReplication ------------------------
(* Instances of SpacesReplication for TLC: the model values of its cfgs. *)
EXTENDS SpacesReplication

CONSTANTS m1, m2, alice, text

============================================================================
