------------------------ MODULE MCEffectConsumption ------------------------
(* EffectConsumption for TLC, whose run is without symmetry: it checks     *)
(* liveness.                                                               *)
EXTENDS EffectConsumption
=============================================================================
