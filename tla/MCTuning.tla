-------------------------------- MODULE MCTuning --------------------------------
(* Machines at the bounds of hardware.py, between the presets and past them. *)
EXTENDS Tuning

MCMachines ==
  {[vcpu |-> v, ram |-> r] :
     <<v, r>> \in {<<1, 1>>, <<256, 1>>, <<12, 48>>, <<40, 512>>, <<0, 16>>, <<4, 5000>>}}
=============================================================================
