------------------------- MODULE MCPortsAndSampling -------------------------
(* TLC values for two parts that share nothing: the serial ports of the     *)
(* desktop program and the board's sampling.  A behaviour is one of either, *)
(* the other part staying as it begins.                                     *)
EXTENDS SerialManager, BoardSampling

VARIABLE part

PartsInit == part \in {"ports", "sampling"} /\ SerialInit /\ SamplingInit

PartsNext ==
  /\ UNCHANGED part
  /\ \/ part = "ports" /\ SerialNext /\ UNCHANGED samplingVars
     \/ part = "sampling" /\ SamplingNext /\ UNCHANGED serialVars

PartsSpec ==
  PartsInit /\ [][PartsNext]_<<part, serialVars, samplingVars>> /\ SerialFairness
=============================================================================
