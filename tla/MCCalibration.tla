--------------------------- MODULE MCCalibration ----------------------------
(* Instances of Calibration for TLC: the camera modules are interchangeable. *)
EXTENDS Calibration, TLC

Symmetry == Permutations(Modules)
=============================================================================
