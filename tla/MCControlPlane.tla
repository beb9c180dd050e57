-------------------------- MODULE MCControlPlane --------------------------
(* Instances of ControlPlane for TLC.  Requests in progress are              *)
(* interchangeable; exports are not, a function of them being enumerated.    *)
EXTENDS ControlPlane, TLC

Interchangeable == Permutations(Workers)
=============================================================================
