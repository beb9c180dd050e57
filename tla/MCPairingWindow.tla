-------------------------- MODULE MCPairingWindow --------------------------
(* Instances of PairingWindow for TLC.  Of the time-outs one is raised to    *)
(* the least that is allowed.                                                *)
EXTENDS PairingWindow
=============================================================================
