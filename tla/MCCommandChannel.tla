-------------------------- MODULE MCCommandChannel --------------------------
(* CommandChannel for TLC: two commands, a change of the entity by others and *)
(* one failure, besides a bridge that may not be reachable at first.          *)
EXTENDS CommandChannel
=============================================================================
