--------------------------- MODULE MCCatalogSync ---------------------------
(* Instance of CatalogSync for TLC: an export that may be renamed and one    *)
(* that is there or not.                                                     *)
EXTENDS CatalogSync, TLC

CONSTANTS x, y, u

MCData == (x :> {[name |-> 1], [name |-> 2]}) @@ (y :> {[name |-> 1]})
=============================================================================
