--------------------------- MODULE MCExportPlane ---------------------------
(* Instances of PlaneViews for TLC.                                          *)
EXTENDS PlaneViews, TLC

CONSTANTS a, b, t1, t2

\* A light that may become an outlet, and a contact: types within one cluster.
TypesWithinKind == (a :> {"light", "plug"}) @@ (b :> {"contact"})
\* An export that Home Assistant retypes from a light to a contact and back.
TypesAcrossKinds == a :> {"light", "contact"}
=============================================================================
