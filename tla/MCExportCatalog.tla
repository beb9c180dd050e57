-------------------------- MODULE MCExportCatalog --------------------------
(* Instances of ExportCatalog for TLC.  Three exports and two endpoint ids:  *)
(* the counter wraps, skips ids in use, meets deleted ones and runs out of   *)
(* ids, at start-up and in a request.                                        *)
EXTENDS ExportCatalog
=============================================================================
