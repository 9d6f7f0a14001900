--------------------------- MODULE MCScanPipeline ---------------------------
(* ScanPipeline on a small instance.                                        *)
EXTENDS ScanPipeline
=============================================================================
