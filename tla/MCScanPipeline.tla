--------------------------- MODULE MCScanPipeline ---------------------------
(* Four checks of two children in two categories that they share.         *)
EXTENDS ScanPipeline

CONSTANTS headers, meta, vitals, render

MCChecks   == {headers, meta, vitals, render}
MCOwner    == [c \in MCChecks |-> IF c \in {headers, meta} THEN "http" ELSE "browser"]
MCCategory == [c \in MCChecks |-> IF c = headers THEN "http" ELSE "aeo"]
=============================================================================
