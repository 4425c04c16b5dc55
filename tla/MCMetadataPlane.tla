------------------------- MODULE MCMetadataPlane -------------------------
(* Two notebooks: enough for a snapshot to reach another one than the      *)
(* kernel was hydrated from, and a confirmation another one's watchdog.    *)
EXTENDS MetadataPlane

CONSTANTS n1, n2

MCNotebooks == {n1, n2}
=============================================================================
