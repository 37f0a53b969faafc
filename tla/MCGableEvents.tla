--------------------------- MODULE MCGableEvents ---------------------------
(* Small instances of GableEvents.                                         *)
EXTENDS GableEvents

CONSTANTS e1, e2, e3, e4

mcBacklog == <<e1>>
mcEmpty   == <<>>
=============================================================================
