--------------------------- MODULE MCAttribution ---------------------------
(* Two runs or a Retry, and events read while they start and end.          *)
EXTENDS Attribution
=============================================================================
