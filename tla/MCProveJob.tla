----------------------------- MODULE MCProveJob -----------------------------
EXTENDS ProveJob
=============================================================================
