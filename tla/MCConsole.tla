----------------------------- MODULE MCConsole ------------------------------
EXTENDS Console, TLC
CONSTANTS l1, l2, ca, cb, a, b
MCClusterOf == ca :> a @@ cb :> b
=============================================================================
