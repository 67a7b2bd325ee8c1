------------------------- MODULE MCNetpolLifecycle --------------------------
EXTENDS NetpolLifecycle, MCNetpolSync
=============================================================================
