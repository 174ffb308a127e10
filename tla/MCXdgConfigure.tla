--------------------------- MODULE MCXdgConfigure ---------------------------
\* Instances of XdgConfigure for TLC.
EXTENDS XdgConfigure, TLC

CONSTANTS x1

OneWindow  == {x1}
NoWindow   == {}
=============================================================================
