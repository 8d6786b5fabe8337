----------------------------- MODULE MCCommServer -----------------------------
EXTENDS CommServer

CONSTANTS uHelm, sSensor

Both == {uHelm, sSensor}

==============================================================================
