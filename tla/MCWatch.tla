-------------------------------- MODULE MCWatch --------------------------------
EXTENDS Watch

CONSTANTS r1, r2
================================================================================
