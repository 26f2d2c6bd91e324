--------------------------------- MODULE MCPool ---------------------------------
EXTENDS Pool

CONSTANTS q1, q2, none, challenge
================================================================================
