------------------------------- MODULE MCRandomX -------------------------------
EXTENDS RandomX

CONSTANTS w1, w2, s1, s2, none, closed
================================================================================
