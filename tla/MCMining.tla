------------------------------- MODULE MCMining -------------------------------
EXTENDS Mining

CONSTANTS gpu, cpu, low, full
================================================================================
