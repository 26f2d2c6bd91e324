------------------------------- MODULE MCStartup -------------------------------
EXTENDS Startup

CONSTANTS auto, none

(* Around every floor, one or two GPUs, or nothing known.                  *)
Sizes == {1999, 4999, 5000, 7999, 8000, 23999, 24000, 29999, 30000}
MCRigs == {<<>>} \cup {<<v>> : v \in Sizes} \cup {<<v, w>> : v, w \in Sizes}
MCFreshRigs == {<<4999>>, <<7999>>}
================================================================================
