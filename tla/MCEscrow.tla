------------------------------- MODULE MCEscrow -------------------------------
EXTENDS Escrow

CONSTANTS a, b, r, none

MCOutputs == [x \in Blocks |-> 1]
MCBlockDaa == [x \in Blocks |-> 0]
MCDust == {<<a, 1>>}
================================================================================
