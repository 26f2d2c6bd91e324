------------------------------- MODULE MCDevices -------------------------------
EXTENDS Devices

CONSTANTS t1, t2, none, nobody

\* Rigs: every GPU with the larger model, one with each, and one whose VRAM
\* could not be read, where only device 0 has an entry.
Uniform == [d \in {0, 1} |-> 2]
Mixed == [d \in {0, 1} |-> IF d = 0 THEN 2 ELSE 1]
OnlyFirst == [d \in {0} |-> 2]

Rigs == {Uniform, Mixed, OnlyFirst}
UniformRig == {Uniform}
SingleRig == {OnlyFirst}

\* Memory may run out for the larger model on either device, and for the
\* smaller one on the second, which is then left without a model.
SmallGpus == {<<0, 2>>, <<1, 2>>, <<1, 1>>}
LargerOnFirst == {<<0, 2>>}
================================================================================
