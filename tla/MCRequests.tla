------------------------------- MODULE MCRequests -------------------------------
EXTENDS Requests

CONSTANTS t1, t2, t3, m1, m2, none

(* Two transactions with the same payload, and one for another model.      *)
MCTxs == {t1, t2, t3}
MCIdOf == [tx \in MCTxs |-> IF tx = t3 THEN "b" ELSE "a"]
MCModelOf == [id \in {"a", "b"} |-> IF id = "a" THEN m1 ELSE m2]
================================================================================
