------------------------------ MODULE LatestValue ------------------------------
(***************************************************************************)
(* What watch.rs promises its users: a register of which each receiver is  *)
(* shown the latest value, values in between being skipped, and which      *)
(* tells every receiver that keeps asking when the sender is gone.  Values *)
(* are named by their version: the n-th value ever put in the register.    *)
(*                                                                         *)
(* A receiver notes the version it believes to have taken (last_observed)  *)
(* and may be handed a newer one than it notes; it is then handed that one *)
(* again, which the users of the channel have to live with.                *)
(***************************************************************************)
EXTENDS Naturals

CONSTANT Receivers    \* the receiving threads

VARIABLES
  version,   \* the version of the value now in the register
  open,      \* FALSE once the sender is dropped
  noted,     \* the version each receiver noted at its last delivery
  seen,      \* the version each receiver was last handed, 0 for none
  told       \* whether a receiver has been told that the channel is closed

vars == <<version, open, noted, seen, told>>

TypeOK ==
  /\ version \in Nat \ {0}
  /\ open \in BOOLEAN
  /\ noted \in [Receivers -> Nat]
  /\ seen \in [Receivers -> Nat]
  /\ told \in [Receivers -> BOOLEAN]

Init ==
  /\ version = 1
  /\ open = TRUE
  /\ noted = [r \in Receivers |-> 0]
  /\ seen = [r \in Receivers |-> 0]
  /\ told = [r \in Receivers |-> FALSE]

(* Sender::send *)
Publish ==
  /\ open
  /\ version' = version + 1
  /\ UNCHANGED <<open, noted, seen, told>>

(* drop(Sender) *)
Close ==
  /\ open
  /\ open' = FALSE
  /\ UNCHANGED <<version, noted, seen, told>>

(* get_changed or wait_for_change returns the latest value. *)
Deliver(r) ==
  /\ ~told[r]
  /\ noted[r] < version
  /\ \E k \in noted[r] .. version : noted' = [noted EXCEPT ![r] = k]
  /\ seen' = [seen EXCEPT ![r] = version]
  /\ UNCHANGED <<version, open, told>>

(* get_changed or wait_for_change returns ChannelClosed. *)
Learn(r) ==
  /\ ~open
  /\ ~told[r]
  /\ told' = [told EXCEPT ![r] = TRUE]
  /\ UNCHANGED <<version, open, noted, seen>>

(* Receiver::clone: the copy c starts from what its original r has seen. *)
Fork(r, c) ==
  /\ noted' = [noted EXCEPT ![c] = noted[r]]
  /\ seen' = [seen EXCEPT ![c] = seen[r]]
  /\ UNCHANGED <<version, open, told>>

Next ==
  \/ Publish
  \/ Close
  \/ \E r \in Receivers : Deliver(r) \/ Learn(r)
  \/ \E r, c \in Receivers : Fork(r, c)

Spec == Init /\ [][Next]_vars
================================================================================
