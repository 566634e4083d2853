-------------------------- MODULE ConcurrencyGate --------------------------
(***************************************************************************)
(* What the concurrency limiter of a client promises its requests: never   *)
(* does a request get in while as many are inside as the rate allows, and  *)
(* the rate moves only as a request leaves.  How requests wait, are woken  *)
(* and are cancelled is left to the implementation (DynamicConcurrency).   *)
(***************************************************************************)
EXTENDS Integers, FiniteSets

CONSTANTS
  Tasks,     (* those who may ask to come in                               *)
  RateUnit,  (* one request per second, in units of rate                   *)
  MinRate,   (* min_rate of the adaptive limiter                           *)
  HardCap    (* hard_cap of the adaptive limiter                           *)

VARIABLES
  rate,      (* the rate of the adaptive limiter                           *)
  inside     (* the tasks that hold a slot                                 *)

Larger(a, b) == IF a >= b THEN a ELSE b

DynamicLimit == Larger(1, rate \div RateUnit)

HasRoom == Cardinality(inside) < DynamicLimit

Init ==
  /\ rate \in MinRate..HardCap
  /\ inside = {}

Enter(t) ==
  /\ t \notin inside
  /\ HasRoom
  /\ inside' = inside \cup {t}
  /\ UNCHANGED rate

Leave(t) ==
  /\ t \in inside
  /\ inside' = inside \ {t}
  /\ rate' \in MinRate..HardCap

Next == \E t \in Tasks : Enter(t) \/ Leave(t)

Spec == Init /\ [][Next]_<<rate, inside>>

=============================================================================
