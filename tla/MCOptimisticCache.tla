-------------------------- MODULE MCOptimisticCache --------------------------
(* The ways the optimistic cache is used, for TLC.                          *)
EXTENDS OptimisticCache

(* pay(), with readers, and any number of payments pending.                 *)
Paying == [paying |-> TRUE, oneAtATime |-> FALSE, reading |-> TRUE, invalidating |-> FALSE]

(* An application that uses the class itself and waits for each mutation.   *)
Waiting == [paying |-> FALSE, oneAtATime |-> TRUE, reading |-> FALSE, invalidating |-> TRUE]

(* An application that does not wait.                                       *)
Hasty == [paying |-> FALSE, oneAtATime |-> FALSE, reading |-> FALSE, invalidating |-> TRUE]

AllUsages == {Paying, Waiting, Hasty}
HastyOnly == {Hasty}
=============================================================================
