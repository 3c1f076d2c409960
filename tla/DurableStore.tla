---------------------------- MODULE DurableStore ----------------------------
(***************************************************************************)
(* What the database promises its callers: a program state that grows by   *)
(* mutations, of which a part is durable.  A restart finds the durable     *)
(* part, the durable part never shrinks, and what a flush acknowledged is  *)
(* durable.  A state is the number of mutations it contains.               *)
(***************************************************************************)
EXTENDS Naturals

VARIABLES state,    \* the program's state
          durable,  \* what a restart would find
          acked     \* the last state a flush acknowledged

vars == <<state, durable, acked>>

Init == state = 0 /\ durable = 0 /\ acked = 0

Mutate == state' = state + 1 /\ UNCHANGED <<durable, acked>>

Save ==
  /\ durable' \in durable .. state
  /\ UNCHANGED <<state, acked>>

Acknowledge ==
  /\ acked' \in acked .. durable
  /\ UNCHANGED <<state, durable>>

Crash == state' = durable /\ UNCHANGED <<durable, acked>>

Next == Mutate \/ Save \/ Acknowledge \/ Crash

Spec == Init /\ [][Next]_vars

\* What is acknowledged is durable, and nothing is durable that never was.
Safe == acked <= durable /\ durable <= state
=============================================================================
