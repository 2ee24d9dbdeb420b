----------------------------- MODULE MCRebalancer -----------------------------
(* Small instances of Rebalancer for TLC: two chains. *)
EXTENDS Rebalancer

CONSTANTS a, b

\* The configuration of services/rfq/relayer/inventory/manager_test.go, coarser.
Maintenance == [c \in Chains |-> 25]
Initial == [c \in Chains |-> 50]
NoMinimum == [c \in Chains |-> 0]
Maximum == [c \in Chains |-> 2]
OneSided == [c \in Chains |-> IF c = a THEN 3 ELSE 0]
=============================================================================
