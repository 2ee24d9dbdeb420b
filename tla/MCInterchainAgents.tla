-------------------------- MODULE MCInterchainAgents --------------------------
(* Small instances of InterchainAgents for TLC: app sends from a to b. *)
EXTENDS InterchainAgents

CONSTANTS a, b, syn, n1, n2, c1

ToB == [c \in Chains |-> IF c = a THEN 1 ELSE 0]
OnB == [c \in Chains |-> IF c = b THEN {syn} ELSE {}]
Everywhere == [c \in Chains |-> {syn}]
OneResponse == [c \in Chains |-> [required |-> 1, period |-> 1]]
TwoOfThree == [c \in Chains |-> [m \in Modules |-> 2]]
Committee == [c \in Chains |-> [m \in Modules |-> {n1, n2, c1}]]
=============================================================================
