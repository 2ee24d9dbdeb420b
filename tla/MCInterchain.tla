---------------------------- MODULE MCInterchain ----------------------------
(* Small instances of Interchain for TLC: chain a sends to chain b. *)
EXTENDS Interchain

CONSTANTS a, b, syn, other, v1, v2, v3

OneEach == [c \in Chains |-> 1]
OnB == [c \in Chains |-> IF c = b THEN {syn, other} ELSE {}]
TwoResponses == [c \in Chains |-> [required |-> 2, period |-> 1]]
TwoOfThree == [c \in Chains |-> [m \in Modules |-> IF m = syn THEN 2 ELSE 0]]
TwoSigners == [c \in Chains |-> [m \in Modules |-> IF m = syn THEN {v1, v3} ELSE {}]]
SomeConfigs == {[required |-> 1, period |-> 1], [required |-> 2, period |-> 1]}
=============================================================================
