------------------------------ MODULE MCRelayer ------------------------------
(* Small instances of Relayer for TLC. *)
EXTENDS Relayer

CONSTANTS self, bob, guard, user

Param(destAmount, deadline) ==
    [dstChainId |-> 2, sender |-> user, to |-> user, originToken |-> Token,
     destToken |-> Token, originAmount |-> 2, destAmount |-> destAmount,
     sendChainGas |-> FALSE, deadline |-> deadline]

\* One request; or one of three: to a token without code, or for more than there is.
OneParam == {Param(2, 1)}
MixedParams == {Param(2, 0), Param(3, 0), [Param(1, 0) EXCEPT !.destToken = user]}
=============================================================================
