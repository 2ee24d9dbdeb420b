--------------------------- MODULE MCFastBridge ---------------------------
(* Small instances of FastBridge for TLC. *)
EXTENDS FastBridge

CONSTANTS alice, bob, guard, weth, usdc, zero, this

MCTransferFee == [t \in {ETH, weth, usdc} |-> IF t = usdc THEN 1 ELSE 0]

Param(sender, token, amount, deadline) ==
    [dstChainId |-> 2, sender |-> sender, to |-> alice, originToken |-> token,
     destToken |-> weth, originAmount |-> amount, destAmount |-> 3,
     sendChainGas |-> FALSE, deadline |-> deadline]

ForeignRequest(to, token, gas) ==
    [originChainId |-> 2, destChainId |-> 1, originSender |-> alice,
     destRecipient |-> to, originToken |-> weth, destToken |-> token,
     originAmount |-> 3, destAmount |-> 3, originFeeAmount |-> 0,
     sendChainGas |-> gas, deadline |-> 3, nonce |-> 0]

MCRoles == [role \in Roles |->
    CASE role = "RELAYER_ROLE" -> {alice, bob}
      [] OTHER -> {guard}]

-----------------------------------------------------------------------------
NoRoleChanges == {}
NoRequests == {}

(* The life of deposits around the roll-over of the proof timestamps: two        *)
(* relayers, one of whom loses the role, a sender, and the contract as a sender. *)
LifeParams == {Param(alice, weth, 4, StartTime + 3), Param(this, weth, 4, StartTime + 3)}

RelayerChanges == {<<"RELAYER_ROLE", bob>>}

(* ETH and a token with a transfer fee in one balance sheet. *)
FeeParams == {Param(alice, ETH, 4, 2), Param(alice, usdc, 4, 2)}

(* Requests of chain 2 to fill here, next to a deposit made here. *)
RelayRequests ==
    {ForeignRequest(alice, ETH, TRUE), ForeignRequest(this, usdc, TRUE)}
=============================================================================
