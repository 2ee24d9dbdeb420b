------------------------------- MODULE Delivery -------------------------------
(***************************************************************************)
(* What the interchain contracts promise apps: the messages an app is      *)
(* given were sent to its chain, and each is given once.                   *)
(***************************************************************************)
EXTENDS Sequences

CONSTANTS Chains, Transactions

VARIABLES
    sent,
    delivered     \* per chain, in order

Init == sent = {} /\ delivered = [c \in Chains |-> <<>>]

Send(tx) ==
    /\ tx \notin sent
    /\ sent' = sent \cup {tx}
    /\ UNCHANGED delivered

Deliver(c, tx) ==
    /\ tx \in sent /\ tx.dst = c
    /\ \A i \in DOMAIN delivered[c] : delivered[c][i] # tx
    /\ delivered' = [delivered EXCEPT ![c] = Append(@, tx)]
    /\ UNCHANGED sent

Next == \E tx \in Transactions : Send(tx) \/ \E c \in Chains : Deliver(c, tx)

Spec == Init /\ [][Next]_<<sent, delivered>>
=============================================================================
