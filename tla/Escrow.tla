------------------------------- MODULE Escrow -------------------------------
(***************************************************************************)
(* What the FastBridge contract promises about deposits, with no roles, no *)
(* proofs, no clock and no tokens: every deposit is held from the moment   *)
(* it is made, and leaves the escrow at most once, in full, either to the  *)
(* relayer who filled the request or back to the sender.                   *)
(***************************************************************************)

VARIABLES
    held,      \* the deposits the escrow still owes to somebody
    released,  \* the deposits paid to a relayer
    returned   \* the deposits paid back to their sender

escrowVars == <<held, released, returned>>

EscrowInit ==
    /\ held = {}
    /\ released = {}
    /\ returned = {}

\* A deposit that was never made before enters the escrow.
Deposit(d) ==
    /\ d \notin held \cup released \cup returned
    /\ held' = held \cup {d}
    /\ UNCHANGED <<released, returned>>

Release(d) ==
    /\ d \in held
    /\ held' = held \ {d}
    /\ released' = released \cup {d}
    /\ UNCHANGED returned

Return(d) ==
    /\ d \in held
    /\ held' = held \ {d}
    /\ returned' = returned \cup {d}
    /\ UNCHANGED released

EscrowStep(d) == Deposit(d) \/ Release(d) \/ Return(d)

\* Deposits are drawn from whatever the escrow holds before or after the step.
EscrowNext == \E d \in held \cup held' : EscrowStep(d)

\* An escrow starts empty and every step moves at most one deposit.
EscrowSpec == EscrowInit /\ [][EscrowNext]_escrowVars
=============================================================================
