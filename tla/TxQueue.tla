------------------------------- MODULE TxQueue -------------------------------
(***************************************************************************)
(* What the transaction submitter promises its callers, for each chain: *)
(* a call that was accepted has a place in a queue, and the chain executes *)
(* the calls of the queue one by one, in order, each once                  *)
(* (ethergo/submitter/README.md, "Understanding SubmitTransaction").       *)
(***************************************************************************)
EXTENDS Naturals, Sequences, FiniteSets, Functions

CONSTANTS Chains, Calls

VARIABLES queue, executed

Init ==
    /\ queue = [c \in Chains |-> << >>]
    /\ executed = [c \in Chains |-> 0]

(* A call is accepted: SubmitTransaction returns its place, the nonce. *)
Accept(c) ==
    \E k \in Calls :
        /\ \A d \in Chains : k \notin Range(queue[d])
        /\ queue' = [queue EXCEPT ![c] = Append(@, k)]
        /\ UNCHANGED executed

(* The chain executes the next call. *)
Execute(c) ==
    /\ executed[c] < Len(queue[c])
    /\ executed' = [executed EXCEPT ![c] = @ + 1]
    /\ UNCHANGED queue

Next == \E c \in Chains : Accept(c) \/ Execute(c)

Spec == Init /\ [][Next]_<<queue, executed>>

(* Every call that the chain accepted is executed in the end. *)
Progress(c) ==
    \A n \in 1..Cardinality(Calls) : (Len(queue[c]) >= n) ~> (executed[c] >= n)
=============================================================================
