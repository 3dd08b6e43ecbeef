------------------------------ MODULE NetFifo ------------------------------
(***************************************************************************)
(* What NET_Conn_NewReliable promises its callers: the two ends of a       *)
(* connection are joined by two reliable pipes.  A message is named by its *)
(* place in the order of submission, so the k-th message out of a pipe     *)
(* must be message k: nothing is lost, repeated or overtaken.  When an end *)
(* begins the connection anew, the promise ends.                           *)
(***************************************************************************)
EXTENDS Naturals, Sequences

CONSTANT Node, Peer(_)

VARIABLES
    submitted,    \* submitted[n]: how many messages n has handed over
    delivered,    \* delivered[n]: the messages given to n, in order
    renewed       \* whether an end has begun anew

vars == <<submitted, delivered, renewed>>

Init ==
    /\ submitted = [n \in Node |-> 0]
    /\ delivered = [n \in Node |-> <<>>]
    /\ ~renewed

Submit(n) ==
    /\ submitted' = [submitted EXCEPT ![n] = @ + 1]
    /\ UNCHANGED <<delivered, renewed>>

Deliver(n) ==
    /\ Len(delivered[n]) < submitted[Peer(n)]
    /\ delivered' = [delivered EXCEPT ![n] = Append(@, Len(@) + 1)]
    /\ UNCHANGED <<submitted, renewed>>

Next == renewed' \/ \E n \in Node : Submit(n) \/ Deliver(n)

Spec == Init /\ [][Next]_vars
=============================================================================
