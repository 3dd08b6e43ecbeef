----------------------------- MODULE MCNetConn -----------------------------
(* NetConn on small instances.                                             *)
EXTENDS NetConn

\* The server has two messages for the client (LAUNCH, GAMESTART), enough to
\* wrap a two-valued sequence number; or there is none.
MCTwoFromServer == [n \in Node |-> IF n = Server THEN 2 ELSE 0]
MCNone == [n \in Node |-> 0]

\* Each end begins once; or the client's program begins again, and so does its slot.
MCOnce == [n \in Node |-> 1]
MCTwice == [n \in Node |-> 2]
=============================================================================
