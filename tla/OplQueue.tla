------------------------------ MODULE OplQueue ------------------------------
(* The queue of timer callbacks of opl/opl_queue.c, a binary heap in an     *)
(* array.  An entry has a time, the callback and its data.  The model keeps *)
(* in .time how long the callback still has to wait, which is the code's    *)
(* entry time + pause_offset - current_time: the order is the same, and the *)
(* clock needs no bound.                                                    *)
EXTENDS Integers, Sequences

CONSTANTS
    MAX_OPL_QUEUE,
    AdjustError     \* us by which a time computed in float may be wrong

ASSUME QueueAssumption == MAX_OPL_QUEUE \in Nat \ {0} /\ AdjustError \in Nat

\* An entry that is put into the heap q passes others on its way: from hole i it
\* goes on to hole next[i], whose entry moves up or down into i, and stays where
\* next[i] is 0.  Holes are the places from hole first on.
Holes(first, next) ==
    LET Closed(S) == first \in S /\ \A i \in S : next[i] # 0 => next[i] \in S
    IN {i \in DOMAIN next : \A S \in SUBSET DOMAIN next : Closed(S) => i \in S}
Percolated(q, e, first, next) ==
    LET holes == Holes(first, next)
    IN [i \in DOMAIN next |->
            IF i \notin holes THEN q[i] ELSE IF next[i] = 0 THEN e ELSE q[next[i]]]

\* OPL_Queue_Push: the new entry rises above each later parent.  It is lost when
\* the queue is full.  A wrong version takes one callback too many.
Rise(q, e) ==
    [i \in 1 .. Len(q) + 1 |-> IF i > 1 /\ e.time < q[i \div 2].time THEN i \div 2 ELSE 0]
OPL_Queue_PushOver(q, e) ==
    IF Len(q) > MAX_OPL_QUEUE THEN q ELSE Percolated(q, e, Len(q) + 1, Rise(q, e))
OPL_Queue_Push(q, e) ==
    IF Len(q) >= MAX_OPL_QUEUE THEN q ELSE Percolated(q, e, Len(q) + 1, Rise(q, e))

\* OPL_Queue_Peek and OPL_Queue_Pop: the last entry fills the hole at the top
\* and sinks below each earlier child.  A wrong version only looks left.
OPL_Queue_Peek(q) == q[1].time
Earlier(q, i) == {c \in {2 * i, 2 * i + 1} : c < Len(q) /\ q[c].time < q[Len(q)].time}
First(q, cs) ==
    CHOOSE c \in cs : \A d \in cs :
        q[c].time < q[d].time \/ (q[c].time = q[d].time /\ c <= d)
Sink(q) ==
    [i \in 1 .. Len(q) - 1 |-> IF Earlier(q, i) = {} THEN 0 ELSE First(q, Earlier(q, i))]
OPL_Queue_PopLeft(q) ==
    Percolated(q, q[Len(q)], 1,
        [i \in DOMAIN Sink(q) |-> IF 2 * i \in Earlier(q, i) THEN 2 * i ELSE 0])
OPL_Queue_Pop(q) == Percolated(q, q[Len(q)], 1, Sink(q))

\* x / y, rounded towards zero as a conversion from float.
Quotient(x, y) == IF x >= 0 THEN x \div y ELSE -((-x) \div y)

\* The queues that q may become when the time left of every callback is scaled by
\* x / y, where it is counted from current_time although the callback only comes at
\* its time + pause_offset.  The quotient is computed in float and truncated: it
\* may be wrong, but keeps the order and the sign.  (What is negative stays so on
\* x86-64.)
Scaled(q, pause_offset, x, y) ==
    LET Left(i) == q[i].time - pause_offset
        Result(err, i) == Quotient(Left(i) * x, y) + err[i]
        Ordered(err) == \A i, j \in DOMAIN q :
            /\ Left(i) <= Left(j) => Result(err, i) <= Result(err, j)
            /\ Left(i) >= 0 => Result(err, i) >= 0
            /\ Left(i) <= 0 => Result(err, i) <= 0
    IN {[i \in DOMAIN q |-> [q[i] EXCEPT !.time = Result(err, i) + pause_offset]] :
           err \in {e \in [DOMAIN q -> -AdjustError .. AdjustError] : Ordered(e)}}

\* OPL_Queue_AdjustCallbacks(q, current_time, old / new), which divides by the
\* factor.  A wrong version multiplies.
OPL_Queue_AdjustCallbacksInverse(q, pause_offset, old, new) ==
    Scaled(q, pause_offset, old, new)
OPL_Queue_AdjustCallbacks(q, pause_offset, old, new) ==
    Scaled(q, pause_offset, new, old)

\* The entry at the top is the earliest.
EarliestOnTop(q) == \A i \in DOMAIN q : q[1].time <= q[i].time
=============================================================================
