--------------------------- MODULE BoundedBuffer ----------------------------
(***************************************************************************)
(* What queue.c promises its callers about data: buffers of bounded        *)
(* capacity, first in, first out unless put in front, each value handed    *)
(* out once.  An answer is what a call of a client has returned, until the *)
(* client makes its next one.                                              *)
(***************************************************************************)
EXTENDS Integers, Sequences

CONSTANTS
    Buffers,    \* the names of the buffers
    Capacity,   \* how many values each holds
    Values,     \* what they hold
    Clients,    \* who uses them
    Nothing, Done, Refused      \* no answer yet, a success, a failure

VARIABLES buffer, answer

vars == <<buffer, answer>>

Answer(c, a) == answer[c] = Nothing /\ answer' = [answer EXCEPT ![c] = a]
Change(b, s) == buffer' = [buffer EXCEPT ![b] = s]
HasRoom(b) == Len(buffer[b]) < Capacity[b]

Put(b, v) == HasRoom(b) /\ Change(b, Append(buffer[b], v))
PutFront(b, v) == HasRoom(b) /\ Change(b, <<v>> \o buffer[b])
\* for a buffer of capacity one
Replace(b, v) == Capacity[b] = 1 /\ Change(b, <<v>>)
Take(b) == buffer[b] # <<>> /\ Change(b, Tail(buffer[b]))

Insertion(b, v) == Put(b, v) \/ PutFront(b, v) \/ Replace(b, v)

Init == /\ buffer \in [Buffers -> Seq(Values)]
        /\ \A b \in Buffers : Len(buffer[b]) <= Capacity[b]
        /\ answer = [c \in Clients |-> Nothing]

\* a call of a client, an interrupt (which leaves no answer), a return
ClientStep(c) ==
    \/ \E b \in Buffers : /\ \E v \in Values : Insertion(b, v)
                          /\ Answer(c, Done)
    \/ \E b \in Buffers : Take(b) /\ Answer(c, Head(buffer[b]))
    \/ \E b \in Buffers : /\ buffer[b] # <<>> /\ Answer(c, Head(buffer[b]))
                          /\ UNCHANGED buffer
    \/ Answer(c, Refused) /\ UNCHANGED buffer
    \/ answer' = [answer EXCEPT ![c] = Nothing] /\ UNCHANGED buffer
InterruptStep(b) ==
    /\ Take(b) \/ \E v \in Values : Insertion(b, v)
    /\ UNCHANGED answer

Next == \/ \E c \in Clients : answer'[c] # answer[c] /\ ClientStep(c)
        \/ \E b \in Buffers : buffer'[b] # buffer[b] /\ InterruptStep(b)

Spec == Init /\ [][Next]_vars
=============================================================================
