------------------------------ MODULE Allocator ------------------------------
(***************************************************************************)
(* What pvPortMalloc and vPortFree promise their callers: the memory       *)
(* handed out is exclusive, and a request is refused only when no gap      *)
(* between the blocks in use is large enough for it.                       *)
(***************************************************************************)
EXTENDS Integers

CONSTANTS
    Clients,
    Limit,          \* the heap is 0..Limit - 1
    Sizes,          \* of the blocks that may be handed out
    Cost(_),        \* the bytes a request of a given size takes in the heap
    Nothing, NULL   \* no answer yet, a refusal

VARIABLES
    owned,          \* the blocks in use, [at, size]
    asked,          \* the request of each client
    got             \* its answer

vars == <<owned, got>>      \* the clients ask as they like

Overlap(b, d) == b.at < d.at + d.size /\ d.at < b.at + b.size
Fits(b) == b.at + b.size <= Limit /\ \A d \in owned : ~Overlap(b, d)
Gap(n) == \E a \in 0..(Limit - n) : Fits([at |-> a, size |-> n])

Init == owned = {} /\ got = [c \in Clients |-> Nothing]

Ask(c) == got' = [got EXCEPT ![c] = Nothing] /\ UNCHANGED owned
Grant(c) ==
    /\ asked[c] > 0
    /\ \E b \in owned' \ owned :
          /\ b.size \in Sizes /\ b.size >= Cost(asked[c])
          /\ b.at \in 0..Limit /\ Fits(b)
          /\ owned' = owned \cup {b}
          /\ got' = [got EXCEPT ![c] = b.at]
Refuse(c) ==
    /\ got' = [got EXCEPT ![c] = NULL]
    /\ asked[c] = 0 \/ ~Gap(Cost(asked[c]))
    /\ UNCHANGED owned
Release == (\E b \in owned : owned' = owned \ {b}) /\ UNCHANGED got

Next == (\E c \in Clients : Ask(c) \/ Grant(c) \/ Refuse(c)) \/ Release
Spec == Init /\ [][Next]_vars
=============================================================================
