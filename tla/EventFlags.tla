----------------------------- MODULE EventFlags -----------------------------
(***************************************************************************)
(* What event_groups.c promises its callers: setting flags answers, at     *)
(* once and together, every client that waits for what is now set; flags   *)
(* that one of them consumes are cleared only then.  A client whose time   *)
(* is over looks at the flags once more before it gives up.                *)
(***************************************************************************)
CONSTANTS
    Groups, Flags, Clients,
    Deleted     \* what a group's flags are when it is no more

VARIABLES
    flags,      \* of each group
    client      \* of each client: idle, a request or an answer

vars == <<flags, client>>

Satisfied(r, f) == IF r.all THEN r.want \subseteq f ELSE r.want \cap f # {}
Quiet == [is |-> "idle"]
Waiting(c, g) == client[c].is = "waiting" /\ client[c].group = g
Answer(f) == [is |-> "answer", flags |-> f]

\* what f becomes, and who is answered, when flags f hold in group g
Woken(g, f) == {c \in Clients : Waiting(c, g) /\ Satisfied(client[c], f)}
Left(g, f) == f \ UNION {client[c].want : c \in {d \in Woken(g, f) : client[d].consume}}
WithAnswers(g, f) ==
    [c \in Clients |-> IF c \in Woken(g, f) THEN Answer(f) ELSE client[c]]

Set(g, f) ==
    /\ flags' = [flags EXCEPT ![g] = Left(g, @ \cup f)]
    /\ client' = WithAnswers(g, flags[g] \cup f)
Clear(g, f) == flags' = [flags EXCEPT ![g] = @ \ f] /\ UNCHANGED client
\* those that wait get an answer with no flags
Delete(g) ==
    /\ flags' = [flags EXCEPT ![g] = Deleted]
    /\ client' = [c \in Clients |-> IF Waiting(c, g) THEN Answer({}) ELSE client[c]]

\* a client asks r of group g: it is answered, or waits, or does not care to
Consumed(r, f) == IF r.consume /\ Satisfied(r, f) THEN f \ r.want ELSE f
Request(g) == [is : {"waiting"}, group : {g}, want : SUBSET Flags \ {{}},
               all : BOOLEAN, consume : BOOLEAN]
Wait(c, g, r) ==
    /\ client[c] = Quiet
    /\ \/ /\ flags' = [flags EXCEPT ![g] = Consumed(r, @)]
          /\ client' = [client EXCEPT ![c] = Answer(flags[g])]
       \/ /\ ~Satisfied(r, flags[g])
          /\ client' = [client EXCEPT ![c] = r]
          /\ UNCHANGED flags

\* set and wait for all in one, where all that take part are answered together
Meet(c, g, f, r) ==
    LET now == flags[g] \cup f
        left == Left(g, now)
    IN  /\ client[c] = Quiet /\ r.all /\ r.consume
        /\ \/ /\ Satisfied(r, now)
              /\ flags' = [flags EXCEPT ![g] = left \ r.want]
              /\ client' = [WithAnswers(g, now) EXCEPT ![c] = Answer(now)]
           \/ /\ ~Satisfied(r, now)
              /\ flags' = [flags EXCEPT ![g] = left]
              /\ client' = [WithAnswers(g, now) EXCEPT ![c] = Answer(left)]
           \/ /\ ~Satisfied(r, now)
              /\ flags' = [flags EXCEPT ![g] = left]
              /\ client' = [WithAnswers(g, now) EXCEPT ![c] = r]

\* their time is over: they wait no more, and then each looks
Expire(late) ==
    /\ \A c \in late : client[c].is = "waiting"
    /\ client' = [c \in Clients |-> IF c \in late THEN [client[c] EXCEPT !.is = "expired"]
                                   ELSE client[c]]
    /\ UNCHANGED flags
Look(c) ==
    LET r == client[c]
    IN  /\ r.is = "expired"
        /\ flags' = [flags EXCEPT ![r.group] = Consumed(r, @)]
        /\ client' = [client EXCEPT ![c] = Answer(flags[r.group])]
Return(c) == /\ client[c].is = "answer"
             /\ client' = [client EXCEPT ![c] = Quiet]
             /\ UNCHANGED flags

Init == flags = [g \in Groups |-> {}] /\ client = [c \in Clients |-> Quiet]

InGroup(g) ==
    \/ \E f \in SUBSET Flags : Set(g, f) \/ Clear(g, f)
    \/ Delete(g)
    \/ \E c \in Clients, r \in Request(g) : \/ Wait(c, g, r)
                                            \/ \E f \in SUBSET Flags : Meet(c, g, f, r)
Next == \/ \E g \in Groups : flags[g] # Deleted /\ InGroup(g)
        \/ \E late \in SUBSET Clients : Expire(late)
        \/ \E c \in Clients : Look(c) \/ Return(c)

Spec == Init /\ [][Next]_vars
=============================================================================
