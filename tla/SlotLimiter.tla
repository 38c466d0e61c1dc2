---------------------------- MODULE SlotLimiter ----------------------------
(***************************************************************************)
(* What a connection pool promises to the tasks that call it, free of      *)
(* permits, sockets and health checks: at most Max callers hold a slot,    *)
(* the others wait in arrival order, a returned slot goes at once to the   *)
(* first of them, and a caller may give up while it waits.                 *)
(***************************************************************************)
EXTENDS Naturals, Sequences, FiniteSets

CONSTANTS Callers,   \* the calls of acquire()
          Max        \* ServerConfig.connections

VARIABLES held,      \* callers that own a slot
          waiting    \* callers queued for one, oldest first

slotVars == <<held, waiting>>

Waiters == {waiting[i] : i \in 1..Len(waiting)}

Without(q, i) == SubSeq(q, 1, i - 1) \o SubSeq(q, i + 1, Len(q))

SlotInit == held = {} /\ waiting = <<>>

\* A caller asks: it gets a free slot, or queues when there is none.
Enter(c) ==
    /\ c \notin held \cup Waiters
    /\ IF Cardinality(held) < Max
       THEN held' = held \cup {c} /\ waiting' = waiting
       ELSE held' = held /\ waiting' = Append(waiting, c)

\* A holder returns its slot, which the oldest waiter owns from then on.
Leave(c) ==
    /\ c \in held
    /\ IF waiting = <<>>
       THEN held' = held \ {c} /\ waiting' = waiting
       ELSE held' = (held \ {c}) \cup {Head(waiting)} /\ waiting' = Tail(waiting)

GiveUp(c) ==
    /\ \E i \in 1..Len(waiting) : waiting[i] = c /\ waiting' = Without(waiting, i)
    /\ held' = held

SlotNext == \E c \in Callers : Enter(c) \/ Leave(c) \/ GiveUp(c)

SlotSpec == SlotInit /\ [][SlotNext]_slotVars

\* Every holder eventually returns its slot.
FairSlotSpec == SlotSpec /\ \A c \in Callers : WF_slotVars(Leave(c))
=============================================================================
