------------------------------ MODULE FifoLock ------------------------------
(***************************************************************************)
(* What include/spinlock.h and the comment at spinlock.c:29-30 promise of  *)
(* spin_lock and spin_unlock, whatever their implementation: cores queue   *)
(* in the order in which they asked, only the first of the queue holds the *)
(* lock, and every core that asked gets it.                                *)
(***************************************************************************)
EXTENDS Naturals, Sequences

CONSTANT Core

VARIABLES
    queue,  \* the cores that asked and have not released, in asking order
    held    \* TRUE once the first of the queue has been let in

vars == <<queue, held>>

Queued(c) == \E i \in 1 .. Len(queue) : queue[i] = c

Init == queue = <<>> /\ held = FALSE

Ask(c) ==
    /\ ~Queued(c)
    /\ queue' = Append(queue, c)
    /\ UNCHANGED held

Enter(c) ==
    /\ queue # <<>> /\ Head(queue) = c
    /\ ~held
    /\ held' = TRUE
    /\ UNCHANGED queue

Leave(c) ==
    /\ held /\ queue # <<>> /\ Head(queue) = c
    /\ queue' = Tail(queue)
    /\ held' = FALSE

Next == \E c \in Core : Ask(c) \/ Enter(c) \/ Leave(c)

\* A holder leaves and the first in line is let in: spin_lock's callers all
\* run short critical sections with no wait inside.
Spec == Init /\ [][Next]_vars /\ \A c \in Core : WF_vars(Enter(c) \/ Leave(c))
=============================================================================
