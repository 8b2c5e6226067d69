------------------------------ MODULE ReadyList ------------------------------
(***************************************************************************)
(* The linked ready list of system/proc.c, store by store.                 *)
(*                                                                         *)
(* proc_resched, proc_block, proc_sleep_us and proc_exit change the list   *)
(* with IRQs masked, so each is one step, and nothing else happens while   *)
(* the timer interrupt is served.  proc_create and proc_ready run with     *)
(* IRQs on: an interrupt can arrive between any two of their stores, push  *)
(* the sleepers that are due and, unless the shell is running, preempt the *)
(* pusher and run another process that changes the list too.               *)
(*                                                                         *)
(* A context is a process or the shell (NULLPROC), which is never listed.  *)
(***************************************************************************)
EXTENDS Integers, Sequences

CONSTANTS
    NPROC,      \* the slots of proctab, the shell's included
    Proc,       \* the processes, without the shell
    Shell,      \* NULLPROC
    Nil,        \* a null pointer
    Prio,       \* proctab[p].prio
    Created,    \* the processes already listed at the start, in any order
    Creators,   \* the contexts that call proc_create
    BootReady,  \* the processes that main.c gives to proc_ready once created
    TimerOn,    \* the timer interrupt is delivered
    Beyond      \* what becomes of a list that is torn is followed

\* What the constants must satisfy.
ConstantsOK ==
    /\ Shell \notin Proc /\ Nil \notin Proc \cup {Shell}
    /\ NPROC \in Nat \ {0} /\ Prio \in [Proc -> Int]
    /\ Created \in Seq(Proc)
    /\ Creators \subseteq Proc \cup {Shell}
    /\ BootReady \subseteq Proc
    /\ TimerOn \in BOOLEAN /\ Beyond \in BOOLEAN

Context == Proc \cup {Shell}
Link == Proc \cup {Nil}

VARIABLES
    ready_head, ready_tail,
    next,       \* proctab[p].next
    where,      \* "free", "listed", "asleep", or "running" for each process
    curr,       \* currpid
    pc,         \* where each context is in proc_create and ready_push, "run" outside
    arg,        \* the process it creates or pushes
    todo,       \* of BootReady, those main.c has not yet given to proc_ready
    tick,       \* the timer interrupt is being served
    queue,      \* history: the processes pushed and not yet popped, in order
    torn,       \* history: a push was interrupted by a change of the list, or
                \* a process that was not out of it was pushed
    hung        \* a scan of the list does not end

vars == <<ready_head, ready_tail, next, where, curr, pc, arg, todo, tick, queue, torn, hung>>

TypeOK ==
    /\ ready_head \in Link /\ ready_tail \in Link
    /\ next \in [Proc -> Link]
    /\ where \in [Proc -> {"free", "listed", "asleep", "running"}]
    /\ curr \in Context
    /\ pc \in [Context -> {"run", "slot", "clear", "tail_first", "head", "link", "tail"}]
    /\ arg \in [Context -> Link]
    /\ todo \subseteq BootReady
    /\ tick \in BOOLEAN
    /\ queue \in Seq(Proc)
    /\ torn \in BOOLEAN /\ hung \in BOOLEAN

Listed(q) == {q[i] : i \in DOMAIN q}

\* The list main.c has built when the runs start.
Init ==
    /\ queue = Created
    /\ ready_head = IF Created = <<>> THEN Nil ELSE Created[1]
    /\ ready_tail = IF Created = <<>> THEN Nil ELSE Created[Len(Created)]
    /\ next = [p \in Proc |->
                 IF \E i \in 1 .. Len(Created) - 1 : Created[i] = p
                 THEN Created[1 + CHOOSE i \in DOMAIN Created : Created[i] = p]
                 ELSE Nil]
    /\ where = [p \in Proc |-> IF p \in Listed(Created) THEN "listed" ELSE "free"]
    /\ curr = Shell
    /\ pc = [c \in Context |-> "run"]
    /\ arg = [c \in Context |-> Nil]
    /\ todo = BootReady
    /\ tick = FALSE
    /\ torn = FALSE /\ hung = FALSE

-----------------------------------------------------------------------------
\* The pointers a scan from head follows: Chain(h, nx)[n] is the n-th process,
\* Nil after the end.  There are fewer processes than slots (the shell has one), so
\* a list that has not ended after NPROC pointers has a cycle.
Chain(h, nx) ==
    LET at[n \in 1 .. NPROC] ==
            IF n = 1 THEN h
            ELSE IF at[n - 1] = Nil THEN Nil ELSE nx[at[n - 1]]
    IN  at

Cyclic(h, nx) == Chain(h, nx)[NPROC] # Nil

\* The list as a sequence, when it ends.
AsSeq(h, nx) ==
    LET len == CHOOSE m \in 0 .. NPROC - 1 :
                  \A n \in 1 .. NPROC : Chain(h, nx)[n] # Nil <=> n <= m
    IN  [n \in 1 .. len |-> Chain(h, nx)[n]]

\* A comparison that prefers the later of two equals.
Better_mutant(p, q) == Prio[p] >= Prio[q]

\* The comparison of ready_pop's scan.
Better(p, q) == Prio[p] > Prio[q]

\* ready_pop's scan: the index of best after looking at the first n processes.
Scan(s) ==
    LET best[n \in 1 .. Len(s)] ==
            IF n = 1 THEN 1
            ELSE IF Better(s[n], s[best[n - 1]]) THEN n ELSE best[n - 1]
    IN  best[Len(s)]

\* A list is what the three pointers of ready_push and ready_pop make it.
List(h, t, nx) == [head |-> h, tail |-> t, next |-> nx]
TheList == List(ready_head, ready_tail, next)

\* ready_push in one go, as an interrupt or a masked section does it.
push(l, p) ==
    LET nx == [l.next EXCEPT ![p] = Nil]
    IN  IF l.head = Nil THEN List(p, p, nx)
        ELSE List(l.head, p, [nx EXCEPT ![l.tail] = p])

\* ready_pop's unlinking of the k-th process of an acyclic list.
unlink(l, k) ==
    LET s == AsSeq(l.head, l.next)
        best == s[k]
        prev == IF k = 1 THEN Nil ELSE s[k - 1]
        t == IF l.tail = best THEN prev ELSE l.tail
    IN  IF k = 1 THEN List(l.next[best], t, [l.next EXCEPT ![best] = Nil])
        ELSE List(l.head, t, [l.next EXCEPT ![prev] = l.next[best], ![best] = Nil])

Becomes(l) == ready_head' = l.head /\ ready_tail' = l.tail /\ next' = l.next

DropFirst(q, p) ==
    LET k == CHOOSE i \in DOMAIN q : q[i] = p
    IN  SubSeq(q, 1, k - 1) \o SubSeq(q, k + 1, Len(q))

Drop(q, p) == IF p \in Listed(q) THEN DropFirst(q, p) ELSE q

\* The best process of the non-empty list l is switched to, and the running
\* one is pushed if it stays ready.  The scan of a cyclic list never ends.
Dispatch(l, q, w, parked) ==
    IF Cyclic(l.head, l.next)
    THEN /\ hung' = TRUE
         /\ UNCHANGED <<ready_head, ready_tail, next, where, curr, queue>>
    ELSE LET s == AsSeq(l.head, l.next)
             k == Scan(s)
             l1 == unlink(l, k)
             rest == Drop(q, s[k])
         IN  /\ curr' = s[k]
             /\ where' = [w EXCEPT ![s[k]] = "running"]
             /\ IF parked THEN Becomes(push(l1, curr)) /\ queue' = Append(rest, curr)
                          ELSE Becomes(l1) /\ queue' = rest
             /\ UNCHANGED hung

-----------------------------------------------------------------------------
\* Between two stores of ready_push.
Inside(c) == pc[c] \notin {"run", "slot"}

\* What follows changes the list although some context is inside ready_push.
Tears == torn' = (torn \/ \E c \in Context : Inside(c))

Running == ~hung /\ ~tick /\ pc[curr] = "run"

\* main.c has created a process and calls proc_ready next.
MustReady == curr = Shell /\ \E p \in todo : where[p] # "free"

\* proc_resched's body: the running context goes to the end of the list.
Resched ==
    IF curr = Shell THEN Dispatch(TheList, queue, where, FALSE)
    ELSE Dispatch(TheList, queue, [where EXCEPT ![curr] = "listed"], TRUE)

Stay == UNCHANGED <<ready_head, ready_tail, next, where, curr, queue, torn, hung>>

\* proc_resched, from proc_yield or from a caller in the shell.
proc_resched ==
    /\ Running /\ ~MustReady
    /\ ready_head # Nil
    /\ Resched /\ Tears
    /\ UNCHANGED <<pc, arg, todo, tick>>

\* proc_sleep_us and proc_block (asleep until an interrupt readies it) and
\* proc_exit (the slot is free again).
leave(w) ==
    /\ Running /\ curr # Shell
    /\ IF ready_head = Nil
       THEN /\ curr' = Shell
            /\ where' = [where EXCEPT ![curr] = w]
            /\ UNCHANGED <<ready_head, ready_tail, next, queue, torn, hung>>
       ELSE Dispatch(TheList, queue, [where EXCEPT ![curr] = w], FALSE) /\ Tears
    /\ UNCHANGED <<pc, arg, todo, tick>>

\* The timer interrupt: proc_timer_tick and net_wake begin.
timer_irq ==
    /\ TimerOn /\ ~hung /\ ~tick
    /\ tick' = TRUE
    /\ Stay
    /\ UNCHANGED <<pc, arg, todo>>

\* proc_timer_tick readies a sleeper that is due, or net_wake the net process;
\* the loop goes on to every other one that is due.
proc_timer_tick ==
    /\ tick
    /\ \E p \in Proc :
          /\ where[p] = "asleep"
          /\ where' = [where EXCEPT ![p] = "listed"]
          /\ Becomes(push(TheList, p)) /\ queue' = Append(queue, p)
    /\ Tears
    /\ UNCHANGED <<curr, hung, pc, arg, todo, tick>>

\* After the EOI.  The handler has set g_resched_pending; preemption may be off
\* (g_preempt_on), a pump of actors is not interrupted, nor is the shell.
proc_preempt ==
    /\ tick /\ tick' = FALSE
    /\ \E g_preempt_on, g_actor_pump \in BOOLEAN :
          IF g_preempt_on /\ ~g_actor_pump /\ curr # Shell /\ ready_head # Nil
          THEN Resched /\ Tears
          ELSE Stay
    /\ UNCHANGED <<pc, arg, todo>>

\* proc_create: alloc_slot finds a free slot, which is not taken yet.
proc_create ==
    /\ Running /\ curr \in Creators /\ ~MustReady
    /\ \E p \in Proc :
          /\ where[p] = "free" /\ (p \in todo => curr = Shell)
          /\ arg' = [arg EXCEPT ![curr] = p]
    /\ pc' = [pc EXCEPT ![curr] = "slot"]
    /\ Stay
    /\ UNCHANGED <<todo, tick>>

\* It fills the slot in and goes on to push it, IRQs on.  Another context may
\* have taken the slot meanwhile.
proc_create_fill ==
    /\ ~hung /\ ~tick /\ pc[curr] = "slot"
    /\ where' = [where EXCEPT ![arg[curr]] = "listed"]
    /\ pc' = [pc EXCEPT ![curr] = "clear"]
    /\ torn' = (torn \/ where[arg[curr]] # "free" \/ \E c \in Context : Inside(c))
    /\ UNCHANGED <<ready_head, ready_tail, next, curr, arg, todo, tick, queue, hung>>

\* main.c calls proc_ready on what proc_create has listed already; proc_ready
\* does not look at the state.
proc_ready ==
    /\ Running /\ curr = Shell
    /\ \E p \in todo :
          /\ where[p] # "free"
          /\ where' = [where EXCEPT ![p] = "listed"]
          /\ arg' = [arg EXCEPT ![curr] = p]
          /\ todo' = todo \ {p}
          /\ torn' = (torn \/ where[p] # "asleep" \/ \E c \in Context : Inside(c))
    /\ pc' = [pc EXCEPT ![curr] = "clear"]
    /\ UNCHANGED <<ready_head, ready_tail, next, curr, tick, queue, hung>>

\* ready_push: p->next = 0, and the test of ready_head.
push_clear ==
    /\ ~hung /\ ~tick /\ pc[curr] = "clear"
    /\ next' = [next EXCEPT ![arg[curr]] = Nil]
    /\ pc' = [pc EXCEPT ![curr] = IF ready_head = Nil THEN "tail_first" ELSE "link"]
    /\ UNCHANGED <<ready_head, ready_tail, where, curr, arg, todo, tick, queue, torn, hung>>

\* ready_head = ready_tail = p, right to left.
push_tail_first ==
    /\ ~hung /\ ~tick /\ pc[curr] = "tail_first"
    /\ ready_tail' = arg[curr]
    /\ pc' = [pc EXCEPT ![curr] = "head"]
    /\ UNCHANGED <<ready_head, next, where, curr, arg, todo, tick, queue, torn, hung>>

push_head ==
    /\ ~hung /\ ~tick /\ pc[curr] = "head"
    /\ ready_head' = arg[curr]
    /\ queue' = Append(queue, arg[curr])
    /\ pc' = [pc EXCEPT ![curr] = "run"]
    /\ arg' = [arg EXCEPT ![curr] = Nil]
    /\ UNCHANGED <<ready_tail, next, where, curr, todo, tick, torn, hung>>

\* ready_tail->next = p; a null ready_tail is address 0 and faults.
push_link ==
    /\ ~hung /\ ~tick /\ pc[curr] = "link"
    /\ next' = IF ready_tail = Nil THEN next
               ELSE [next EXCEPT ![ready_tail] = arg[curr]]
    /\ queue' = Append(queue, arg[curr])
    /\ hung' = (ready_tail = Nil)
    /\ pc' = [pc EXCEPT ![curr] = "tail"]
    /\ UNCHANGED <<ready_head, ready_tail, where, curr, arg, todo, tick, torn>>

\* A push that leaves the tail where it was.
push_set_tail_mutant ==
    /\ ~hung /\ ~tick /\ pc[curr] = "tail"
    /\ pc' = [pc EXCEPT ![curr] = "run"]
    /\ arg' = [arg EXCEPT ![curr] = Nil]
    /\ UNCHANGED <<ready_head, ready_tail, next, where, curr, todo, tick, queue, torn, hung>>

\* ready_tail = p.
push_set_tail ==
    /\ ~hung /\ ~tick /\ pc[curr] = "tail"
    /\ ready_tail' = arg[curr]
    /\ pc' = [pc EXCEPT ![curr] = "run"]
    /\ arg' = [arg EXCEPT ![curr] = Nil]
    /\ UNCHANGED <<ready_head, next, where, curr, todo, tick, queue, torn, hung>>

Step ==
    \/ proc_resched
    \/ leave("asleep")
    \/ leave("free")
    \/ timer_irq
    \/ proc_timer_tick
    \/ proc_preempt
    \/ proc_create
    \/ proc_create_fill
    \/ proc_ready
    \/ push_clear
    \/ push_tail_first
    \/ push_head
    \/ push_link
    \/ push_set_tail

Next == (torn => Beyond) /\ Step

Spec == Init /\ [][Next]_vars

-----------------------------------------------------------------------------
\* critical.h:3-6: the timer cannot corrupt the ready list.  What a scan from
\* ready_head sees is what was pushed and not popped, in push order, and once
\* no push is under way ready_tail is its last process.
ListIsQueue ==
    /\ ~Cyclic(ready_head, next)
    /\ AsSeq(ready_head, next) = queue
    /\ (\A c \in Context : ~Inside(c)) =>
          ready_tail = IF queue = <<>> THEN Nil ELSE queue[Len(queue)]

\* A scan by ready_pop ends: the list has no cycle, and nothing is lost in it.
ScansEnd == ~hung /\ ~Cyclic(ready_head, next)

\* The only ways to lose that: a push that another change of the list interrupts
\* (proc_create and proc_ready leave IRQs on), and a push of a process that is
\* not out of the list (main.c:1878, or a slot that two contexts found free).
ListKept == torn \/ (TypeOK /\ ~hung /\ ListIsQueue)

\* A dispatched process has the highest priority of the queue and, among its
\* equals, has waited longest (the comment of ready_pop).
BestDispatched ==
    \A p \in Listed(queue) : p = curr' /\ curr # p =>
        LET i == CHOOSE n \in DOMAIN queue : queue[n] = p
        IN  \A j \in DOMAIN queue :
               \/ Prio[queue[j]] < Prio[p]
               \/ Prio[queue[j]] = Prio[p] /\ i <= j
=============================================================================
