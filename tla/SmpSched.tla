------------------------------ MODULE SmpSched ------------------------------
(***************************************************************************)
(* The symmetric scheduler (SMP_SYMMETRIC): proc.c with one ready list     *)
(* shared by all cores under proc_sched_lock, smpsched.c's core loops, the *)
(* entry trampoline of ctxsw.S, and the timer interrupt, which core 0      *)
(* alone receives.  The runs start after /smpmode?on=1.                    *)
(*                                                                         *)
(* The lock is held across ctxsw and released by the side that resumes.    *)
(* What happens under it is one step, except where another core reads the  *)
(* same state without the lock.  All processes have the priority           *)
(* create gives them, so the ready list is first in, first out.  The lock  *)
(* is either the ticket lock, or the bakery lock, whose spin_lock does not *)
(* look at its own core's number and so lets a holder in again.            *)
(***************************************************************************)
EXTENDS Integers, Sequences, FiniteSets

CONSTANTS
    NCORES,     \* SMP_NCORES
    Proc,       \* processes other than the idle ones
    Fresh,      \* those of them that have never run yet
    Susp,       \* those that proc_create_static_susp created and nobody readied
    Net,        \* the process that runs net_proc_main
    Exits,      \* processes that call proc_exit
    Sleepers,   \* processes that call proc_sleep_us
    Readiers,   \* at most one: the process that created Susp and readies them
    TimerOn,    \* the timer interrupt is delivered to core 0
    Bakery,     \* proc_sched_lock is a bakery lock
    Beyond      \* what becomes of a race with the timer is followed

Core == 0 .. NCORES - 1

\* NULLPROC for core 0, SMPIDLE_PID(c) for the others.
Idle(c) == <<"idle", c>>
IdleProc == {Idle(c) : c \in Core}
Pid == Proc \cup IdleProc

\* What the constants must satisfy.
ConstantsOK ==
    /\ NCORES \in Nat \ {0} /\ IsFiniteSet(Proc)
    /\ Proc \cap IdleProc = {}
    /\ Net \in Proc \ Susp /\ Susp \subseteq Fresh /\ Fresh \subseteq Proc /\ Exits \subseteq Proc
    /\ Sleepers \subseteq Proc
    /\ Readiers \subseteq Proc /\ Cardinality(Readiers) <= 1
    /\ TimerOn \in BOOLEAN /\ Bakery \in BOOLEAN /\ Beyond \in BOOLEAN

VARIABLES
    state,      \* proctab[p].state
    ready,      \* the ready list
    curr,       \* smpsched_curr[c]
    on,         \* whose stack core c is executing on
    at,         \* where process p is in its code
    ret,        \* where p was when the interrupt it is handling came
    lock,       \* the cores that hold proc_sched_lock
    event,      \* the cores whose event register is set, so that wfe returns
    exit_core, exit_me, \* proc_exit: the core id read, and the local `me`
    moved,      \* cores that Net has run on (history)
    raced       \* history: the timer interrupt met one of the three places below
                \* that do not bear it

exitVars == <<exit_core, exit_me>>
vars == <<state, ready, curr, on, at, ret, lock, event, exit_core, exit_me, moved, raced>>

\* Spinning on the lock, by the operation that wants it.
Spinning == {"resched", "block", "sleep", "exit", "ready", "tick", "net_wake", "poll", "loop"}

\* IRQs are on: user code, proc_ready called from it, the part of proc_exit
\* before irq_save, and the trampoline once it has executed daifclr.
Unmasked == {"user", "ready", "ready_held", "exit_pid", "tramp_unlock"}

TypeOK ==
    /\ state \in [Pid -> {"FREE", "READY", "CURR", "WAIT", "SLEEP"}]
    /\ ready \in Seq(Proc)
    /\ curr \in [Core -> Pid]
    /\ on \in [Core -> Pid]
    /\ lock \subseteq Core /\ event \subseteq Core
    /\ at \in [Pid -> Spinning \cup Unmasked
                 \cup {"resumed", "tramp", "exit_pop", "irq_end", "preempt", "wfe", "gone"}]

\* Every process but the idle and the suspended ones is on the list; nobody
\* holds the lock.
Init ==
    /\ state = [p \in Pid |-> IF p \in Susp THEN "WAIT"
                              ELSE IF p \in Proc THEN "READY" ELSE "CURR"]
    /\ ready \in [1 .. Cardinality(Proc \ Susp) -> Proc \ Susp]
    /\ \A p \in Proc \ Susp : \E i \in DOMAIN ready : ready[i] = p
    /\ curr = [c \in Core |-> Idle(c)]
    /\ on = curr
    /\ at = [p \in Pid |-> IF p \in Fresh THEN "tramp"
                           ELSE IF p \in Proc THEN "resumed"
                           ELSE IF p = Idle(0) THEN "user" ELSE "loop"]
    /\ ret = [p \in Pid |-> "none"]
    /\ lock = {} /\ event = Core
    /\ exit_core = [p \in Proc |-> 0] /\ exit_me = [p \in Proc |-> p]
    /\ moved = {} /\ raced = FALSE

-----------------------------------------------------------------------------
\* The process on core c is at `place`.
Here(c, place) == at[on[c]] = place
Go(c, place) == at' = [at EXCEPT ![on[c]] = place]

\* spin_lock by core c can return.
CanLock(c) == lock = {} \/ (Bakery /\ lock = {c})

\* Where a process goes on after an operation: back to its code, or on with
\* the interrupt it is handling.
Resume(p) == IF ret[p] # "none" THEN "irq_end" ELSE "user"

\* ctxsw on core c, the lock held, from the process on it (which will
\* continue at `place`) to new.
SwitchTo(c, new, place) ==
    /\ curr' = [curr EXCEPT ![c] = new]
    /\ on' = [on EXCEPT ![c] = new]
    /\ at' = [at EXCEPT ![on[c]] = place]
    /\ lock' = lock \cup {c}
    /\ moved' = IF new = Net THEN moved \cup {c} ELSE moved

\* The operation ends on core c without a switch; the loop of a secondary core
\* goes on to its wfe.
Stay(c) ==
    /\ Go(c, IF on[c] \in IdleProc \ {Idle(0)} THEN "wfe" ELSE Resume(on[c]))
    /\ UNCHANGED <<curr, on, lock, moved>>

\* User code, the shell's included, calls proc_resched (or proc_yield).
call_resched(c) ==
    /\ Here(c, "user")
    /\ Go(c, "resched")
    /\ UNCHANGED <<state, ready, curr, on, ret, lock, exitVars, moved, event, raced>>

\* The caller goes to the end of the list unless it is an idle process.
Parks(p) == state[p] = "CURR" /\ p \notin IdleProc

proc_resched(c) ==
    /\ Here(c, "resched") /\ CanLock(c)
    /\ IF ready = <<>> THEN Stay(c) /\ UNCHANGED <<state, ready>>
       ELSE LET old == curr[c] IN
            /\ ready' = Tail(ready) \o (IF Parks(old) THEN <<old>> ELSE <<>>)
            /\ state' = [state EXCEPT ![old] = IF Parks(old) THEN "READY" ELSE @,
                                      ![Head(ready)] = "CURR"]
            /\ SwitchTo(c, Head(ready), "resumed")
    /\ UNCHANGED <<ret, exitVars, event, raced>>

\* The popped process is forgotten.
Chosen_mutant(c) == Idle(c)

\* A pop that leaves the process on the list.
Rest_mutant == ready

\* The next process of core c: the head of the list or its idle process.
Chosen(c) == IF ready = <<>> THEN Idle(c) ELSE Head(ready)
Rest == IF ready = <<>> THEN <<>> ELSE Tail(ready)

call_block(c) ==
    /\ Here(c, "user") /\ on[c] = Net
    /\ Go(c, "block")
    /\ UNCHANGED <<state, ready, curr, on, ret, lock, exitVars, moved, event, raced>>

proc_block(c) ==
    /\ Here(c, "block") /\ CanLock(c)
    /\ state' = [state EXCEPT ![curr[c]] = "WAIT", ![Chosen(c)] = "CURR"]
    /\ ready' = Rest
    /\ SwitchTo(c, Chosen(c), "resumed")
    /\ UNCHANGED <<ret, exitVars, event, raced>>

\* proc_sleep_us marks the caller before it takes the lock ...
call_sleep(c) ==
    /\ Here(c, "user") /\ on[c] \in Sleepers
    /\ state' = [state EXCEPT ![curr[c]] = "SLEEP"]
    /\ Go(c, "sleep")
    /\ UNCHANGED <<ready, curr, on, ret, lock, exitVars, moved, event, raced>>

\* ... and then switches away.
proc_sleep_us(c) ==
    /\ Here(c, "sleep") /\ CanLock(c)
    /\ state' = [state EXCEPT ![Chosen(c)] = "CURR"]
    /\ ready' = Rest
    /\ SwitchTo(c, Chosen(c), "resumed")
    /\ UNCHANGED <<ret, exitVars, event, raced>>

\* proc_exit reads currpid with IRQs on: the core id first ...
exit_begin(c) ==
    /\ Here(c, "user") /\ on[c] \in Exits
    /\ exit_core' = [exit_core EXCEPT ![on[c]] = c]
    /\ Go(c, "exit_pid")
    /\ UNCHANGED <<state, ready, curr, on, ret, lock, exit_me, moved, event, raced>>

\* ... then that core's entry of smpsched_curr.  Preempted in between, the process
\* may be on another core by now.
exit_pid(c) ==
    /\ Here(c, "exit_pid")
    /\ exit_me' = [exit_me EXCEPT ![on[c]] = curr[exit_core[on[c]]]]
    /\ raced' = (raced \/ curr[exit_core[on[c]]] # on[c])
    /\ Go(c, "exit")
    /\ UNCHANGED <<state, ready, curr, on, ret, lock, exit_core, moved, event>>

\* The slot is free while the process still runs on its stack ...
exit_free(c) ==
    /\ Here(c, "exit") /\ CanLock(c)
    /\ state' = [state EXCEPT ![exit_me[on[c]]] = "FREE"]
    /\ lock' = lock \cup {c}
    /\ Go(c, "exit_pop")
    /\ UNCHANGED <<ready, curr, on, ret, exitVars, moved, event, raced>>

\* ... until the switch, which never comes back.
proc_exit(c) ==
    /\ Here(c, "exit_pop")
    /\ state' = [state EXCEPT ![Chosen(c)] = "CURR"]
    /\ ready' = Rest
    /\ SwitchTo(c, Chosen(c), "gone")
    /\ UNCHANGED <<ret, exitVars, event, raced>>

\* The resumed side releases the lock it was handed and restores IRQs.
resumed(c) ==
    /\ Here(c, "resumed")
    /\ lock' = lock \ {c}
    /\ Go(c, IF on[c] \in IdleProc \ {Idle(0)} THEN "loop" ELSE Resume(on[c]))
    /\ UNCHANGED <<state, ready, curr, on, ret, exitVars, moved, event, raced>>

\* proc_entry_trampoline_smp: daifclr first ...
tramp(c) ==
    /\ Here(c, "tramp")
    /\ Go(c, "tramp_unlock")
    /\ UNCHANGED <<state, ready, curr, on, ret, lock, exitVars, moved, event, raced>>

\* ... then smpsched_after_switch.
smpsched_after_switch(c) ==
    /\ Here(c, "tramp_unlock")
    /\ lock' = lock \ {c}
    /\ Go(c, "user")
    /\ UNCHANGED <<state, ready, curr, on, ret, exitVars, moved, event, raced>>

\* User code calls proc_ready on a process it has created suspended.
call_ready(c) ==
    /\ Here(c, "user") /\ on[c] \in Readiers
    /\ \E p \in Susp : state[p] = "WAIT"
    /\ Go(c, "ready")
    /\ UNCHANGED <<state, ready, curr, on, ret, lock, exitVars, moved, event, raced>>

ready_enter(c) ==
    /\ Here(c, "ready") /\ CanLock(c)
    /\ lock' = lock \cup {c}
    /\ Go(c, "ready_held")
    /\ UNCHANGED <<state, ready, curr, on, ret, exitVars, moved, event, raced>>

proc_ready(c) ==
    /\ Here(c, "ready_held")
    /\ \E p \in Susp :
         /\ state[p] = "WAIT"
         /\ state' = [state EXCEPT ![p] = "READY"]
         /\ ready' = Append(ready, p)
    /\ lock' = lock \ {c} /\ event' = Core
    /\ Go(c, "user")
    /\ UNCHANGED <<curr, on, ret, exitVars, moved, raced>>

-----------------------------------------------------------------------------
\* What becomes of a race with the timer is followed only if asked for.
Goes == raced => Beyond

\* The timer interrupt on core 0.  proc_ready and the trampoline hold the lock
\* with IRQs on: the handler then spins for a lock its own core holds.
timer_irq ==
    /\ Goes /\ TimerOn
    /\ at[on[0]] \in Unmasked /\ ret[on[0]] = "none"
    /\ ret' = [ret EXCEPT ![on[0]] = at[on[0]]]
    /\ raced' = (raced \/ 0 \in lock)
    /\ Go(0, "tick")
    /\ UNCHANGED <<state, ready, curr, on, lock, exitVars, moved, event>>

\* Some core executes on the stack of p.
OnCore(p) == \E c \in Core : on[c] = p

\* proc_timer_tick: any of the sleepers may be due.  They are queued in the
\* order of their slots, which may be any.  One that is still on its way to sleep
\* (proc.c:319) is readied while it runs.
proc_timer_tick ==
    /\ Here(0, "tick") /\ CanLock(0)
    /\ \E S \in SUBSET {p \in Proc : state[p] = "SLEEP"} :
         /\ state' = [p \in Pid |-> IF p \in S THEN "READY" ELSE state[p]]
         /\ \E q \in [1 .. Cardinality(S) -> S] :
              /\ \A p \in S : \E i \in DOMAIN q : q[i] = p
              /\ ready' = ready \o q
         /\ raced' = (raced \/ \E p \in S : OnCore(p))
    /\ Go(0, IF state[Net] = "WAIT" THEN "net_wake" ELSE "preempt")
    /\ UNCHANGED <<curr, on, ret, lock, exitVars, moved, event>>

\* net_wake's proc_ready.
net_wake ==
    /\ Here(0, "net_wake") /\ CanLock(0)
    /\ state' = [state EXCEPT ![Net] = "READY"]
    /\ ready' = Append(ready, Net)
    /\ event' = Core
    /\ Go(0, "preempt")
    /\ UNCHANGED <<curr, on, ret, lock, exitVars, moved, raced>>

\* proc_preempt, after EOI: an idle core polls, a busy one reschedules unless
\* preemption is off (g_preempt_on) or actors are being pumped (g_actor_pump).
\* The handler has set g_resched_pending.
proc_preempt ==
    /\ Here(0, "preempt")
    /\ IF curr[0] \in IdleProc THEN Go(0, "poll")
       ELSE \E g_preempt_on, g_actor_pump \in BOOLEAN :
               Go(0, IF g_preempt_on /\ ~g_actor_pump THEN "resched" ELSE "irq_end")
    /\ UNCHANGED <<state, ready, curr, on, ret, lock, exitVars, moved, event, raced>>

\* The window loop polls once a frame.
call_poll ==
    /\ Here(0, "user") /\ on[0] = Idle(0)
    /\ Go(0, "poll")
    /\ UNCHANGED <<state, ready, curr, on, ret, lock, exitVars, moved, event, raced>>

\* Taking a process off the list and switching to it, without parking.
Take(c, place) ==
    /\ Here(c, place) /\ CanLock(c)
    /\ IF ready = <<>> THEN Stay(c) /\ UNCHANGED state
       ELSE /\ state' = [state EXCEPT ![Head(ready)] = "CURR"]
            /\ SwitchTo(c, Head(ready), "resumed")
    /\ ready' = Rest
    /\ UNCHANGED <<ret, exitVars, event, raced>>

smpsched_poll_once == Take(0, "poll")

\* smpsched_core_loop of a secondary core ...
smpsched_core_loop(c) == Take(c, "loop")

\* ... which finds nothing and waits for an event.  The ticket lock's spin_unlock
\* has just sent one; the bakery lock's sends none, and then only proc_ready wakes
\* the core, not the tick or a process that is parked.
wfe(c) ==
    /\ Here(c, "wfe") /\ (Bakery => c \in event)
    /\ event' = event \ {c}
    /\ Go(c, "loop")
    /\ UNCHANGED <<state, ready, curr, on, ret, lock, exitVars, moved, raced>>

\* The interrupted code goes on, on the core the process is on by now.
irq_end(c) ==
    /\ Here(c, "irq_end")
    /\ at' = [at EXCEPT ![on[c]] = ret[on[c]]]
    /\ ret' = [ret EXCEPT ![on[c]] = "none"]
    /\ UNCHANGED <<state, ready, curr, on, lock, exitVars, moved, event, raced>>

-----------------------------------------------------------------------------
\* The calls user code may or may not make.
Call(c) ==
    /\ Goes
    /\ call_resched(c) \/ call_block(c) \/ call_sleep(c) \/ exit_begin(c) \/ call_ready(c)

\* Everything else a core does by itself.
Kernel(c) ==
    /\ Goes
    /\ \/ proc_resched(c) \/ proc_block(c) \/ proc_sleep_us(c)
       \/ exit_pid(c) \/ exit_free(c) \/ proc_exit(c)
       \/ resumed(c) \/ tramp(c) \/ smpsched_after_switch(c)
       \/ ready_enter(c) \/ proc_ready(c)
       \/ smpsched_core_loop(c) \/ wfe(c) \/ irq_end(c)

Kernel0 ==
    /\ Goes
    /\ proc_timer_tick \/ net_wake \/ proc_preempt \/ call_poll \/ smpsched_poll_once

Next == (\E c \in Core : Call(c) \/ Kernel(c)) \/ Kernel0 \/ timer_irq

\* Cores keep executing; both locks are fair to the cores that spin; a process
\* keeps calling the kernel sooner or later (those on cores 1-3 compute and
\* finish, smpsched.h:15-17), interrupted or not.
Spec ==
    /\ Init /\ [][Next]_vars
    /\ \A c \in Core : SF_vars(Kernel(c)) /\ SF_vars(Call(c))
    /\ SF_vars(Kernel0)

-----------------------------------------------------------------------------
\* No process executes on two cores at once: nobody resumes a frame that is
\* still in use.  The hand-over of the lock across ctxsw is there for this
\* (proc.c:20-23).
OneCore == \A c, d \in Core : on[c] = on[d] => c = d

\* A process is on the list exactly when it is READY, and once.
ReadyExact ==
    /\ \A i, j \in DOMAIN ready : ready[i] = ready[j] => i = j
    /\ \A p \in Proc : (\E i \in DOMAIN ready : ready[i] = p) <=> state[p] = "READY"

\* A core never spins for the lock it holds itself: with the ticket lock it
\* would spin for ever, with the bakery lock it would be let in.
NoSelfSpin == \A c \in Core : at[on[c]] \in Spinning => c \notin lock

\* smpsched.h:12-13: devices, actors, network and screen are touched by core 0
\* alone; all of them run in the net process.
NetOnCore0 == moved \subseteq {0}

\* proc_exit frees the slot of the process that called it.
ExitFreesSelf == \A p \in Pid : state[p] = "FREE" => at[p] \in {"exit_pop", "gone"}

\* proc.c:393-395: once a slot is free its stack is not touched any more.
FreeOffStack == \A c \in Core : state[on[c]] # "FREE"

\* A process on the ready list gets a core, whichever cores are busy.
ReadyDispatched == \A p \in Proc : (state[p] = "READY") ~> (state[p] # "READY")
=============================================================================
