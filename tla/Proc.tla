-------------------------------- MODULE Proc --------------------------------
(***************************************************************************)
(* The process scheduler of system/proc.c in its uniprocessor build, with  *)
(* the timer interrupt that drives it (device/timer/timer.c, the IRQ path  *)
(* of system/irq_dispatch.c and the net_wake hook of loader/main.c).       *)
(*                                                                         *)
(* One core runs everything, and proc_resched, proc_block, proc_sleep_us,  *)
(* proc_exit and the whole interrupt path run with IRQs masked from their  *)
(* first write to the scheduler to their ctxsw: each is one step, and what *)
(* the resumed side does after ctxsw (irq_restore) changes nothing here.   *)
(* proc_create is one step as well in this module; ReadyList takes it      *)
(* apart into its stores, because it runs with IRQs on.                    *)
(*                                                                         *)
(* The ready list is a sequence.  A saved stack pointer is abstracted to   *)
(* whether the frame it points to is one that ctxsw may load.              *)
(***************************************************************************)
EXTENDS Integers, Sequences, FiniteSets

CONSTANTS
    NPROC,      \* number of process slots; slot 0 is NULLPROC
    Boot,       \* the processes main.c has created when the runs start
    Net,        \* g_net_pid: the process that runs net_proc_main
    Creators,   \* the processes that call proc_create
    Sleepers,   \* the processes that call proc_sleep_us
    Prios,      \* priorities given by proc_setprio
    Delays,     \* the delays given to proc_sleep_us
    MaxTime,    \* bound on the clock: no sleep is begun that ends after it
    Wrap,       \* proc_now_us() restarts from 0 when the clock gets here
    TimerOn     \* the timer interrupt is delivered (GIC_BASE builds)

NULLPROC == 0
Pid == 0 .. NPROC - 1

ASSUME NprocAssumption == NPROC \in Nat /\ NPROC > 1
ASSUME RolesAssumption ==
    /\ Boot \subseteq Pid \ {NULLPROC}
    /\ Net \in Pid \ {NULLPROC}
    /\ Creators \subseteq Pid
    /\ Sleepers \subseteq Pid
ASSUME DataAssumption ==
    /\ Prios \subseteq Int
    /\ Delays \subseteq Nat
    /\ MaxTime \in Nat
    /\ Wrap \in Nat \ {0}
    /\ TimerOn \in BOOLEAN

VARIABLES
    state,      \* proctab[p].state
    prio,       \* proctab[p].prio
    wake_at,    \* proctab[p].wake_at_us
    deadline,   \* the true time at which p asked to wake (history)
    sp,         \* proctab[p].sp: "none", a loadable frame or a dead one
    ready,      \* the list from ready_head to ready_tail
    currpid,
    preempt_on,         \* g_preempt_on
    resched_pending,    \* g_resched_pending
    clock,      \* time since power-on
    stale       \* the switches <<old, new>> that loaded a stack pointer that
                \* points to no live frame (history)

schedVars == <<state, sp, ready, currpid, stale>>
vars == <<state, prio, wake_at, deadline, sp, ready, currpid, preempt_on,
          resched_pending, clock, stale>>

PState == {"FREE", "READY", "CURR", "WAIT", "SLEEP"}

TypeOK ==
    /\ state \in [Pid -> PState]
    /\ prio \in [Pid -> Int]
    /\ wake_at \in [Pid -> Nat]
    /\ deadline \in [Pid -> Nat]
    /\ sp \in [Pid -> {"none", "saved", "dead"}]
    /\ ready \in Seq(Pid)
    /\ currpid \in Pid
    /\ preempt_on \in BOOLEAN
    /\ resched_pending \in BOOLEAN
    /\ clock \in 0 .. MaxTime
    /\ stale \subseteq Pid \X Pid

\* q lists the members of S, each once, in pid order.
InPidOrder(q, S) ==
    /\ \A p \in S : \E i \in DOMAIN q : q[i] = p
    /\ \A i, j \in DOMAIN q : i < j => q[i] < q[j]

\* proc_init, then the boot processes of main.c; the shell is running.
Init ==
    /\ state = [p \in Pid |-> IF p = NULLPROC THEN "CURR"
                              ELSE IF p \in Boot THEN "READY" ELSE "FREE"]
    /\ prio = [p \in Pid |-> IF p = NULLPROC THEN 0 ELSE 1]
    /\ wake_at = [p \in Pid |-> 0]
    /\ deadline = [p \in Pid |-> 0]
    /\ sp = [p \in Pid |-> IF p \in Boot THEN "saved" ELSE "none"]
    /\ ready \in [1 .. Cardinality(Boot) -> Boot]
    /\ InPidOrder(ready, Boot)
    /\ currpid = NULLPROC
    /\ preempt_on = TRUE
    /\ resched_pending = FALSE
    /\ clock = 0
    /\ stale = {}

-----------------------------------------------------------------------------
\* The uptime proc_now_us() reports.  ct * 1000000 overflows 64 bits long
\* before the counter does, and the quotient then starts again from 0.
proc_now_us == clock % Wrap

\* A ready_pop that scans with >= and so takes the last of its equals.
IsBest_mutant(q, i) ==
    \A j \in DOMAIN q : \/ prio[q[j]] < prio[q[i]]
                        \/ prio[q[j]] = prio[q[i]] /\ i >= j

\* ready_pop takes the first process of the highest priority ...
IsBest(q, i) ==
    \A j \in DOMAIN q : \/ prio[q[j]] < prio[q[i]]
                        \/ prio[q[j]] = prio[q[i]] /\ i <= j

\* ... and unlinks it.
Without(q, i) ==
    [j \in 1 .. Len(q) - 1 |-> IF j < i THEN q[j] ELSE q[j + 1]]

\* ctxsw(&saved, proctab[new].sp) by the running process.  left is what its
\* slot's sp is afterwards: its saved frame, or nothing when it exits into
\* graveyard_sp.  The second argument is read before the frame is saved, so a
\* switch to oneself loads the old value.
ctxsw(left, new) ==
    /\ currpid' = new
    /\ stale' = IF sp[new] = "saved" THEN stale ELSE stale \cup {<<currpid, new>>}
    /\ sp' = [sp EXCEPT ![currpid] = left, ![new] = "dead"]

\* proc_resched on a process table st and a ready list q.
proc_resched(st, q) ==
    \/ /\ q = <<>>
       /\ state' = st /\ ready' = q
       /\ UNCHANGED <<sp, currpid, stale>>
    \/ \E i \in DOMAIN q :
          LET new  == q[i]
              park == st[currpid] = "CURR" /\ currpid # NULLPROC
          IN  /\ IsBest(q, i)
              /\ ready' = IF park THEN Append(Without(q, i), currpid)
                                  ELSE Without(q, i)
              /\ state' = [st EXCEPT ![currpid] = IF park THEN "READY" ELSE @,
                                     ![new] = "CURR"]
              /\ ctxsw("saved", new)

\* The part proc_block, proc_sleep_us and proc_exit share: the caller's slot
\* gets state st, and the best ready process or else the shell runs.
SwitchAway(st, left) ==
    \/ /\ ready = <<>>
       /\ state' = [state EXCEPT ![currpid] = st, ![NULLPROC] = "CURR"]
       /\ ready' = ready
       /\ ctxsw(left, NULLPROC)
    \/ \E i \in DOMAIN ready :
          /\ IsBest(ready, i)
          /\ state' = [state EXCEPT ![currpid] = st, ![ready[i]] = "CURR"]
          /\ ready' = Without(ready, i)
          /\ ctxsw(left, ready[i])

-----------------------------------------------------------------------------
FreeSlots == {p \in Pid \ {NULLPROC} : state[p] = "FREE"}

\* alloc_slot scans from slot 1.
alloc_slot(p) == p \in FreeSlots /\ \A q \in FreeSlots : p <= q

\* A creation that leaves the slot with the stack pointer of its last owner.
proc_create_mutant ==
    /\ currpid \in Creators
    /\ \E p \in FreeSlots :
          /\ alloc_slot(p)
          /\ state' = [state EXCEPT ![p] = "READY"]
          /\ prio' = [prio EXCEPT ![p] = 1]
          /\ ready' = Append(ready, p)
    /\ UNCHANGED <<wake_at, deadline, sp, currpid, preempt_on, resched_pending,
                   clock, stale>>

\* proc_create / proc_create_static: fill the slot, fake a ctxsw frame on the
\* stack and push.  With no slot or no memory they return -1 and write nothing.
proc_create ==
    /\ currpid \in Creators
    /\ \E p \in FreeSlots :
          /\ alloc_slot(p)
          /\ state' = [state EXCEPT ![p] = "READY"]
          /\ prio' = [prio EXCEPT ![p] = 1]
          /\ sp' = [sp EXCEPT ![p] = "saved"]
          /\ ready' = Append(ready, p)
    /\ UNCHANGED <<wake_at, deadline, currpid, preempt_on, resched_pending,
                   clock, stale>>

\* proc_setprio: no lock, no mask, and the list is not reordered.
proc_setprio ==
    /\ currpid \in Creators
    /\ \E p \in Pid, n \in Prios : prio' = [prio EXCEPT ![p] = n]
    /\ UNCHANGED <<schedVars, wake_at, deadline, preempt_on, resched_pending,
                   clock>>

\* proc_yield is proc_resched.
proc_yield ==
    /\ proc_resched(state, ready)
    /\ UNCHANGED <<prio, wake_at, deadline, preempt_on, resched_pending, clock>>

\* proc_block; its only caller is net_proc_main.
proc_block ==
    /\ currpid = Net
    /\ SwitchAway("WAIT", "saved")
    /\ UNCHANGED <<prio, wake_at, deadline, preempt_on, resched_pending, clock>>

\* proc_sleep_us(us).
proc_sleep_us ==
    /\ currpid \in Sleepers
    /\ \E us \in Delays :
          /\ clock + us <= MaxTime
          /\ wake_at' = [wake_at EXCEPT ![currpid] = proc_now_us + us]
          /\ deadline' = [deadline EXCEPT ![currpid] = clock + us]
    /\ SwitchAway("SLEEP", "saved")
    /\ UNCHANGED <<prio, preempt_on, resched_pending, clock>>

\* proc_exit.
proc_exit ==
    /\ currpid \notin {NULLPROC, Net}
    /\ SwitchAway("FREE", "none")
    /\ UNCHANGED <<prio, wake_at, deadline, preempt_on, resched_pending, clock>>

\* proc_set_preempt, from the HTTP handlers that measure with and without it.
proc_set_preempt ==
    /\ currpid \in Creators
    /\ preempt_on' = ~preempt_on
    /\ UNCHANGED <<schedVars, prio, wake_at, deadline, resched_pending, clock>>

-----------------------------------------------------------------------------
\* A tick that wakes only sleepers whose time is already over.
Due_mutant == {p \in Pid : state[p] = "SLEEP" /\ proc_now_us > wake_at[p]}

\* The sleepers proc_timer_tick finds due.
Due == {p \in Pid : state[p] = "SLEEP" /\ proc_now_us >= wake_at[p]}

\* A hook that does not look at the state first.
NetWoken_mutant == {Net}

\* net_wake readies the net process when it is blocked.
NetWoken == {p \in {Net} : state[p] = "WAIT"}

\* proc_preempt, after the EOI, on the table and list the handler left.
\* With the shell running the request is dropped, not served.
proc_preempt(st, q, pending) ==
    IF preempt_on /\ pending
    THEN /\ resched_pending' = FALSE
         /\ IF currpid # NULLPROC
            THEN proc_resched(st, q)
            ELSE state' = st /\ ready' = q /\ UNCHANGED <<sp, currpid, stale>>
    ELSE /\ resched_pending' = pending
         /\ state' = st /\ ready' = q
         /\ UNCHANGED <<sp, currpid, stale>>

\* The timer interrupt: proc_timer_tick, timer_tick_hook, the resched request,
\* the EOI and proc_preempt.
timer_irq ==
    /\ TimerOn
    /\ \E due \in [1 .. Cardinality(Due) -> Due],
          net \in [1 .. Cardinality(NetWoken) -> NetWoken] :
          /\ InPidOrder(due, Due)
          /\ InPidOrder(net, NetWoken)
          /\ proc_preempt([p \in Pid |-> IF p \in Due \cup NetWoken THEN "READY"
                                                            ELSE state[p]],
                          ready \o due \o net, TRUE)
    /\ UNCHANGED <<prio, wake_at, deadline, preempt_on, clock>>

\* Any other interrupt (USB): it ends in proc_preempt too.
other_irq ==
    /\ TimerOn
    /\ resched_pending
    /\ proc_preempt(state, ready, resched_pending)
    /\ UNCHANGED <<prio, wake_at, deadline, preempt_on, clock>>

Tick ==
    /\ clock < MaxTime
    /\ clock' = clock + 1
    /\ UNCHANGED <<schedVars, prio, wake_at, deadline, preempt_on,
                   resched_pending>>

Next ==
    \/ proc_create
    \/ proc_setprio
    \/ proc_yield
    \/ proc_block
    \/ proc_sleep_us
    \/ proc_exit
    \/ proc_set_preempt
    \/ timer_irq
    \/ other_irq
    \/ Tick

\* Time passes and the timer interrupt keeps coming.  Nothing obliges a
\* process to give up the processor: no fairness on what processes call.
Spec == Init /\ [][Next]_vars /\ WF_vars(timer_irq) /\ WF_vars(Tick)

-----------------------------------------------------------------------------
\* Every process in state READY is on the ready list exactly once, and nobody
\* else is: no operation or interrupt loses a process or queues it twice.
ReadyExact ==
    /\ \A p \in Pid : state[p] = "READY" <=> \E i \in DOMAIN ready : ready[i] = p
    /\ \A i, j \in DOMAIN ready : ready[i] = ready[j] => i = j

\* PR_CURR marks the running process; the shell keeps the mark while it is
\* switched out, no other process does.
OneRunner ==
    /\ state[currpid] = "CURR"
    /\ \A p \in Pid : state[p] = "CURR" => p \in {currpid, NULLPROC}

\* ctxsw is only given a stack pointer that an earlier ctxsw or proc_create
\* wrote and nobody has resumed since.  The one exception is the shell that goes
\* to sleep with nothing ready: proc_sleep_us (proc.c:323-326) switches from the
\* shell to itself and loads the frame of an earlier switch.
NoStaleSwitch == stale \subseteq {<<NULLPROC, NULLPROC>>}

\* The reported uptime has gone back to 0 since p computed its wake_at_us.
WrappedSince(p) == clock - proc_now_us # deadline[p] - wake_at[p]

\* The comment of proc_timer_tick: a tick readies every sleeper whose deadline
\* has passed; none is asleep after it.  Unless the uptime overflowed while it
\* slept: a wake_at_us beyond the overflow is never reached.
TickWakesAll ==
    [][timer_irq => \A p \in Pid :
          state[p] = "SLEEP" /\ deadline[p] <= clock /\ ~WrappedSince(p)
             => state'[p] # "SLEEP"]_vars

\* Round robin by preemption: with equal priorities a ready process gets the
\* processor, whatever the running ones do, unless it falls back to the shell.
ReadyRuns ==
    \A p \in Pid \ {NULLPROC} : state[p] = "READY" /\ currpid # NULLPROC
                                  ~> currpid \in {p, NULLPROC}

\* A sleeper is eventually made ready, unless the uptime overflows while it sleeps.
SleeperWakes ==
    \A p \in Pid : state[p] = "SLEEP" ~> state[p] # "SLEEP" \/ WrappedSince(p)

\* main.c:375-378: the timer interrupt readies the net process and switches to
\* it by preemption.
TickRunsNet == state[Net] = "READY" ~> currpid = Net
=============================================================================
