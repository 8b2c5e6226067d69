----------------------------- MODULE SmpMailbox -----------------------------
(***************************************************************************)
(* The worker-pool of system/smp.c: core 0 posts a chunk of a range to     *)
(* each worker core's mailbox, runs its own chunk, and collects; and       *)
(* kernel_chainload (system/kexec.c), which uses the same mailboxes to     *)
(* stop the workers before it overwrites the kernel.                       *)
(*                                                                         *)
(* Every load and store of the mailbox is a step.  fn is abstracted to the *)
(* number of the call that posted it, and what it returns to the chunk it  *)
(* was run on, so that a total is the sequence of chunks it adds up.       *)
(* A Caller is a process of core 0 that calls smp_parallel_sum; two of     *)
(* them overlap only when the timer preempts one (Preempt).                *)
(***************************************************************************)
EXTENDS Integers, Sequences, FiniteSets

CONSTANTS
    NCORES,     \* SMP_NCORES
    Caller,     \* the processes of core 0 that call smp_parallel_sum
    Sizes,      \* the ranges n they ask for
    MaxCalls,   \* bound on the number of calls
    Late,       \* workers that may come up after smp_init gave up on them
    Slow,       \* workers whose chunk may outlast SMP_WAIT_LIMIT
    Mortal,     \* workers that may hang inside fn for ever
    Preempt,    \* a caller may be preempted inside smp_parallel_sum
    Symmetric,  \* the SMP_SYMMETRIC build: /smpmode?on=1 may be requested
    Chainload   \* kernel_chainload may be called

Worker == 1 .. NCORES - 1
Park == -1              \* smp_park_self as a job

\* What the constants must satisfy.
ConstantsOK ==
    /\ NCORES \in Nat /\ NCORES > 1
    /\ Sizes \subseteq Int /\ \E n \in Sizes \cup {0} : \A m \in Sizes \cup {0} : m <= n
    /\ MaxCalls \in Nat
    /\ Late \cup Slow \cup Mortal \subseteq Worker
    /\ {Preempt, Symmetric, Chainload} \subseteq BOOLEAN

VARIABLES
    online,     \* smp_online[c]
    fn, lo, hi, \* smp_job_fn, smp_job_lo, smp_job_hi
    res,        \* smp_job_res
    seq, done,  \* smp_job_seq, smp_job_done
    booted,     \* smp_init has returned
    cpc, call,  \* each caller: where it is, and its locals
    calls,      \* calls begun so far
    wpc,        \* where each worker is
    last,       \* smp_worker_loop's private last
    arg,        \* the arguments a worker has loaded
    polling,    \* the worker has moved to smpsched_core_loop
    plast, inited,  \* smp_worker_poll_once's static last[] and inited
    smpsched_on,
    ran,        \* how often each chunk was run to its end (history)
    left        \* why smp_park_secondaries did not stop a core (history)

mailbox == <<fn, lo, hi, seq, done, res>>
caller == <<cpc, call, calls>>
polled == <<polling, plast, inited>>
worker == <<wpc, last, arg>>
vars == <<online, mailbox, booted, caller, worker, polled, smpsched_on, ran, left>>

MaxSize == CHOOSE n \in Sizes \cup {0} : \A m \in Sizes \cup {0} : m <= n
Chunk == [fn : {Park} \cup 0 .. MaxCalls, lo : 0 .. MaxSize, hi : 0 .. MaxSize]
Nothing == [fn |-> 0, lo |-> 0, hi |-> 0]
NoCall == [fn |-> 0, n |-> 0, nc |-> 1, c |-> 1, total |-> <<>>]

TypeOK ==
    /\ online \in [Worker -> BOOLEAN]
    /\ \A w \in Worker : [fn |-> fn[w], lo |-> lo[w], hi |-> hi[w]] \in Chunk
    /\ res \in [Worker -> Chunk]
    /\ seq \in [Worker -> 0 .. MaxCalls + 1]
    /\ done \in [Worker -> 0 .. MaxCalls + 1]
    /\ \A p \in Caller : /\ call[p].c \in 1 .. NCORES
                         /\ \A i \in DOMAIN call[p].total : call[p].total[i] \in Chunk
    /\ arg \in [Worker -> Chunk]
    /\ calls \in 0 .. MaxCalls + 1
    /\ last \in [Worker -> 0 .. MaxCalls + 1]
    /\ plast \in [Worker -> 0 .. MaxCalls + 1]
    /\ left \in [Worker -> {"no", "not_up", "given_up"}]

\* .bss, before smp_init; the workers are held in the firmware.
Init ==
    /\ online = [w \in Worker |-> FALSE]
    /\ fn = [w \in Worker |-> 0] /\ lo = fn /\ hi = fn
    /\ res = [w \in Worker |-> Nothing]
    /\ seq = [w \in Worker |-> 0] /\ done = seq
    /\ booted = FALSE
    /\ cpc = [p \in Caller |-> "idle"]
    /\ call = [p \in Caller |-> NoCall]
    /\ calls = 0
    /\ wpc = [w \in Worker |-> "held"]
    /\ last = [w \in Worker |-> 0]
    /\ arg = [w \in Worker |-> Nothing]
    /\ polling = [w \in Worker |-> FALSE]
    /\ plast = [w \in Worker |-> 0]
    /\ inited = FALSE
    /\ smpsched_on = FALSE
    /\ ran = [k \in 1 .. MaxCalls + 1 |-> [c \in 0 .. NCORES - 1 |-> 0]]
    /\ left = [w \in Worker |-> "no"]

-----------------------------------------------------------------------------
\* Core 0.

\* The chunk of core c.
Lo(j, c) == (c * j.n) \div j.nc
Hi(j, c) == ((c + 1) * j.n) \div j.nc
ChunkOf(j, c) == [fn |-> j.fn, lo |-> Lo(j, c), hi |-> Hi(j, c)]

\* The kernel that runs the callers is being overwritten.
Gone == \E p \in Caller : cpc[p] = "gone"

\* p is about to execute `place`, and no other context of core 0 prevents it.
At(p, place) == ~Gone /\ cpc[p] = place

\* fn runs on chunk number c of the call (on whichever core).
Ran(k, c) == ran' = [ran EXCEPT ![k][c] = @ + 1]

\* smp_init returns once every core that answers in time is online.
smp_init ==
    /\ ~booted
    /\ \A w \in Worker \ Late : online[w]
    /\ booted' = TRUE
    /\ UNCHANGED <<online, mailbox, caller, worker, polled, smpsched_on, ran, left>>

MayEnter(p) ==
    /\ booted
    /\ At(p, "idle")
    /\ Preempt \/ \A q \in Caller : cpc[q] = "idle"

\* smp_parallel_sum is called; its arguments are clamped.
smp_parallel_sum(p) ==
    /\ MayEnter(p)
    /\ calls < MaxCalls
    /\ calls' = calls + 1
    /\ \E n \in Sizes, ncores \in 0 .. NCORES + 1 :
        call' = [call EXCEPT ![p] =
                    [fn |-> calls + 1, n |-> IF n < 0 THEN 0 ELSE n, c |-> 1, total |-> <<>>,
                     nc |-> IF ncores < 1 THEN 1 ELSE IF ncores > NCORES THEN NCORES
                                                 ELSE ncores]]
    /\ cpc' = [cpc EXCEPT ![p] = "post"]
    /\ UNCHANGED <<online, mailbox, booted, worker, polled, smpsched_on, ran, left>>

\* kernel_chainload posts smp_park_self to every worker.
kernel_chainload(p) ==
    /\ Chainload /\ calls <= MaxCalls
    /\ MayEnter(p)
    /\ calls' = calls + 1
    /\ call' = [call EXCEPT ![p] = [NoCall EXCEPT !.fn = Park, !.nc = NCORES]]
    /\ cpc' = [cpc EXCEPT ![p] = "post"]
    /\ UNCHANGED <<online, mailbox, booted, worker, polled, smpsched_on, ran, left>>

\* The call of p moves on to `place` with core c next, adding the results rs.
Proceed(p, place, c, rs) ==
    /\ cpc' = [cpc EXCEPT ![p] = place]
    /\ call' = [call EXCEPT ![p].c = c, ![p].total = @ \o rs]
    /\ UNCHANGED <<booted, calls, worker, polled, smpsched_on>>

\* An offline core's chunk is run here and now; smp_park_secondaries passes it over.
post_offline(p) ==
    LET j == call[p] IN
    /\ At(p, "post") /\ j.c < j.nc /\ ~online[j.c]
    /\ IF j.fn = Park
       THEN /\ Proceed(p, "post", j.c + 1, <<>>)
            /\ left' = [left EXCEPT ![j.c] = "not_up"]
            /\ UNCHANGED ran
       ELSE /\ Proceed(p, "post", j.c + 1, <<ChunkOf(j, j.c)>>) /\ Ran(j.fn, j.c)
            /\ UNCHANGED left
    /\ UNCHANGED <<online, mailbox>>

post_fn(p) ==
    LET j == call[p] IN
    /\ At(p, "post") /\ j.c < j.nc /\ online[j.c]
    /\ fn' = [fn EXCEPT ![j.c] = j.fn]
    /\ Proceed(p, "post_lo", j.c, <<>>)
    /\ UNCHANGED <<online, lo, hi, res, seq, done, ran, left>>

post_lo(p) ==
    LET j == call[p] IN
    /\ At(p, "post_lo")
    /\ lo' = [lo EXCEPT ![j.c] = Lo(j, j.c)]
    /\ Proceed(p, "post_hi", j.c, <<>>)
    /\ UNCHANGED <<online, fn, hi, res, seq, done, ran, left>>

post_hi(p) ==
    LET j == call[p] IN
    /\ At(p, "post_hi")
    /\ hi' = [hi EXCEPT ![j.c] = Hi(j, j.c)]
    /\ Proceed(p, "arm", j.c, <<>>)
    /\ UNCHANGED <<online, fn, lo, res, seq, done, ran, left>>

\* smp_job_seq[c]++; a core that has not entered its loop takes this number for
\* the one it begins with, and never sees the job.
arm(p) ==
    LET j == call[p] IN
    /\ At(p, "arm")
    /\ seq' = [seq EXCEPT ![j.c] = @ + 1]
    /\ left' = IF j.fn = Park /\ wpc[j.c] \in {"held", "init"}
               THEN [left EXCEPT ![j.c] = "not_up"] ELSE left
    /\ Proceed(p, "post", j.c + 1, <<>>)
    /\ UNCHANGED <<online, fn, lo, hi, res, done, ran>>

\* Everything is posted: core 0 runs chunk 0 (or starts to confirm the parks).
own_chunk(p) ==
    LET j == call[p]
        mine == [fn |-> j.fn, lo |-> 0, hi |-> IF j.nc = 1 THEN j.n ELSE j.n \div j.nc]
    IN
    /\ At(p, "post") /\ j.c = j.nc
    /\ IF j.fn = Park
       THEN Proceed(p, "confirm", 1, <<>>) /\ UNCHANGED ran
       ELSE Proceed(p, "collect", 1, <<mine>>) /\ Ran(j.fn, 0)
    /\ UNCHANGED <<online, mailbox, left>>

collect_offline(p) ==
    LET j == call[p] IN
    /\ At(p, "collect") /\ j.c < j.nc /\ ~online[j.c]
    /\ Proceed(p, "collect", j.c + 1, <<>>)
    /\ UNCHANGED <<online, mailbox, ran, left>>

\* A collector that does not look at smp_job_done.
collect_done_mutant(p) ==
    LET j == call[p] IN
    /\ At(p, "collect") /\ j.c < j.nc /\ online[j.c]
    /\ Proceed(p, "read", j.c, <<>>)
    /\ UNCHANGED <<online, mailbox, ran, left>>

collect_done(p) ==
    LET j == call[p] IN
    /\ At(p, "collect") /\ j.c < j.nc /\ online[j.c]
    /\ done[j.c] = seq[j.c]
    /\ Proceed(p, "read", j.c, <<>>)
    /\ UNCHANGED <<online, mailbox, ran, left>>

\* The places at which a live worker is on its way to answering.
Busy == {"init", "fn", "lo", "hi", "run", "res", "done"}
Seen(w) == IF polling[w] THEN plast[w] ELSE last[w]

\* A bounded spin on worker w runs out: the worker is slow, it hangs, or it
\* is not going to answer because it never saw the job.
SpinsOut(w) ==
    \/ w \in Slow
    \/ wpc[w] = "hung"
    \/ wpc[w] \notin Busy /\ seq[w] = Seen(w) /\ (polling[w] => inited)

\* A wait without a bound.
collect_timeout_mutant(p) == FALSE /\ UNCHANGED vars

\* SMP_WAIT_LIMIT: core 0 takes the chunk over.
collect_timeout(p) ==
    LET j == call[p] IN
    /\ At(p, "collect") /\ j.c < j.nc /\ online[j.c]
    /\ done[j.c] # seq[j.c]
    /\ SpinsOut(j.c)
    /\ res' = [res EXCEPT ![j.c] = ChunkOf(j, j.c)]
    /\ Ran(j.fn, j.c)
    /\ Proceed(p, "read", j.c, <<>>)
    /\ UNCHANGED <<online, fn, lo, hi, seq, done, left>>

read_res(p) ==
    LET j == call[p] IN
    /\ At(p, "read")
    /\ Proceed(p, "collect", j.c + 1, <<res[j.c]>>)
    /\ UNCHANGED <<online, mailbox, ran, left>>

\* The total is complete.
return(p) ==
    /\ At(p, "collect") /\ call[p].c = call[p].nc
    /\ Proceed(p, "ret", call[p].c, <<>>)
    /\ UNCHANGED <<online, mailbox, ran, left>>

returned(p) ==
    /\ At(p, "ret")
    /\ cpc' = [cpc EXCEPT ![p] = "idle"]
    /\ call' = [call EXCEPT ![p] = NoCall]
    /\ UNCHANGED <<online, mailbox, booted, calls, worker, polled, smpsched_on, ran, left>>

\* Core c counts as stopped without being asked.
confirm_mutant(p) ==
    LET j == call[p] IN
    /\ At(p, "confirm") /\ j.c < j.nc
    /\ online' = [online EXCEPT ![j.c] = FALSE]
    /\ Proceed(p, "confirm", j.c + 1, <<>>)
    /\ UNCHANGED <<mailbox, ran, left>>

\* A core that was passed over is skipped; core c is off (its ack, or AFFINITY_INFO);
\* or SMP_BRINGUP_WAIT is over.
confirm(p) ==
    LET j == call[p] IN
    /\ At(p, "confirm") /\ j.c < j.nc
    /\ \/ (online[j.c] => wpc[j.c] = "parked") /\ UNCHANGED left
       \/ /\ online[j.c] /\ wpc[j.c] # "parked" /\ SpinsOut(j.c)
          /\ left' = [left EXCEPT ![j.c] = IF @ = "no" THEN "given_up" ELSE @]
    /\ online' = [online EXCEPT ![j.c] = FALSE]
    /\ Proceed(p, "confirm", j.c + 1, <<>>)
    /\ UNCHANGED <<mailbox, ran>>

\* Whatever the number of stopped cores, IRQs are masked and the stub copies
\* the staged kernel over this one.
chainload_stub(p) ==
    /\ At(p, "confirm") /\ call[p].c = call[p].nc
    /\ Proceed(p, "gone", call[p].c, <<>>)
    /\ UNCHANGED <<online, mailbox, ran, left>>

\* /smpmode?on=1
smpsched_enable ==
    /\ Symmetric /\ booted /\ ~smpsched_on /\ ~Gone
    /\ smpsched_on' = TRUE
    /\ UNCHANGED <<online, mailbox, booted, caller, worker, polled, ran, left>>

-----------------------------------------------------------------------------
\* The workers.

Goto(w, from, to) == wpc[w] = from /\ wpc' = [wpc EXCEPT ![w] = to]
quiet == <<booted, caller, smpsched_on, left>>

\* smp_secondary_entry announces the core ...
smp_secondary_entry(w) ==
    /\ Goto(w, "held", "init")
    /\ online' = [online EXCEPT ![w] = TRUE]
    /\ UNCHANGED <<mailbox, quiet, last, arg, polled, ran>>

\* ... and smp_worker_loop begins at the sequence number it finds.
loop_enter(w) ==
    /\ Goto(w, "init", "wait")
    /\ last' = [last EXCEPT ![w] = seq[w]]
    /\ UNCHANGED <<online, mailbox, quiet, arg, polled, ran>>

\* A job is noticed when seq differs from last.
loop_notice(w) ==
    /\ seq[w] # last[w]
    /\ Goto(w, "wait", "fn")
    /\ last' = [last EXCEPT ![w] = seq[w]]
    /\ UNCHANGED <<online, mailbox, quiet, arg, polled, ran>>

\* smp_worker_loop leaves for smpsched_core_loop and never comes back.
loop_leave(w) ==
    /\ smpsched_on /\ seq[w] = last[w]
    /\ Goto(w, "wait", "poll")
    /\ polling' = [polling EXCEPT ![w] = TRUE]
    /\ UNCHANGED <<online, mailbox, quiet, last, arg, plast, inited, ran>>

load_fn(w) ==
    /\ Goto(w, "fn", "lo")
    /\ arg' = [arg EXCEPT ![w].fn = fn[w]]
    /\ UNCHANGED <<online, mailbox, quiet, last, polled, ran>>

load_lo(w) ==
    /\ Goto(w, "lo", "hi")
    /\ arg' = [arg EXCEPT ![w].lo = lo[w]]
    /\ UNCHANGED <<online, mailbox, quiet, last, polled, ran>>

load_hi(w) ==
    /\ Goto(w, "hi", "run")
    /\ arg' = [arg EXCEPT ![w].hi = hi[w]]
    /\ UNCHANGED <<online, mailbox, quiet, last, polled, ran>>

\* fn(lo, hi, core) runs to its end.
run_fn(w) ==
    /\ arg[w].fn > 0
    /\ Goto(w, "run", "res")
    /\ Ran(arg[w].fn, w)
    /\ UNCHANGED <<online, mailbox, quiet, last, arg, polled>>

\* smp_park_self: the core is switched off, or spins in the trampoline.
smp_park_self(w) ==
    /\ arg[w].fn = Park
    /\ Goto(w, "run", "parked")
    /\ UNCHANGED <<online, mailbox, quiet, last, arg, polled, ran>>

\* fn never returns.
hang(w) ==
    /\ w \in Mortal /\ arg[w].fn > 0
    /\ Goto(w, "run", "hung")
    /\ UNCHANGED <<online, mailbox, quiet, last, arg, polled, ran>>

store_res(w) ==
    /\ Goto(w, "res", "done")
    /\ res' = [res EXCEPT ![w] = arg[w]]
    /\ UNCHANGED <<online, fn, lo, hi, seq, done, quiet, last, arg, polled, ran>>

store_done(w) ==
    /\ Goto(w, "done", IF polling[w] THEN "poll" ELSE "wait")
    /\ done' = [done EXCEPT ![w] = Seen(w)]
    /\ UNCHANGED <<online, fn, lo, hi, res, seq, quiet, last, arg, polled, ran>>

\* smp_worker_poll_once: the first caller initialises last[] for every core ...
poll_first(w) ==
    /\ ~inited
    /\ Goto(w, "poll", "poll_init")
    /\ UNCHANGED <<online, mailbox, quiet, last, arg, polled, ran>>

poll_init(w) ==
    /\ Goto(w, "poll_init", "poll_seq")
    /\ plast' = seq
    /\ inited' = TRUE
    /\ UNCHANGED <<online, mailbox, quiet, last, arg, polling, ran>>

poll_again(w) ==
    /\ inited
    /\ Goto(w, "poll", "poll_seq")
    /\ UNCHANGED <<online, mailbox, quiet, last, arg, polled, ran>>

\* ... and a job is noticed when seq differs from last[core].
poll_notice(w) ==
    /\ seq[w] # plast[w]
    /\ Goto(w, "poll_seq", "fn")
    /\ plast' = [plast EXCEPT ![w] = seq[w]]
    /\ UNCHANGED <<online, mailbox, quiet, last, arg, polling, inited, ran>>

poll_nothing(w) ==
    /\ seq[w] = plast[w]
    /\ Goto(w, "poll_seq", "poll")
    /\ UNCHANGED <<online, mailbox, quiet, last, arg, polled, ran>>

-----------------------------------------------------------------------------
CallerStep(p) ==
    \/ smp_parallel_sum(p) \/ kernel_chainload(p)
    \/ post_offline(p) \/ post_fn(p) \/ post_lo(p) \/ post_hi(p) \/ arm(p)
    \/ own_chunk(p) \/ collect_offline(p) \/ collect_done(p)
    \/ collect_timeout(p) \/ read_res(p) \/ return(p) \/ returned(p)
    \/ confirm(p) \/ chainload_stub(p)

\* What a live worker keeps doing once it has started.
WorkerStep(w) ==
    \/ loop_enter(w) \/ loop_notice(w) \/ loop_leave(w)
    \/ load_fn(w) \/ load_lo(w) \/ load_hi(w) \/ run_fn(w) \/ smp_park_self(w)
    \/ store_res(w) \/ store_done(w)
    \/ poll_first(w) \/ poll_init(w) \/ poll_again(w) \/ poll_notice(w)
    \/ poll_nothing(w)

Next ==
    \/ smp_init \/ smpsched_enable
    \/ \E p \in Caller : CallerStep(p)
    \/ \E w \in Worker : smp_secondary_entry(w) \/ WorkerStep(w) \/ hang(w)

\* Core 0 and the started workers keep executing; a held worker may stay so.
Spec ==
    /\ Init /\ [][Next]_vars
    /\ \A p \in Caller : WF_vars(CallerStep(p))
    /\ \A w \in Worker : WF_vars(WorkerStep(w))

-----------------------------------------------------------------------------
\* The chunks in total tile [0, n) of this very call.
ExactCover(j) ==
    /\ \A i \in DOMAIN j.total : LET r == j.total[i] IN
            r.lo < r.hi => r.fn = j.fn /\ r.hi <= j.n
    /\ \A x \in 0 .. j.n - 1 :
            Cardinality({i \in DOMAIN j.total :
                            j.total[i].lo <= x /\ x < j.total[i].hi}) = 1

\* smp.h:36-39: smp_parallel_sum returns the sum over every chunk, each counted
\* once, whichever workers are offline, come up late or hang.
ResultCorrect == \A p \in Caller : cpc[p] = "ret" => ExactCover(call[p])

\* A posted chunk is run to its end at most once ("一度だけ", smp.c:208): fn has
\* side effects (it draws bands of the screen and runs actors).
RunOnce == \A k \in DOMAIN ran : \A c \in DOMAIN ran[k] : ran[k][c] <= 1

\* When no call is active no live worker is still inside a posted job, so the
\* callers may reuse the buffers their fn wrote to.
Quiesced ==
    (\A p \in Caller : cpc[p] = "idle")
        => \A w \in Worker : wpc[w] \notin Busy \ {"init"}

\* smp.c:29-31: the bounded wait only trips on a dead or never-started core.
TakeoverOnlyDead ==
    [][\A p \in Caller : collect_timeout(p) => wpc[call[p].c] = "hung"]_vars

\* smp.h:38-39: a hung worker can never wedge the OS.
CallsReturn == \A p \in Caller : (cpc[p] = "post") ~> (cpc[p] \in {"ret", "gone"})

\* kexec.c:46-49: a core that still runs when the kernel is overwritten executes
\* code that is rewritten under it.  Every core has stopped by then but those that
\* were not in their loop when smp_park_secondaries asked them and those it gave up
\* on.
SafeOverwrite == Gone => \A w \in Worker : wpc[w] = "parked" \/ left[w] # "no"

\* It gives up on no core but one that hangs inside a job.
GivesUpHung == \A w \in Worker : left[w] = "given_up" => wpc[w] = "hung"
=============================================================================
