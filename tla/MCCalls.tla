------------------------------- MODULE MCCalls -------------------------------
(***************************************************************************)
(* Calls that wait for somebody else, one scene at a time: a parallel sum  *)
(* that waits for the worker cores, and a remote object call that waits    *)
(* for another board.  The variables of the part a scene is not about are  *)
(* Off.                                                                    *)
(***************************************************************************)
EXTENDS Integers, Sequences, FiniteSets

CONSTANTS
    \* the worker pool: cores, ranges asked for, calls, workers that come up late or hang
    NCORES, Sizes, MaxCalls, Late, Mortal,
    \* remote calls: the boards; and of each scene the kinds of requests, the slots of
    \* the answer cache and of a gather, the ids, the requests, repetitions, depth of
    \* the stack and restarts
    Board, Limits

VARIABLES
    scene,
    online, fn, lo, hi, res, seq, done, booted, cpc, call, calls, wpc, last, arg,
    polling, plast, inited, smpsched_on, ran, left,
    net, next_id, wait_id, have, reply, ans, ans_next, mwait, mgot, stack, ncalls,
    reboots, runs, results

Off == "off"

-----------------------------------------------------------------------------
\* The worker pool.  "pool": workers come up late or hang, and a chainload comes
\* at any time.  "slow": so they do, one call is made, and any worker's job may outlast
\* the wait for it, so that what is promised is the end of calls and which cores a
\* chainload leaves running.  "symmetric": all workers are up and move to the polling
\* loop in the middle of calls; what a call returns then is right with three cores
\* and may be wrong with the four of SMP_NCORES, so that only its end is promised.
Pool == INSTANCE SmpMailbox
    WITH Caller <- {"p"}, Slow <- {}, Preempt <- FALSE, Symmetric <- FALSE,
         Chainload <- TRUE

Tardy == INSTANCE SmpMailbox
    WITH Caller <- {"p"}, MaxCalls <- 1, Slow <- 1 .. NCORES - 1, Preempt <- FALSE,
         Symmetric <- FALSE, Chainload <- TRUE

Sym == INSTANCE SmpMailbox
    WITH NCORES <- 3, Caller <- {"p"}, MaxCalls <- 2, Slow <- {}, Preempt <- FALSE,
         Sizes <- {3}, Late <- {}, Mortal <- {}, Symmetric <- TRUE, Chainload <- FALSE

poolvars == <<online, fn, lo, hi, res, seq, done, booted, cpc, call, calls, wpc, last, arg,
              polling, plast, inited, smpsched_on, ran, left>>
PoolOff ==
    /\ online = Off /\ fn = Off /\ lo = Off /\ hi = Off /\ res = Off /\ seq = Off
    /\ done = Off /\ booted = Off /\ cpc = Off /\ call = Off /\ calls = Off /\ wpc = Off
    /\ last = Off /\ arg = Off /\ polling = Off /\ plast = Off /\ inited = Off
    /\ smpsched_on = Off /\ ran = Off /\ left = Off

-----------------------------------------------------------------------------
\* The boards.  "leaf": methods call nobody, no more requests are made than the
\* answer cache has slots and ids do not come round, so the promises of
\* aipl_remote.c must hold.  "nested": methods call out while they run for another
\* board, inside a call that waits.  "restart": so they do, and a board may restart.
\* In the last two of the run ids come round again at once and the tables are full
\* after one entry.
Objects(s) == INSTANCE AiplRemote
    WITH Boards <- Board, Leaf <- s = "leaf", Ops <- Limits[s].ops,
         ANS_MAX <- Limits[s].answers, MESH_MAX <- Limits[s].gathers,
         IdLimit <- Limits[s].ids, MaxCalls <- Limits[s].requests,
         MaxTries <- Limits[s].repeats, MaxDepth <- Limits[s].depth,
         MaxReboots <- Limits[s].restarts

RemoteScene == {"leaf", "nested", "restart"}

Within(ops, answers, gathers, ids, requests, repeats, depth, restarts) ==
    [ops |-> ops, answers |-> answers, gathers |-> gathers, ids |-> ids,
     requests |-> requests, repeats |-> repeats, depth |-> depth, restarts |-> restarts]
AllOps == {"call", "send", "broadcast", "gather", "probe"}
ALimits ==
    [leaf    |-> Within(AllOps, 4, 8, 1000000, 2, 1, 2, 0),
     nested  |-> Within({"call", "gather"}, 1, 1, 1, 3, 0, 3, 0),
     restart |-> Within(AllOps, 1, 1, 1, 2, 1, 3, 1)]

aiplvars == <<net, next_id, wait_id, have, reply, ans, ans_next, mwait, mgot, stack, ncalls,
              reboots, runs, results>>
AiplOff ==
    /\ net = Off /\ next_id = Off /\ wait_id = Off /\ have = Off /\ reply = Off /\ ans = Off
    /\ ans_next = Off /\ mwait = Off /\ mgot = Off /\ stack = Off /\ ncalls = Off
    /\ reboots = Off /\ runs = Off /\ results = Off

-----------------------------------------------------------------------------
ASSUME CallsAssumption ==
    /\ Pool!ConstantsOK /\ Tardy!ConstantsOK /\ Sym!ConstantsOK /\ Board # {}
    /\ \A s \in RemoteScene : Objects(s)!ConstantsOK
    /\ Limits["leaf"].requests <= Limits["leaf"].answers
    /\ Limits["leaf"].requests < Limits["leaf"].ids
    /\ Limits["leaf"].restarts = 0

Init ==
    \/ scene = "pool" /\ Pool!Init /\ AiplOff
    \/ scene = "slow" /\ Tardy!Init /\ AiplOff
    \/ scene = "symmetric" /\ Sym!Init /\ AiplOff
    \/ \E s \in RemoteScene : scene = s /\ Objects(s)!Init /\ PoolOff

\* A step A of scene s: everything the scene is not about stays as it is.
InPool(s, A) == scene = s /\ A /\ UNCHANGED <<scene, aiplvars>>
InAipl(s, A) == scene = s /\ A /\ UNCHANGED <<scene, poolvars>>

Next ==
    \/ InPool("pool", Pool!Next) \/ InPool("slow", Tardy!Next) \/ InPool("symmetric", Sym!Next)
    \/ \E s \in RemoteScene : InAipl(s, Objects(s)!Next)

allvars == <<scene, poolvars, aiplvars>>

\* The fairness of each part's specification.  A scene never changes, so the
\* fairness of a disjunction of steps of different scenes is the fairness of
\* each of them; one formula for several is cheaper to check.
CallerStep ==
    \/ InPool("pool", Pool!CallerStep("p"))
    \/ InPool("slow", Tardy!CallerStep("p"))
    \/ InPool("symmetric", Sym!CallerStep("p"))
WorkerStep(w) ==
    \/ InPool("pool", w \in Pool!Worker /\ Pool!WorkerStep(w))
    \/ InPool("slow", w \in Tardy!Worker /\ Tardy!WorkerStep(w))
    \/ InPool("symmetric", w \in Sym!Worker /\ Sym!WorkerStep(w))
BoardStep(i) ==
    \E s \in RemoteScene : InAipl(s, i \in Board /\ Objects(s)!progress(i))

Fairness ==
    /\ WF_allvars(CallerStep)
    /\ \A i \in Board \cup Pool!Worker \cup Sym!Worker : WF_allvars(WorkerStep(i) \/ BoardStep(i))

Spec == Init /\ [][Next]_allvars /\ Fairness

-----------------------------------------------------------------------------
\* smp.h:36-39: smp_parallel_sum returns the sum over every chunk of its range,
\* each counted once, whichever workers are offline, come up late or hang; a
\* chunk is run to its end at most once, and after a call no live worker is still
\* inside one.
PoolExact ==
    scene = "pool" => Pool!TypeOK /\ Pool!ResultCorrect /\ Pool!RunOnce /\ Pool!Quiesced

\* kexec.c:46-49: a core that still runs when the kernel is overwritten executes
\* code that is rewritten under it.  Every core has stopped by then, but those that
\* had not entered their loop when they were asked and those the wait gave up on;
\* and where no job outlasts the wait, it gives up on none but a core that hangs.
SafeOverwrite ==
    /\ scene = "pool" => Pool!SafeOverwrite /\ Pool!GivesUpHung
    /\ scene = "slow" => Tardy!SafeOverwrite

\* smp.h:38-39: a hung worker can never wedge the OS: smp_parallel_sum returns.
CallsReturn ==
    LET Pooled == scene \in {"pool", "slow", "symmetric"}
    IN  (Pooled /\ cpc["p"] = "post") ~> (Pooled /\ cpc["p"] \in {"ret", "gone"})

\* aipl_remote.c: where methods call nobody, what a call hands to the program are
\* answers to that very request, at most one per board, and a repeated request
\* does not run the method again (aipl_remote.c:93), however late or often
\* datagrams come.  In every scene the tables and the stack keep their shapes.
LeafCalls ==
    /\ \A s \in RemoteScene : scene = s => Objects(s)!TypeOK
    /\ scene = "leaf" => Objects("leaf")!AnswersRight /\ Objects("leaf")!AtMostOnce

\* No board waits for ever, not even when two boards call one another from
\* within the methods they run for each other, or when one restarts.
CallsUnwind ==
    LET Remote == scene \in RemoteScene
    IN  \A i \in Board : (Remote /\ stack[i] # <<>>) ~> (Remote /\ stack[i] = <<>>)
=============================================================================
