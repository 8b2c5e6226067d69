---------------------------- MODULE SmpParallel ----------------------------
(***************************************************************************)
(* The two parallel loops that run on the symmetric scheduler              *)
(* (system/smpsched.c): smpsched_parallel, which .avm batches use, and     *)
(* smpsched_nqueens, which an HTTP request starts.  Each splits 0..N-1     *)
(* into units, makes a process of each on a static stack and waits until   *)
(* the units have counted themselves done.  A unit still runs on its stack *)
(* after it has counted itself.  Scheduling is SmpSched's: here a process  *)
(* that is ready may take its next step at any time.                       *)
(***************************************************************************)
EXTENDS Naturals, Sequences, FiniteSets

CONSTANTS
    N, UNITS,       \* the range, and the units asked for
    SLOTS,          \* free slots of proctab
    SP_GEN,         \* generations of stacks of smpsched_parallel
    NoInline,       \* sp_noinline
    CALLS           \* bound on calls

ConstantsOK ==
    /\ N \in Nat /\ UNITS \in Nat \ {0} /\ SLOTS \in Nat /\ SP_GEN \in Nat \ {0}
    /\ NoInline \in BOOLEAN

Kind == {"par", "nq"}
Slot == 1..SLOTS

VARIABLES
    job,        \* kind -> the caller's locals and the statics of its loop
    task,       \* slot -> the process in it
    res,        \* kind -> slot -> sp_res / sm_res: the indices it worked on, with the call
    sp_gen,     \* the next generation of stacks
    hung,       \* sp_hang # 0: some wait was broken off
    wrong       \* a call returned something else than each index of its own once

spvars == <<job, task, res, sp_gen, hung, wrong>>

NoTask == [st |-> "free", kind |-> "par", unit |-> 0, call |-> 0, gen |-> 0]
Begun(pc, call, gen) ==
    [pc |-> pc, call |-> call, t |-> 0, pids |-> << >>, done |-> 0, gen |-> gen, own |-> {}]
Idle == Begun("idle", 0, 0)

PInit ==
    /\ job = [k \in Kind |-> Idle] /\ task = [s \in Slot |-> NoTask]
    /\ res = [k \in Kind |-> [s \in Slot |-> {}]]
    /\ sp_gen = 0 /\ hung = FALSE /\ wrong = FALSE

\* Unit t is [t*n/nunits, (t+1)*n/nunits); the caller's own part begins where units end.
First(t) == (t * N) \div UNITS
Work(k, call, lo, hi) == {<<k, call, i>> : i \in lo..(hi - 1)}
Spawned(k) == IF k = "par" /\ NoInline THEN UNITS ELSE IF k = "par" THEN UNITS - 1 ELSE UNITS

-----------------------------------------------------------------------------
\* A call: one at a time of each kind (sp_busy, sm_busy).  A nested smpsched_parallel runs
\* the whole range itself, a nested smpsched_nqueens returns -1; neither touches the statics.
Call(k, gen) ==
    /\ job[k].pc = "idle" /\ job[k].call < CALLS
    /\ job' = [job EXCEPT ![k] = Begun("spawn", job[k].call + 1, gen)]
NextGen_mutant == sp_gen
NextGen == (sp_gen + 1) % SP_GEN
smpsched_parallel ==
    /\ Call("par", sp_gen) /\ sp_gen' = NextGen
    /\ UNCHANGED <<task, res, hung, wrong>>
smpsched_nqueens == Call("nq", 0) /\ UNCHANGED <<task, res, sp_gen, hung, wrong>>

\* proc_create_static_susp takes a free slot; when there is none the caller keeps the rest.
Create(k) ==
    LET j == job[k]
        free == {s \in Slot : task[s].st = "free"}
    IN  /\ j.pc = "spawn"
        /\ IF j.t < Spawned(k) /\ free # {}
           THEN LET s == CHOOSE x \in free : \A y \in free : x <= y
                IN  /\ task' = [task EXCEPT ![s] = [st |-> "susp", kind |-> k, unit |-> j.t,
                                                    call |-> j.call, gen |-> j.gen]]
                    /\ res' = [res EXCEPT ![k][s] = {}]
                    /\ job' = [job EXCEPT ![k].t = @ + 1, ![k].pids = Append(@, s)]
           ELSE /\ task' = [s \in Slot |-> IF task[s].st = "susp" /\ task[s].kind = k
                                           THEN [task[s] EXCEPT !.st = "ready"] ELSE task[s]]
                /\ job' = [job EXCEPT ![k].pc = "own"]
                /\ UNCHANGED res
        /\ UNCHANGED <<sp_gen, hung, wrong>>

\* The caller's own part: what it keeps by design and the units it could not create.
OwnFrom(j) == First(Len(j.pids))
Own(k) ==
    /\ job[k].pc = "own"
    /\ job' = [job EXCEPT ![k].pc = "wait",
                          ![k].own = Work(k, job[k].call, OwnFrom(job[k]), N)]
    /\ UNCHANGED <<task, res, sp_gen, hung, wrong>>

\* Every unit has counted itself, or, in smpsched_parallel alone, half a second is over.
Total(k) == job[k].own \cup UNION {res[k][job[k].pids[i]] : i \in DOMAIN job[k].pids}
Finish(k) ==
    LET j == job[k]
        parts == [i \in DOMAIN j.pids |-> res[k][j.pids[i]]]
    IN  /\ j.pc = "wait"
        /\ \/ j.done >= Len(j.pids) /\ UNCHANGED hung
           \/ k = "par" /\ j.done < Len(j.pids) /\ hung' = TRUE
        /\ wrong' = (wrong \/ (~hung' /\ (Total(k) # Work(k, j.call, 0, N)
                \/ \E i1, i2 \in DOMAIN parts : i1 # i2 /\ parts[i1] \cap parts[i2] # {})))
        /\ job' = [job EXCEPT ![k].pc = "idle"]
        /\ UNCHANGED <<task, res, sp_gen>>

-----------------------------------------------------------------------------
\* A unit: it works on its range for whichever call's function is installed ...
UnitWork(s) ==
    LET u == task[s]
    IN  /\ u.st = "ready"
        /\ res' = [res EXCEPT ![u.kind][s] = Work(u.kind, job[u.kind].call, First(u.unit), First(u.unit + 1))]
        /\ task' = [task EXCEPT ![s].st = "worked"]
        /\ UNCHANGED <<job, sp_gen, hung, wrong>>
\* ... counts itself under the scheduler lock ...
UnitCounts(s) ==
    /\ task[s].st = "worked"
    /\ job' = [job EXCEPT ![task[s].kind].done = @ + 1]
    /\ task' = [task EXCEPT ![s].st = "counted"]
    /\ UNCHANGED <<res, sp_gen, hung, wrong>>
\* ... and leaves its stack in proc_exit.
Exit(s) ==
    /\ task[s].st = "counted"
    /\ task' = [task EXCEPT ![s] = NoTask]
    /\ UNCHANGED <<job, res, sp_gen, hung, wrong>>

PNext ==
    \/ smpsched_parallel
    \/ smpsched_nqueens
    \/ \E k \in Kind : Create(k) \/ Own(k) \/ Finish(k)
    \/ \E s \in Slot : UnitWork(s) \/ UnitCounts(s) \/ Exit(s)
PSpec == PInit /\ [][PNext]_spvars

-----------------------------------------------------------------------------
\* As long as no wait was broken off, a call returns the work of all units of its own range,
\* each index once, whatever was created, preempted or left running by the other loop and by
\* the calls before it (both loops share proctab, and results are indexed by slot).
ParallelExact == ~wrong

\* Two units of smpsched_parallel live on one stack only when SP_GEN calls lie between them
\* (a unit is still on its stack after the caller has seen it counted).
StackGenerations ==
    \A s, r \in Slot :
        /\ s # r /\ task[s].st # "free" /\ task[r].st # "free"
        /\ task[s].kind = "par" /\ task[r].kind = "par"
        /\ task[s].unit = task[r].unit /\ task[s].gen = task[r].gen
        => (task[s].call + SP_GEN <= task[r].call \/ task[r].call + SP_GEN <= task[s].call)
=============================================================================
