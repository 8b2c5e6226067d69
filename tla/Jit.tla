-------------------------------- MODULE Jit --------------------------------
(***************************************************************************)
(* The life of a compiled program: the one code buffer and arena of        *)
(* src/cc/cc.c, the program left resident in them, the runner process of    *)
(* src/shell/shell.c (cc, POST /cc) on its static stack, and the processes *)
(* of `make` and `run` on another.  A requester is the context that serves *)
(* HTTP or the shell window; time is counted in units of five seconds.     *)
(***************************************************************************)
EXTENDS Integers, FiniteSets

CONSTANTS
    Requesters,      \* contexts: "net" (net_proc), "wm" (the screen loop)
    Unpreempted,     \* those the timer never preempts (NULLPROC)
    Commands,        \* what they ask for: "cc", "http", "load", "make", "run"
    Kinds, BlobKinds,\* kinds of program: "c", "aipl" (has dispatch and methods)
    WAIT, GIVEUP,    \* units the waiter waits, and waits for an old runner
    BUDGET, SLEEP,   \* units the program may compute, and sleep
    RUNS             \* bound: programs submitted

VARIABLES
    image,     \* the program in g_codebuf and the arena, 0 when half written
    loaded, dispatch, methodid,  \* g_res_loaded; whose code they point into
    ready,     \* g_cc_ready: the program cc_exec_compiled would run
    runner,    \* the process on g_ccrun_stack
    blob,      \* the process on ccblob_stack
    saved,     \* the executable-form blob in g_exeblob: program or 0
    req,       \* per requester: what it is doing, since when
    aborted,   \* g_aborted
    nprog,     \* programs submitted
    clobbered, \* a stack was given to a second live process (history)
    overlaid,  \* the code buffer was rewritten under a live process (history)
    slips      \* what nothing in the code prevents and has happened (history)

jvars == <<image, loaded, dispatch, methodid, ready, runner, blob, saved, req,
           aborted, nprog, clobbered, overlaid, slips>>

ghosts == <<clobbered, overlaid, slips>>
resident == <<loaded, dispatch, methodid>>
Idle == [at |-> "idle", cmd |-> "", kind |-> "c", t |-> 0]
Gone == [st |-> "free", prog |-> 0, cmd |-> "", kind |-> "c", burnt |-> 0, slept |-> 0]
Live(p) == p.st # "free"

(* The screen loop is never preempted: nothing runs between its check and   *)
(* its proc_create_static.                                                 *)
Others(r) == \A u \in Unpreempted \ {r} : req[u].at # "go"
Anyone == \A u \in Unpreempted : req[u].at # "go"

(* Mutant: the resident program survives the run that overwrites it. *)

Invalidate == loaded' = FALSE /\ dispatch' = 0 /\ methodid' = 0

(* r begins a command while another requester is inside one: g_rx_busy keeps *)
(* neither out, for a waiter lets the other run (proc_resched).            *)
Begin(r) ==
    slips' = IF \E q \in Requesters \ {r} : req[q].at # "idle"
             THEN slips \cup {"crossed"} ELSE slips

(* The code buffer is rewritten.                                           *)
Overlay(users) == overlaid' = (overlaid \/ \E p \in users : Live(p))

-----------------------------------------------------------------------------
(* Mutant: the previous runner is not looked at before its stack is reused. *)
OldAlive_mutant == FALSE

OldAlive == Live(runner)

(* ccrun_spawn_and_wait.  A previous runner still alive is asked to abort   *)
(* and given GIVEUP units; otherwise the stack is free.                    *)
Ask(r, cmd, kind) ==
    /\ Others(r) /\ req[r].at = "idle" /\ cmd \in Commands \cap {"cc", "http"}
    /\ nprog < RUNS
    /\ req' = [req EXCEPT ![r] = [at |-> IF OldAlive THEN "old" ELSE "go",
                                  cmd |-> cmd, kind |-> kind, t |-> 0]]
    /\ aborted' = (aborted \/ OldAlive)
    /\ Begin(r)
    /\ UNCHANGED <<image, resident, ready, runner, blob, saved, nprog, clobbered, overlaid>>

OldLeaves(r) ==
    /\ Others(r) /\ req[r].at = "old"
    /\ \/ ~Live(runner) /\ req' = [req EXCEPT ![r].at = "go"]
       \/ Live(runner) /\ req[r].t >= GIVEUP /\ req' = [req EXCEPT ![r] = Idle]
    /\ UNCHANGED <<image, resident, ready, runner, blob, saved, aborted, nprog, ghosts>>

Spawn(r) ==
    /\ Others(r) /\ req[r].at = "go"
    /\ nprog' = nprog + 1
    /\ clobbered' = (clobbered \/ Live(runner))
    /\ runner' = [Gone EXCEPT !.st = "new", !.prog = nprog + 1,
                              !.cmd = req[r].cmd, !.kind = req[r].kind]
    /\ req' = [req EXCEPT ![r].at = "wait", ![r].t = 0]
    /\ UNCHANGED <<image, resident, ready, blob, saved, aborted, overlaid, slips>>

(* The waiter: the runner's slot is free, or WAIT units have passed.        *)
Waited(r) ==
    /\ Others(r) /\ req[r].at = "wait"
    /\ \/ ~Live(runner) /\ UNCHANGED <<aborted, slips>>
       \/ /\ Live(runner) /\ req[r].t >= WAIT
          /\ aborted' = TRUE /\ slips' = slips \cup {"given_up"}
    /\ req' = [req EXCEPT ![r] = Idle]
    /\ UNCHANGED <<image, resident, ready, runner, blob, saved, nprog, clobbered, overlaid>>

-----------------------------------------------------------------------------
(* The runner: ccrun_proc_entry (cc_compile, cc_exec_compiled) and           *)
(* ccrun_source_entry (cc_run_source).                                     *)

Compile ==
    /\ Anyone /\ runner.st = "new"
    /\ runner' = [runner EXCEPT !.st = "compile"]
    /\ image' = 0 /\ ready' = (IF runner.cmd = "cc" THEN 0 ELSE ready) /\ Invalidate
    /\ Overlay({blob})
    /\ UNCHANGED <<blob, saved, req, aborted, nprog, clobbered, slips>>

(* A compile error, or code that runs: cc_set_deadline forgets an abort.    *)
Compiled ==
    /\ Anyone /\ runner.st = "compile"
    /\ \/ runner' = Gone /\ UNCHANGED <<image, ready, dispatch, aborted>>
       \/ /\ image' = runner.prog
          /\ ready' = IF runner.cmd = "cc" THEN runner.prog ELSE ready
          /\ dispatch' = IF runner.kind = "aipl" THEN runner.prog ELSE 0
          /\ aborted' = FALSE
          /\ runner' = [runner EXCEPT !.st = "run"]
    /\ UNCHANGED <<loaded, methodid, blob, saved, req, nprog, ghosts>>

(* wait(): a real sleep while the allowance lasts; the deadline moves with  *)
(* it.  Past the allowance the run is aborted.                             *)
cc_wait ==
    /\ Anyone /\ runner.st = "run"
    /\ IF runner.slept < SLEEP
       THEN runner' = [runner EXCEPT !.st = "asleep", !.slept = @ + 1] /\ UNCHANGED aborted
       ELSE aborted' = TRUE /\ UNCHANGED runner
    /\ UNCHANGED <<image, resident, ready, blob, saved, req, nprog, ghosts>>

(* Five seconds pass for everyone: a running program spends its budget and, *)
(* past it, cc_tick stops it; a sleeping one wakes.                        *)
Elapse ==
    /\ Anyone /\ \E r \in Requesters : req[r].at \in {"old", "wait"}
    /\ runner.st \notin {"new", "compile"}       \* a compile takes no such time
    /\ \A r \in Requesters : req[r].at = "wait" => req[r].t < WAIT
    /\ \A r \in Requesters : req[r].at = "old" => req[r].t < GIVEUP
    /\ req' = [r \in Requesters |->
                  IF req[r].at \in {"old", "wait"} THEN [req[r] EXCEPT !.t = @ + 1] ELSE req[r]]
    /\ runner.st = "run" => runner.burnt < BUDGET /\ ~aborted
    /\ runner' = CASE runner.st = "run" -> [runner EXCEPT !.burnt = @ + 1]
                   [] runner.st = "asleep" -> [runner EXCEPT !.st = "run"]
                   [] OTHER -> runner
    /\ UNCHANGED <<image, resident, ready, blob, saved, aborted, nprog, ghosts>>

(* main() returns (or was stopped).  cc_run_source leaves an AIPL program   *)
(* resident; proc_exit frees the slot.                                     *)
RunEnds ==
    /\ Anyone /\ runner.st = "run"
    /\ runner' = Gone
    /\ IF runner.cmd = "http" /\ dispatch # 0
       THEN loaded' = TRUE /\ methodid' = runner.prog ELSE UNCHANGED <<loaded, methodid>>
    /\ UNCHANGED <<image, dispatch, ready, blob, saved, req, aborted, nprog, ghosts>>

-----------------------------------------------------------------------------
(* POST /actor/load compiles and starts a program in the caller's context. *)
cc_actor_load(r) ==
    /\ Others(r) /\ req[r].at = "idle" /\ "load" \in Commands /\ nprog < RUNS
    /\ nprog' = nprog + 1
    /\ \/ /\ image' = nprog + 1 /\ loaded' = TRUE
          /\ dispatch' = nprog + 1 /\ methodid' = nprog + 1 /\ aborted' = FALSE
       \/ image' = 0 /\ Invalidate /\ UNCHANGED aborted
    /\ Overlay({runner, blob}) /\ Begin(r)
    /\ UNCHANGED <<ready, runner, blob, saved, req, clobbered>>

(* make compiles into the code buffer and keeps a copy; run and make then   *)
(* put the copy back and start it.  Neither looks whether the stack or the *)
(* buffer is in use.                                                       *)
cc_compile_blob(r, kind) ==
    /\ Others(r) /\ req[r].at = "idle" /\ "make" \in Commands /\ nprog < RUNS
    /\ nprog' = nprog + 1
    /\ clobbered' = (clobbered \/ Live(blob))
    /\ loaded' = FALSE /\ dispatch' = 0
    /\ blob' = [Gone EXCEPT !.st = "compile", !.prog = nprog + 1, !.kind = kind]
    /\ image' = 0 /\ Overlay({runner, blob}) /\ Begin(r)
    /\ req' = [req EXCEPT ![r].at = "blob"]
    /\ UNCHANGED <<methodid, ready, runner, saved, aborted>>

BlobCompiled ==
    /\ Anyone /\ blob.st = "compile"
    /\ blob' = Gone
    /\ \/ image' = blob.prog /\ saved' = [prog |-> blob.prog, kind |-> blob.kind]
       \/ UNCHANGED <<image, saved>>
    /\ UNCHANGED <<resident, ready, runner, req, aborted, nprog, ghosts>>

BlobDispatch == IF saved.kind = "aipl" THEN saved.prog ELSE 0
cc_run_blob(r) ==
    /\ Others(r) /\ req[r].at = "idle" /\ "run" \in Commands /\ saved.prog # 0
    /\ clobbered' = (clobbered \/ Live(blob))
    /\ blob' = [Gone EXCEPT !.st = "run", !.prog = saved.prog, !.kind = saved.kind]
    /\ image' = saved.prog /\ aborted' = FALSE
    /\ dispatch' = BlobDispatch
    /\ Overlay({runner, blob}) /\ Begin(r)
    /\ req' = [req EXCEPT ![r].at = "blob"]
    /\ UNCHANGED <<loaded, methodid, ready, runner, saved, nprog>>

BlobEnds ==
    /\ Anyone /\ blob.st = "run" /\ blob' = Gone
    /\ UNCHANGED <<image, resident, ready, runner, saved, req, aborted, nprog, ghosts>>

(* After one proc_resched the command goes on, whether the process is done  *)
(* or was preempted.                                                       *)
BlobReturns(r) ==
    /\ Others(r) /\ req[r].at = "blob"
    /\ slips' = IF Live(blob) THEN slips \cup {"outrun"} ELSE slips
    /\ req' = [req EXCEPT ![r] = Idle]
    /\ UNCHANGED <<image, resident, ready, runner, blob, saved, aborted, nprog, clobbered, overlaid>>

JInit ==
    /\ image = 0 /\ loaded = FALSE /\ dispatch = 0 /\ methodid = 0 /\ ready = 0
    /\ runner = Gone /\ blob = Gone /\ saved = [prog |-> 0, kind |-> "c"]
    /\ req = [r \in Requesters |-> Idle]
    /\ aborted = FALSE /\ nprog = 0
    /\ clobbered = FALSE /\ overlaid = FALSE /\ slips = {}

JNext ==
    \/ Compile \/ Compiled \/ cc_wait \/ Elapse \/ RunEnds \/ BlobCompiled \/ BlobEnds
    \/ \E r \in Requesters :
          \/ OldLeaves(r) \/ Spawn(r) \/ Waited(r) \/ cc_run_blob(r) \/ BlobReturns(r)
          \/ cc_actor_load(r)
          \/ \E k \in Kinds, c \in {"cc", "http"} : Ask(r, c, k)
          \/ \E k \in BlobKinds : cc_compile_blob(r, k)

JSpec == JInit /\ [][JNext]_jvars

-----------------------------------------------------------------------------
(* A static stack never carries two live processes, although a waiter may   *)
(* give up on its runner and leave it asleep on that stack (shell.c,        *)
(* ccrun_spawn_and_wait), until two requesters cross or a make or run       *)
(* outruns its command.                                                    *)
StackAlone == clobbered => slips \cap {"crossed", "outrun"} # {}

(* The code buffer is not rewritten under a process that lives in it (cc.c, *)
(* the one-run-at-a-time comment of the split compile and exec) unless its  *)
(* waiter gave up on it, two requesters crossed, or a make or run outran   *)
(* its command; until then a run half done finds its own program there.    *)
RunsOwnImage ==
    /\ overlaid => slips # {}
    /\ ~overlaid /\ runner.st \in {"run", "asleep"} => image = runner.prog
    /\ ~overlaid /\ blob.st = "run" => image = blob.prog

(* A message to the resident program (cc_actor_send_msg, cc_remote_dispatch) *)
(* runs that program: dispatch and __method_id point into the code that is *)
(* in the buffer, until it is rewritten under a run that goes on.          *)
ResidentValid ==
    ~overlaid /\ loaded /\ dispatch # 0 /\ methodid # 0 => image = dispatch /\ image = methodid

(* The allowances of a run end it before its waiter gives up, as the        *)
(* comment of CC_SLEEP_BUDGET_MS says.                                     *)
RunEndsInTime == [][ \A r \in Requesters :
    req[r].at = "wait" /\ req'[r].at = "idle" => ~Live(runner) ]_jvars

ProgramsSound == StackAlone /\ RunsOwnImage /\ ResidentValid
=============================================================================
