----------------------------- MODULE MCPrograms -----------------------------
(***************************************************************************)
(* The programs a user writes and what runs them, one scene at a time: the *)
(* BASIC windows, the actors and the runner of compiled programs, the      *)
(* actor bytecode machine, and the C compiler with the machine code it     *)
(* emits.  The variables of the parts a scene is not about are Off.        *)
(***************************************************************************)
EXTENDS Integers, Sequences, TLC

CONSTANTS
    Scenes,     \* the scenes of the run
    Corpus,     \* the C programs that scene "compiled" compiles
    MAXLAB, MAXBFX, GADDR, FUEL, TICKS, SP0     \* the compiler's and the machine's bounds

VARIABLES
    scene,
    basic_cur, windows, frames, pending, pbtn, queue, handler, clicks, handled, ended,
    events,
    alive, protect, idle, nact, mq, qh, qt, rslot, rcur, rstack, sender, cur, sstack,
    fut, late, calling, kept, log, gone, calls, misled, deep,
    image, loaded, dispatch, methodid, ready, runner, blob, saved, req, aborted,
    nprog, clobbered, overlaid, slips,
    stage, uploading, mod, live, obj, vmq, par, core, parq, spawnAt, sequential, agreed,
    ctl, cache, shown, ram, victim, list, confirm, ran, ticks, nmod,
    prog, m, spent

Off == "off"

-----------------------------------------------------------------------------
\* A BASIC program with a button, nested FOR loops with a pause between them, and
\* a handler; the loop bodies leave X = 4.  At line 8 it waits until the handler
\* has run.
S(op) == [op |-> op]
AProgram ==
    << [op |-> "BUTTON", line |-> 10],
       [op |-> "FOR", var |-> "I", from |-> 1, to |-> 2],
       [op |-> "FOR", var |-> "J", from |-> 2, to |-> 3],
       [op |-> "LET", var |-> "X"], S("NEXT"), S("PAUSE"), S("NEXT"),
       [op |-> "IF", var |-> "K", to |-> 1, line |-> 8], S("END"),
       S("READ"), S("RESTORE"), [op |-> "LET", var |-> "K"], S("RETURN") >>

Basic == INSTANCE BasicWin
    WITH Win <- {0}, Prog <- AProgram, Items <- 1, FOR_MAX <- 3, GOSUB_MAX <- 2,
         WHILE_MAX <- 1, CLICKS <- 2, EVENTS <- 4, bs <- windows

basicvars == <<basic_cur, windows, frames, pending, pbtn, queue, handler, clicks,
               handled, ended, events>>
BasicOff ==
    /\ basic_cur = Off /\ windows = Off /\ frames = Off /\ pending = Off /\ pbtn = Off
    /\ queue = Off /\ handler = Off /\ clicks = Off /\ handled = Off /\ ended = Off
    /\ events = Off

-----------------------------------------------------------------------------
\* Two actors, a ring of four messages, two reply slots, one future, and calls nested
\* deeper than their stack.
Actors == INSTANCE CcActors
    WITH ACT_MAX <- 2, MQ_MAX <- 4, RSLOT_MAX <- 2, FUT_MAX <- 1, NOW_DEPTH <- 1,
         Methods <- {1, 2}, OPS <- 6, DEPTH <- 4, frames <- calling

actorvars == <<alive, protect, idle, nact, mq, qh, qt, rslot, rcur, rstack, sender, cur,
               sstack, fut, late, calling, kept, log, gone, calls, misled, deep>>
ActorsOff ==
    /\ alive = Off /\ protect = Off /\ idle = Off /\ nact = Off /\ mq = Off /\ qh = Off
    /\ qt = Off /\ rslot = Off /\ rcur = Off /\ rstack = Off /\ sender = Off
    /\ cur = Off /\ sstack = Off /\ fut = Off /\ late = Off /\ calling = Off
    /\ kept = Off /\ log = Off /\ gone = Off /\ calls = Off /\ misled = Off
    /\ deep = Off

-----------------------------------------------------------------------------
\* The runner of compiled programs, its commands given over HTTP and in the shell
\* window.
Runner == INSTANCE Jit
    WITH Requesters <- {"net", "wm"}, Unpreempted <- {"wm"}, Kinds <- {"c", "aipl"},
         BlobKinds <- {"c"}, WAIT <- 3, GIVEUP <- 1, RUNS <- 2,
         Commands <- {"cc", "http", "load", "make", "run"}, BUDGET <- 2, SLEEP <- 2

jitvars == <<image, loaded, dispatch, methodid, ready, runner, blob, saved, req,
             aborted, nprog, clobbered, overlaid, slips>>
JitOff ==
    /\ image = Off /\ loaded = Off /\ dispatch = Off /\ methodid = Off /\ ready = Off
    /\ runner = Off /\ blob = Off /\ saved = Off /\ req = Off /\ aborted = Off
    /\ nprog = Off /\ clobbered = Off /\ overlaid = Off /\ slips = Off

-----------------------------------------------------------------------------
\* A bytecode module whose actor 0 makes two others, sends to them, and draws
\* frames in turn; two cores dispatch batches of three.
AMethod ==
    0 :> [tick |-> << <<"spawn", 1>>, <<"spawn", 2>>, <<"send", 1, "go">>,
                      <<"send", 2, "go">>, <<"send", 0, "draw">> >>,
          draw |-> << <<"wait">>, <<"add", 1>>, <<"send", 0, "draw2">> >>,
          draw2 |-> << <<"wait">>, <<"set", 0>>, <<"send", 0, "draw">> >>]
    @@ 1 :> [go |-> << <<"add", 1>>, <<"send", 2, "end">>, <<"spawn", 1>> >>,
             end |-> << <<"add", 2>> >>]
    @@ 2 :> [go |-> << <<"set", 3>>, <<"send", 1, "end">> >>,
             end |-> << <<"add", 4>> >>]

Vm == INSTANCE Avm
    WITH Method <- AMethod, MAXOBJ <- 6, VM_Q <- 6, NCORES <- 2, PAR_SENDQ <- 3,
         BATCH_MAX <- 3, FC_MAX <- 3, RAM_SLOTS <- 1, CHUNKS <- 2, Apps <- {"x"},
         MODS <- 2, TICKS <- 6,
         q <- vmq, expect <- sequential

avmvars == <<stage, uploading, mod, live, obj, vmq, par, core, parq, spawnAt,
             sequential, agreed, ctl, cache, shown, ram, victim, list, confirm, ran,
             ticks, nmod>>
AvmOff ==
    /\ stage = Off /\ uploading = Off /\ mod = Off /\ live = Off /\ obj = Off
    /\ vmq = Off /\ par = Off /\ core = Off /\ parq = Off /\ spawnAt = Off
    /\ sequential = Off /\ agreed = Off /\ ctl = Off /\ cache = Off /\ shown = Off
    /\ ram = Off /\ victim = Off /\ list = Off /\ confirm = Off /\ ran = Off
    /\ ticks = Off /\ nmod = Off

-----------------------------------------------------------------------------
\* The compiler's output for the programs it is checked on, and what C says each
\* of them returns.
Diverges == -999999
Comp == INSTANCE Compiler
Program == Comp!Programs(Corpus)
Expected == Comp!Values(Corpus)
Chained == Comp!Chained(Corpus)
Unnarrowed == Comp!Unnarrowed(Corpus)
Compiled == [p \in DOMAIN Program |-> Comp!Compile(Program[p])]

Machine == INSTANCE CompiledRun

ccvars == <<prog, m, spent>>
CompiledOff ==
    /\ prog = Off /\ m = Off /\ spent = Off

-----------------------------------------------------------------------------
Init ==
    /\ scene \in Scenes
    /\ \/ scene = "basic" /\ Basic!Init /\ ActorsOff /\ JitOff /\ AvmOff /\ CompiledOff
       \/ scene = "actors" /\ Actors!CInit /\ BasicOff /\ JitOff /\ AvmOff /\ CompiledOff
       \/ scene = "runner" /\ Runner!JInit /\ BasicOff /\ ActorsOff /\ AvmOff /\ CompiledOff
       \/ scene = "avm" /\ Vm!AInit /\ BasicOff /\ ActorsOff /\ JitOff /\ CompiledOff
       \/ scene = "compiled" /\ Machine!CompInit /\ BasicOff /\ ActorsOff /\ JitOff /\ AvmOff

\* A step A of a scene: everything the scene is not about stays as it is.
InBasic(A) ==
    scene = "basic" /\ A /\ UNCHANGED <<scene, actorvars, jitvars, avmvars, ccvars>>
InActors(A) ==
    scene = "actors" /\ A /\ UNCHANGED <<scene, basicvars, jitvars, avmvars, ccvars>>
InJit(A) ==
    scene = "runner" /\ A /\ UNCHANGED <<scene, basicvars, actorvars, avmvars, ccvars>>
InAvm(A) ==
    scene = "avm" /\ A /\ UNCHANGED <<scene, basicvars, actorvars, jitvars, ccvars>>
InCompiled(A) ==
    scene = "compiled" /\ A /\ UNCHANGED <<scene, basicvars, actorvars, jitvars, avmvars>>

Next ==
    \/ InBasic(Basic!Next)
    \/ InActors(Actors!CNext)
    \/ InJit(Runner!JNext)
    \/ InAvm(Vm!ANext)
    \/ InCompiled(Machine!CompNext)

allvars == <<scene, basicvars, actorvars, jitvars, avmvars, ccvars>>

\* The loops that run BASIC windows go on, and so does a compiled program.
Fairness ==
    /\ \A p \in Basic!Proc : WF_allvars(InBasic(Basic!Loop(p)))
    /\ WF_allvars(InCompiled(Machine!CompNext))

Spec == Init /\ [][Next]_allvars /\ Fairness

-----------------------------------------------------------------------------
\* basic.c and basicwin.c: nested FOR loops left by their NEXT have run their
\* bodies the right number of times, whatever clicks and breaks came in between,
\* and each click on a program button calls its handler exactly once.
BasicExact == scene = "basic" => Basic!LoopsRunTheirCount(4) /\ Basic!ClickHandledOnce

\* cc.c: the message ring holds what was sent and not consumed, in order, though
\* cc_select takes messages from its middle; whatever calls nest inside a
\* handler, `sender` is again its own when it runs on, and the reply slots in
\* use are those of the calls in progress, until calls nest deeper than the 16
\* that cc_now_push has room for.
ActorsExact ==
    scene = "actors" =>
        Actors!RingInOrder /\ (~deep => Actors!SenderRestored /\ Actors!SlotsHeld)

\* shell.c and cc.c: a static stack never carries two live programs, although a
\* waiter may give up on its runner, until two requesters cross or a make or run
\* outruns its command; a run half done is overwritten only then or after its
\* waiter gave up (shell.c:368-373), and until then a message to the resident
\* program runs that program.
ProgramsSound == scene = "runner" => Runner!ProgramsSound

\* avm.c: a batch of messages spread over the cores leaves the queue and the
\* actors as dispatching them one after another would, and the frame on the
\* screen is one the running module drew.
VmExact == scene = "avm" => Vm!BatchIsSequential /\ Vm!ShowsOwnFrame

\* codegen.c: the code emitted for a program returns what C says the program
\* returns, unless the tick budget cut one of its loops short; a program that uses
\* the value of an assignment to a char gets it before it is narrowed
\* (codegen.c:205-209, 269-273), where C says after.
CompiledRight == scene = "compiled" => Machine!CompiledRight

\* cc.c:115: every loop back-edge counts a tick, so a compiled program ends by
\* itself or by its budget.
RunsEnd == (scene = "compiled") ~> (scene = "compiled" /\ Machine!Halted)

\* Ctrl-C ends a BASIC program (basic.c, basicwin.c), unless a second RUN is
\* entered over the first, and the budget ends a compiled one that would run for
\* ever (cc.c:115, codegen.c).
ProgramsStop ==
    /\ RunsEnd
    /\ LET Broken == windows[0].running /\ windows[0].brk
       IN  (scene = "basic" /\ Broken)
            ~> (scene = "basic" /\ (~windows[0].running \/ ~Basic!NoReentry))
=============================================================================
