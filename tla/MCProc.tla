------------------------------- MODULE MCProc -------------------------------
(***************************************************************************)
(* Two populations for the scheduler.  "timer" is the build with a GIC: a  *)
(* fixed set of processes under the timer interrupt, as the constants say. *)
(* "polled" is the build without one: processes are created, reprioritised *)
(* and exit, so that every slot is used, freed and used again.             *)
(***************************************************************************)
EXTENDS Proc

VARIABLE build

Polled == INSTANCE Proc
            WITH Boot <- {1}, Creators <- {0, 1, 2}, Sleepers <- {3},
                 Prios <- {2}, Delays <- {1}, MaxTime <- 1, TimerOn <- FALSE

mcvars == <<vars, build>>

MCInit ==
    \/ build = "timer" /\ Init
    \/ build = "polled" /\ Polled!Init

MCNext ==
    \/ build = "timer" /\ Next /\ UNCHANGED build
    \/ build = "polled" /\ Polled!Next /\ UNCHANGED build

\* In the timer build time passes and the interrupt keeps coming.
MCSpec ==
    /\ MCInit /\ [][MCNext]_mcvars
    /\ WF_mcvars(build = "timer" /\ timer_irq /\ UNCHANGED build)
    /\ WF_mcvars(build = "timer" /\ Tick /\ UNCHANGED build)

-----------------------------------------------------------------------------
\* In the timer build nobody waits for ever.  proc_preempt is a round robin: with
\* equal priorities a ready process gets the processor, whatever the running
\* ones do, unless it falls to the shell.  proc_sleep_us returns: the timer
\* interrupt makes every sleeper ready, unless the uptime overflows while it sleeps.
TimerServes == build = "timer" => ReadyRuns /\ SleeperWakes
=============================================================================
