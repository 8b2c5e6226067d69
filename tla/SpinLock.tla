------------------------------ MODULE SpinLock ------------------------------
(***************************************************************************)
(* system/spinlock.c holds two spin locks, of which the build selects one, *)
(* exercised the way spin_selftest() exercises them: every core takes the  *)
(* lock st_per_core times and increments the shared st_counter inside it.  *)
(*                                                                         *)
(* The first part is the ticket lock (SPIN_EXCLUSIVE).  fetch_add is one   *)
(* step: ldaxr/stxr retries until it succeeds, and only the successful     *)
(* store is visible.  The loads and stores of spin_unlock and of           *)
(* st_counter++ are separate steps, as the compiler emits them.  Tickets   *)
(* are unsigned ints of Modulus values (2^32 in the code).                 *)
(*                                                                         *)
(* The second part sets the bakery lock (SPIN_BAKERY, BakeryLock) beside   *)
(* it: the variable build says which lock the self-test is run with, and   *)
(* the variables of the other one stay as they are.                        *)
(***************************************************************************)
EXTENDS Integers, FiniteSets

CONSTANTS
    Core,       \* the cores that contend for the lock (SMP_NCORES of them)
    Modulus,    \* how many values an unsigned int has
    PerCore     \* st_per_core: rounds each core does in the self-test

ASSUME CoreAssumption == IsFiniteSet(Core)
ASSUME ModulusAssumption == Modulus \in Nat /\ Modulus > Cardinality(Core)
ASSUME PerCoreAssumption == PerCore \in Nat \ {0}

VARIABLES
    next_ticket,    \* l->next_ticket
    now_serving,    \* l->now_serving
    pc,             \* where each core is in st_worker / spin_lock / spin_unlock
    me,             \* spin_lock's local ticket
    tmp,            \* the register of a load that a later store uses
    round,          \* st_worker's loop counter i
    st_counter      \* the counter the lock protects

lockVars == <<next_ticket, now_serving>>
vars == <<next_ticket, now_serving, pc, me, tmp, round, st_counter>>

Ticket == 0 .. Modulus - 1

\* x + 1 in an unsigned int.
Inc(x) == IF x = Modulus - 1 THEN 0 ELSE x + 1

\* The places a core can be: outside, spinning, in the critical section
\* (before and after it loaded st_counter), and in spin_unlock (before and
\* after it loaded now_serving).
Places == {"idle", "spin", "cs_load", "cs_store", "rel_load", "rel_store"}

\* The places in which spin_lock has returned and spin_unlock has not.
Held == {"cs_load", "cs_store", "rel_load", "rel_store"}

TypeOK ==
    /\ next_ticket \in Ticket
    /\ now_serving \in Ticket
    /\ pc \in [Core -> Places]
    /\ me \in [Core -> Ticket]
    /\ tmp \in [Core -> Nat]
    /\ round \in [Core -> 0 .. PerCore]
    /\ st_counter \in Nat

\* spin_init, and the counters spin_selftest clears.
Init ==
    /\ next_ticket = 0
    /\ now_serving = 0
    /\ pc = [c \in Core |-> "idle"]
    /\ me = [c \in Core |-> 0]
    /\ tmp = [c \in Core |-> 0]
    /\ round = [c \in Core |-> 0]
    /\ st_counter = 0

Goto(c, place) == pc' = [pc EXCEPT ![c] = place]

\* spin_lock, first half: take a number.
fetch_add(c) ==
    /\ pc[c] = "idle"
    /\ round[c] < PerCore
    /\ me' = [me EXCEPT ![c] = next_ticket]
    /\ next_ticket' = Inc(next_ticket)
    /\ Goto(c, "spin")
    /\ UNCHANGED <<now_serving, tmp, round, st_counter>>

\* A core that enters without waiting for its number.
spin_wait_mutant(c) ==
    /\ pc[c] = "spin"
    /\ Goto(c, "cs_load")
    /\ UNCHANGED <<lockVars, me, tmp, round, st_counter>>

\* spin_lock, second half: the wait loop ends when the number comes up.
spin_wait(c) ==
    /\ pc[c] = "spin"
    /\ now_serving = me[c]
    /\ Goto(c, "cs_load")
    /\ UNCHANGED <<lockVars, me, tmp, round, st_counter>>

\* st_counter = st_counter + 1: load ...
st_load(c) ==
    /\ pc[c] = "cs_load"
    /\ tmp' = [tmp EXCEPT ![c] = st_counter]
    /\ Goto(c, "cs_store")
    /\ UNCHANGED <<lockVars, me, round, st_counter>>

\* ... and store.
st_store(c) ==
    /\ pc[c] = "cs_store"
    /\ st_counter' = tmp[c] + 1
    /\ Goto(c, "rel_load")
    /\ UNCHANGED <<lockVars, me, tmp, round>>

\* spin_unlock: load now_serving ...
unlock_load(c) ==
    /\ pc[c] = "rel_load"
    /\ tmp' = [tmp EXCEPT ![c] = now_serving]
    /\ Goto(c, "rel_store")
    /\ UNCHANGED <<lockVars, me, round, st_counter>>

\* ... and store it back incremented; st_worker's next iteration begins.
unlock_store(c) ==
    /\ pc[c] = "rel_store"
    /\ now_serving' = Inc(tmp[c])
    /\ round' = [round EXCEPT ![c] = @ + 1]
    /\ Goto(c, "idle")
    /\ UNCHANGED <<next_ticket, me, tmp, st_counter>>

AllDone == \A c \in Core : pc[c] = "idle" /\ round[c] = PerCore

\* spin_selftest has collected every worker and returns.
Finished == AllDone /\ UNCHANGED vars

Step(c) ==
    \/ fetch_add(c)
    \/ spin_wait(c)
    \/ st_load(c)
    \/ st_store(c)
    \/ unlock_load(c)
    \/ unlock_store(c)

Next == (\E c \in Core : Step(c)) \/ Finished

\* Every core keeps executing instructions.
Spec == Init /\ [][Next]_vars /\ \A c \in Core : WF_vars(Step(c))

-----------------------------------------------------------------------------
\* spin_lock excludes: two cores are never both between the return of
\* spin_lock and the end of spin_unlock, at any wrap-around of the tickets.
MutualExclusion ==
    \A c, d \in Core : pc[c] \in Held /\ pc[d] \in Held => c = d

\* spin_selftest's expected value (spinlock.c:127): when every worker is done
\* no increment was lost.  A smaller count is what a broken lock shows.
SelfTestCount == AllDone => st_counter = PerCore * Cardinality(Core)

\* How many numbers come up before t does.
Dist(t) == IF t >= now_serving THEN t - now_serving
                               ELSE t - now_serving + Modulus

\* The cores that took a number and have not released it.
Outstanding == {c \in Core : pc[c] # "idle"}

\* The order in which Outstanding will be served: the i-th is the core whose
\* number comes up after i - 1 others (nobody, if the numbers had a gap).
AtPlace(i) == {c \in Outstanding : Dist(me[c]) = i - 1}

ServiceOrder ==
    [i \in 1 .. Cardinality(Outstanding) |->
        IF AtPlace(i) = {} THEN "nobody" ELSE CHOOSE c \in AtPlace(i) : TRUE]

Fifo == INSTANCE FifoLock
            WITH queue <- ServiceOrder, held <- (\E c \in Core : pc[c] \in Held)

\* The comment at spinlock.c:29-30 ("FIFO, so no starvation"): the ticket lock
\* implements the first-come first-served lock, its liveness included, through
\* every wrap-around of the 32-bit tickets.
ImplementsFifoLock == Fifo!Spec
-----------------------------------------------------------------------------
\* Either build.

CONSTANTS
    NCORES,         \* SMP_NCORES, for the bakery lock's arrays
    BakeryModulus,  \* values of an unsigned int, for its numbers
    BakeryPerCore   \* its rounds per core

VARIABLES build, choosing, number, b_pc, b_i, b_max, b_tmp, b_round, b_counter, b_ahead

Bakery == INSTANCE BakeryLock
            WITH Modulus <- BakeryModulus, PerCore <- BakeryPerCore,
                 pc <- b_pc, i <- b_i, max <- b_max, tmp <- b_tmp,
                 round <- b_round, st_counter <- b_counter, ahead <- b_ahead

ASSUME BakeryAssumption == Bakery!ConstantsOK

\* A number is at most the count of the takings so far, so the self-test's
\* numbers do not wrap: 4 cores take the lock 20000 times each by default
\* (tcp_server.c:2518), and an unsigned int has 2^32 values.
ASSUME NumbersAssumption == NCORES * BakeryPerCore < BakeryModulus

bvars == <<choosing, number, b_pc, b_i, b_max, b_tmp, b_round, b_counter, b_ahead>>
lvars == <<vars, bvars, build>>

LockInit == Init /\ Bakery!Init /\ build \in {"SPIN_EXCLUSIVE", "SPIN_BAKERY"}

TicketStep(c) ==
    /\ build = "SPIN_EXCLUSIVE"
    /\ Step(c)
    /\ UNCHANGED <<bvars, build>>

BakeryStep(c) ==
    /\ build = "SPIN_BAKERY"
    /\ Bakery!Step(c)
    /\ UNCHANGED <<vars, build>>

Done == (AllDone \/ Bakery!AllDone) /\ UNCHANGED lvars

LockNext ==
    \/ \E c \in Core : TicketStep(c)
    \/ \E c \in Bakery!CoreId : BakeryStep(c)
    \/ Done

\* Every core keeps executing instructions.
LockSpec ==
    /\ LockInit /\ [][LockNext]_lvars
    /\ \A c \in Core : WF_lvars(TicketStep(c))
    /\ \A c \in Bakery!CoreId : WF_lvars(BakeryStep(c))

-----------------------------------------------------------------------------
\* The bakery lock excludes with plain loads and stores alone (spinlock.h:11-12)
\* and is first come, first served: a core that had its number before this one
\* asked is never overtaken.  With either lock no increment of the shared
\* counter is lost when every worker is done, which is what spin_selftest
\* compares (spinlock.c:127).
LocksExact ==
    /\ Bakery!MutualExclusion /\ Bakery!NotOvertaken
    /\ SelfTestCount /\ Bakery!SelfTestCount

\* Whoever asks for the bakery lock gets it, though it spins on plain loads.
BakeryNoStarvation == Bakery!NoStarvation
=============================================================================
