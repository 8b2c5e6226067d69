----------------------------- MODULE BakeryLock -----------------------------
(***************************************************************************)
(* The bakery spin lock of system/spinlock.c (the SPIN_BAKERY build, which *)
(* the Makefile selects), exercised by spin_selftest() like the other.     *)
(* It uses no atomic instruction, so every load and store of choosing[]    *)
(* and number[] is a step of its own, taken in program order: dsb follows  *)
(* every store, and the loads of one wait are assumed not to be reordered. *)
(***************************************************************************)
EXTENDS Integers, FiniteSets

CONSTANTS
    NCORES,     \* SMP_NCORES
    Modulus,    \* how many values an unsigned int has
    PerCore     \* st_per_core

CoreId == 0 .. NCORES - 1

\* What the constants are; SpinLock assumes it of its instance.
ConstantsOK ==
    NCORES \in Nat \ {0} /\ Modulus \in Nat \ {0} /\ PerCore \in Nat \ {0}

VARIABLES
    choosing, number,   \* l->choosing[], l->number[]
    pc, i, max,         \* each core's place and the locals of spin_lock
    tmp,                \* the value of st_counter it has loaded
    round,              \* st_worker's loop counter
    st_counter,
    ahead               \* those who had their numbers when this core
                        \* began and have not released since (history)

shared == <<choosing, number>>
test == <<tmp, round, st_counter>>
vars == <<choosing, number, pc, i, max, test, ahead>>

Places == {"idle", "scan", "number", "clear", "choosing", "nonzero", "less", "equal",
           "cs_load", "cs_store", "release"}
Held == {"cs_load", "cs_store", "release"}

\* It has its number and waits.
Waiting == {"choosing", "nonzero", "less", "equal"}

TypeOK ==
    /\ choosing \in [CoreId -> 0 .. 1]
    /\ number \in [CoreId -> 0 .. Modulus - 1]
    /\ pc \in [CoreId -> Places]
    /\ i \in [CoreId -> 0 .. NCORES]
    /\ max \in [CoreId -> 0 .. Modulus - 1]
    /\ tmp \in [CoreId -> Nat]
    /\ round \in [CoreId -> 0 .. PerCore]
    /\ st_counter \in Nat
    /\ ahead \in [CoreId -> SUBSET CoreId]

\* spin_init, and what spin_selftest clears.
Init ==
    /\ choosing = [c \in CoreId |-> 0] /\ number = choosing
    /\ pc = [c \in CoreId |-> "idle"]
    /\ i = choosing /\ max = choosing /\ tmp = choosing /\ round = choosing
    /\ st_counter = 0
    /\ ahead = [c \in CoreId |-> {}]

Goto(c, from, to) == pc[c] = from /\ pc' = [pc EXCEPT ![c] = to]

\* A lock that does not announce that it is choosing.
lock_begin_mutant(c) ==
    /\ Goto(c, "idle", "scan")
    /\ round[c] < PerCore
    /\ i' = [i EXCEPT ![c] = 0]
    /\ max' = [max EXCEPT ![c] = 0]
    /\ ahead' = [ahead EXCEPT ![c] = {d \in CoreId : pc[d] \in Waiting \cup Held}]
    /\ UNCHANGED <<shared, test>>

\* choosing[me] = 1
lock_begin(c) ==
    /\ Goto(c, "idle", "scan")
    /\ round[c] < PerCore
    /\ choosing' = [choosing EXCEPT ![c] = 1]
    /\ i' = [i EXCEPT ![c] = 0]
    /\ max' = [max EXCEPT ![c] = 0]
    /\ ahead' = [ahead EXCEPT ![c] = {d \in CoreId : pc[d] \in Waiting \cup Held}]
    /\ UNCHANGED <<number, test>>

\* One iteration of the loop that finds the largest number.
lock_scan(c) ==
    /\ i[c] < NCORES
    /\ Goto(c, "scan", "scan")
    /\ max' = [max EXCEPT ![c] = IF number[i[c]] > @ THEN number[i[c]] ELSE @]
    /\ i' = [i EXCEPT ![c] = @ + 1]
    /\ UNCHANGED <<shared, test, ahead>>

\* number[me] = max + 1, in an unsigned int.
lock_number(c) ==
    /\ i[c] = NCORES
    /\ Goto(c, "scan", "clear")
    /\ number' = [number EXCEPT ![c] = (max[c] + 1) % Modulus]
    /\ UNCHANGED <<choosing, i, max, test, ahead>>

\* choosing[me] = 0
lock_clear(c) ==
    /\ Goto(c, "clear", "choosing")
    /\ choosing' = [choosing EXCEPT ![c] = 0]
    /\ i' = [i EXCEPT ![c] = 0]
    /\ UNCHANGED <<number, max, test, ahead>>

\* The waiting loop goes on to the next core.
NextCore(c) == i' = [i EXCEPT ![c] = @ + 1]

lock_skip_self(c) ==
    /\ i[c] = c
    /\ Goto(c, "choosing", "choosing")
    /\ NextCore(c)
    /\ UNCHANGED <<shared, max, test, ahead>>

\* while (choosing[i])
lock_choosing(c) ==
    /\ i[c] < NCORES /\ i[c] # c
    /\ choosing[i[c]] = 0
    /\ Goto(c, "choosing", "nonzero")
    /\ UNCHANGED <<shared, i, max, test, ahead>>

\* A first load of number[i]: zero ends the wait ...
lock_nonzero(c) ==
    /\ pc[c] = "nonzero"
    /\ IF number[i[c]] = 0
       THEN Goto(c, "nonzero", "choosing") /\ NextCore(c)
       ELSE Goto(c, "nonzero", "less") /\ UNCHANGED i
    /\ UNCHANGED <<shared, max, test, ahead>>

\* ... a second load: a smaller one has to be waited for ...
lock_less(c) ==
    /\ pc[c] = "less"
    /\ IF number[i[c]] < number[c] THEN Goto(c, "less", "nonzero")
                                   ELSE Goto(c, "less", "equal")
    /\ UNCHANGED <<shared, i, max, test, ahead>>

\* A tie that nobody wins.
lock_equal_mutant(c) ==
    /\ pc[c] = "equal"
    /\ IF number[i[c]] = number[c]
       THEN Goto(c, "equal", "nonzero") /\ UNCHANGED i
       ELSE Goto(c, "equal", "choosing") /\ NextCore(c)
    /\ UNCHANGED <<shared, max, test, ahead>>

\* ... and a third: an equal one goes first if its core has the lower id.
lock_equal(c) ==
    /\ pc[c] = "equal"
    /\ IF number[i[c]] = number[c] /\ i[c] < c
       THEN Goto(c, "equal", "nonzero") /\ UNCHANGED i
       ELSE Goto(c, "equal", "choosing") /\ NextCore(c)
    /\ UNCHANGED <<shared, max, test, ahead>>

lock_end(c) ==
    /\ i[c] = NCORES
    /\ Goto(c, "choosing", "cs_load")
    /\ UNCHANGED <<shared, i, max, test, ahead>>

st_load(c) ==
    /\ Goto(c, "cs_load", "cs_store")
    /\ tmp' = [tmp EXCEPT ![c] = st_counter]
    /\ UNCHANGED <<shared, i, max, round, st_counter, ahead>>

st_store(c) ==
    /\ Goto(c, "cs_store", "release")
    /\ st_counter' = tmp[c] + 1
    /\ UNCHANGED <<shared, i, max, tmp, round, ahead>>

\* number[me] = 0
spin_unlock(c) ==
    /\ Goto(c, "release", "idle")
    /\ number' = [number EXCEPT ![c] = 0]
    /\ round' = [round EXCEPT ![c] = @ + 1]
    /\ ahead' = [d \in CoreId |-> ahead[d] \ {c}]
    /\ UNCHANGED <<choosing, i, max, tmp, st_counter>>

AllDone == \A c \in CoreId : pc[c] = "idle" /\ round[c] = PerCore

Finished == AllDone /\ UNCHANGED vars

Step(c) ==
    \/ lock_begin(c) \/ lock_scan(c) \/ lock_number(c) \/ lock_clear(c)
    \/ lock_skip_self(c) \/ lock_choosing(c) \/ lock_nonzero(c) \/ lock_less(c)
    \/ lock_equal(c) \/ lock_end(c)
    \/ st_load(c) \/ st_store(c) \/ spin_unlock(c)

Next == (\E c \in CoreId : Step(c)) \/ Finished

\* Every core keeps executing instructions.
Spec == Init /\ [][Next]_vars /\ \A c \in CoreId : WF_vars(Step(c))

-----------------------------------------------------------------------------
\* spinlock.h:11-12: the lock excludes with plain loads and stores alone.
MutualExclusion == \A c, d \in CoreId : pc[c] \in Held /\ pc[d] \in Held => c = d

\* First come, first served: a core that had its number before this one asked
\* is never overtaken.
NotOvertaken == \A c \in CoreId : pc[c] \in Held => ahead[c] = {}

\* Whoever asks for the lock gets it.
NoStarvation == \A c \in CoreId : (pc[c] = "scan") ~> (pc[c] \in Held)

\* spin_selftest's expected value: no increment is lost.
SelfTestCount == AllDone => st_counter = PerCore * NCORES
=============================================================================
