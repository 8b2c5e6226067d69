---------------------------- MODULE MCScheduling ----------------------------
(***************************************************************************)
(* The parts of the kernel that decide which process or core runs, one     *)
(* scene at a time: the ready list, the symmetric scheduler, and the boot  *)
(* that sets them up.  The variables of the parts a scene is not about are *)
(* Off.                                                                    *)
(***************************************************************************)
EXTENDS Integers, Sequences, FiniteSets, FiniteSetTheorems, SequenceTheorems, TLAPS

CONSTANTS
    AProc, APrio, NPROC, ABoot, ATwice,     \* the ready list: processes, proctab, boot
    net, browser, dofbot, job, Shell, Nil,  \* the contexts of the ready list
    n, a, b, d                              \* processes of the symmetric scheduler

VARIABLES
    scene,
    ready_head, ready_tail, next, where, currpid, pc, pushed, todo, tick, queue, torn, scanhung,
    state, ready, curr, on, at, ret, lock, event, exit_core, exit_me, moved, raced,
    build, bootstep, parts, irq, procs, frame, key, line, outside, missing, stuck

Off == "off"

-----------------------------------------------------------------------------
\* The ready list, in the run of four processes of two priorities.  "list" is the
\* build with a GIC, "list_polled" the one without, "race" is "list" followed beyond
\* the point where the list is torn.  The net process is listed when the boot creates
\* the others and gives those of ATwice to proc_ready as well (main.c:1877-1881; in the
\* run dofbot); from then on every context creates processes, the shell with procdemo,
\* the others with cc-run, make and the real-time routes.
Four == {net, browser, dofbot, job}
TwoLevels == [p \in Four |-> IF p = job THEN 2 ELSE 1]
BootList == <<net>>
BootTwice == {dofbot}

List(s) == INSTANCE ReadyList
    WITH Proc <- AProc, Prio <- APrio, Created <- ABoot, Creators <- AProc \cup {Shell},
         BootReady <- ATwice, TimerOn <- s # "list_polled", Beyond <- s = "race",
         curr <- currpid, arg <- pushed, hung <- scanhung

listvars ==
    <<ready_head, ready_tail, next, where, currpid, pc, pushed, todo, tick, queue, torn, scanhung>>
ListOff ==
    /\ ready_head = Off /\ ready_tail = Off /\ next = Off /\ where = Off /\ currpid = Off
    /\ pc = Off /\ pushed = Off /\ todo = Off /\ tick = Off
    /\ queue = Off /\ torn = Off /\ scanhung = Off

-----------------------------------------------------------------------------
\* The symmetric scheduler on two cores, of processes that are new, suspended,
\* sleep and exit.  "polled" has no timer interrupt and the ticket lock; in "timer"
\* core 0 takes the interrupt and the lock is the bakery lock.
Polled == INSTANCE SmpSchedProofs
    WITH NCORES <- 2, Proc <- {n, a, b, d}, Net <- n,
         Fresh <- {b, d}, Susp <- {d}, Exits <- {a, b}, Sleepers <- {d},
         Readiers <- {a}, TimerOn <- FALSE, Bakery <- FALSE, Beyond <- FALSE

Timer == INSTANCE SmpSchedProofs
    WITH NCORES <- 2, Proc <- {n, a, d}, Net <- n,
         Fresh <- {d}, Susp <- {d}, Exits <- {a}, Sleepers <- {d},
         Readiers <- {a}, TimerOn <- TRUE, Bakery <- TRUE, Beyond <- FALSE

schedvars == <<state, ready, curr, on, at, ret, lock, event, exit_core, exit_me, moved, raced>>
SchedOff ==
    /\ state = Off /\ ready = Off /\ curr = Off /\ on = Off /\ at = Off /\ ret = Off
    /\ lock = Off /\ event = Off /\ exit_core = Off /\ exit_me = Off
    /\ moved = Off /\ raced = Off

-----------------------------------------------------------------------------
\* The boot of every build, up to its last loop.
Kernel == INSTANCE Boot
    WITH Build <- {"wm", "minimal", "serial", "os2"}, NPROC <- 4, EVENTS <- 3,
         at <- bootstep, ready <- parts, hung <- stuck

bootvars == <<build, bootstep, parts, irq, procs, frame, key, line, outside, missing, stuck>>
BootOff ==
    /\ build = Off /\ bootstep = Off /\ parts = Off /\ irq = Off /\ procs = Off
    /\ frame = Off /\ key = Off /\ line = Off /\ outside = Off /\ missing = Off
    /\ stuck = Off

-----------------------------------------------------------------------------
ASSUME SchedulingAssumption ==
    /\ \A s \in {"list", "list_polled"} : List(s)!ConstantsOK
    /\ IsFiniteSet(AProc) /\ Cardinality(AProc) < NPROC
    /\ \A i, j \in DOMAIN ABoot : ABoot[i] = ABoot[j] => i = j
    /\ Polled!ConstantsOK /\ Timer!ConstantsOK /\ n # d

Init ==
    \/ scene = "list" /\ List("list")!Init /\ SchedOff /\ BootOff
    \/ scene = "list_polled" /\ List("list_polled")!Init /\ SchedOff /\ BootOff
    \/ scene = "polled" /\ Polled!Init /\ ListOff /\ BootOff
    \/ scene = "timer" /\ Timer!Init /\ ListOff /\ BootOff
    \/ scene = "boot" /\ Kernel!BtInit /\ ListOff /\ SchedOff

\* A step A of scene s: everything the scene is not about stays as it is.
InList(s, A) ==
    scene = s /\ A /\ UNCHANGED <<scene, schedvars, bootvars>>
InSched(s, A) ==
    scene = s /\ A /\ UNCHANGED <<scene, listvars, bootvars>>
InBoot(A) ==
    scene = "boot" /\ A /\ UNCHANGED <<scene, listvars, schedvars>>

Next ==
    \/ InList("list", List("list")!Next) \/ InList("list_polled", List("list_polled")!Next)
    \/ InSched("polled", Polled!Next) \/ InSched("timer", Timer!Next)
    \/ InBoot(Kernel!BtNext)

allvars == <<scene, listvars, schedvars, bootvars>>

\* The fairness of each part's specification.
Fairness ==
    /\ \A c \in {0, 1} :
          /\ SF_allvars(InSched("polled", Polled!Kernel(c)))
          /\ WF_allvars(InSched("polled", Polled!Call(c)))
          /\ SF_allvars(InSched("timer", Timer!Kernel(c)))
    /\ SF_allvars(InSched("timer", Timer!Call(0))) /\ WF_allvars(InSched("timer", Timer!Call(1)))
    /\ SF_allvars(InSched("polled", Polled!Kernel0))
    /\ SF_allvars(InSched("timer", Timer!Kernel0))
    /\ WF_allvars(InBoot(Kernel!kernel_main)) /\ WF_allvars(InBoot(Kernel!serial_io_tick))
    /\ WF_allvars(InBoot(Kernel!minimal_loop)) /\ WF_allvars(InBoot(Kernel!os2_console_run))

Spec == Init /\ [][Next]_allvars /\ Fairness

\* The ready list of the build with a timer, on its own, also when it is torn.
RaceSpec ==
    /\ scene = "race" /\ List("race")!Init /\ SchedOff /\ BootOff
    /\ [][InList("race", List("race")!Next)]_allvars

-----------------------------------------------------------------------------
ListScene == scene \in {"list", "list_polled", "race"}

\* critical.h:3-6: the timer cannot corrupt the ready list (proc.c).  What a
\* scan from ready_head sees is what was pushed and not popped, in push order.
ListIsQueue == ListScene => List("list")!ListIsQueue

\* proc.c: what a scan from ready_head sees is what was pushed and not popped, in push
\* order, and no scan hangs, until one of two things has happened: a change of the
\* list fell between two stores of a ready_push that runs with IRQs on, or a process was
\* pushed that was not out of the list.
ListKept == ListScene => List("list")!ListKept

\* proc.c ready_pop: until then a dispatched process has the highest priority of the
\* list and, among its equals, has waited longest.
DispatchesBest == [][ListScene /\ ~torn' => List("list")!BestDispatched]_allvars

\* The symmetric scheduler (proc.c, smpsched.c) on two cores: no process runs on
\* two cores at once, it is listed exactly when it is READY, and once, no core
\* spins for the scheduler lock it holds itself, and proc_exit frees the slot
\* of the process that called it, though the lock is taken on one core's stack
\* and released on another's.  Until the timer interrupt meets core 0 holding the
\* lock, a process between the two reads of currpid in proc_exit that it moves to the
\* other core, or one that is on its way to sleep.
CoresSound ==
    /\ scene = "polled" => ~raced /\ Polled!CoresOK
    /\ scene = "timer" => raced \/ Timer!CoresOK

\* A process on the symmetric scheduler's ready list gets a core, whichever
\* cores are busy, unless there is such a race.
ReadyDispatched ==
    LET Sched == scene \in {"polled", "timer"}
        Waits(p) == p \in DOMAIN state /\ state[p] = "READY"
    IN  \A p \in {n, a, b, d} : (Sched /\ Waits(p)) ~> (Sched /\ (~Waits(p) \/ raced))

\* main.c kernel_main: no step of the boot, no interrupt and no pass of a final
\* loop meets a part that is not up yet; the boot does not stop on its way; and
\* a received frame is handed to the stack by the last loop of the window
\* manager's build and of the minimal one, unless a command or a request gives the
\* processor away (the list that main.c:1878 and 1881 leave is a circle).
BootServes ==
    /\ [](scene = "boot" => Kernel!NothingBeforeItsTime)
    /\ LET Serves == scene = "boot" /\ build \in {"wm", "minimal"}
       IN  (Serves /\ frame) ~> (Serves /\ (~frame \/ stuck))

-----------------------------------------------------------------------------
(* The symmetric scheduler's invariant as a theorem: what SmpSchedProofs    *)
(* shows for every set of cores and processes, in the two scenes.           *)

\* The invariant of the two scenes.
CoresInv ==
    /\ scene = "polled" => Polled!SchedInv
    /\ scene = "timer" => Timer!SchedInv

\* The invariant holds when a scene begins.
LEMMA CoresInit == Init => CoresInv
BY SchedulingAssumption, Polled!StartInv, Timer!StartInv DEF Init, CoresInv

\* It survives every step, whichever scene is played.
LEMMA CoresNext == CoresInv /\ [Next]_allvars => CoresInv'
<1> SUFFICES ASSUME CoresInv, [Next]_allvars PROVE CoresInv'
    OBVIOUS
<1>1. CASE scene = "polled"
  <2>1. [Polled!Next]_schedvars /\ scene' = scene
    BY <1>1 DEF Next, InList, InSched, InBoot, allvars
  <2>2. [Polled!Next]_(Polled!vars)
    BY <2>1 DEF schedvars, Polled!vars
  <2> QED  BY <1>1, <2>1, <2>2, SchedulingAssumption, Polled!StepInv DEF CoresInv
<1>2. CASE scene = "timer"
  <2>1. [Timer!Next]_schedvars /\ scene' = scene
    BY <1>2 DEF Next, InList, InSched, InBoot, allvars
  <2>2. [Timer!Next]_(Timer!vars)
    BY <2>1 DEF schedvars, Timer!vars
  <2> QED  BY <1>2, <2>1, <2>2, SchedulingAssumption, Timer!StepInv DEF CoresInv
<1>3. CASE scene \notin {"polled", "timer"}
  <2>1. scene' = scene
    BY DEF Next, InList, InSched, InBoot, allvars
  <2> QED  BY <1>3, <2>1 DEF CoresInv
<1> QED  BY <1>1, <1>2, <1>3

\* proc.c and smpsched.c: in both builds no process runs on two cores and none is lost or queued
\* twice, whatever the cores interleave, until the timer interrupt makes one of the three races.
THEOREM CoresAreSound == Spec => []CoresSound
<1>1. CoresInv => CoresSound
  <2>1. ASSUME Polled!SchedInv PROVE ~raced /\ Polled!CoresOK
    BY <2>1, SchedulingAssumption, Polled!Sound DEF Polled!SchedInv
  <2>2. ASSUME Timer!SchedInv PROVE raced \/ Timer!CoresOK
    BY <2>2, SchedulingAssumption, Timer!Sound DEF Timer!SchedInv
  <2> QED  BY <2>1, <2>2 DEF CoresInv, CoresSound
<1> QED  BY <1>1, CoresInit, CoresNext, PTL DEF Spec

-----------------------------------------------------------------------------
(* The ready list (ReadyList): the pointers spell out the queue.            *)

\* q is what a scan from h along nx sees.
Chained(q, h, nx) ==
    /\ h = IF q = <<>> THEN Nil ELSE q[1]
    /\ \A i \in 1 .. Len(q) : nx[q[i]] = IF i < Len(q) THEN q[i + 1] ELSE Nil

\* No process is listed twice.
Once(q) == \A i, j \in 1 .. Len(q) : q[i] = q[j] => i = j
\* The last process of q, and whether p is listed in q.
LastOf(q) == IF q = <<>> THEN Nil ELSE q[Len(q)]
Has(q, p) == \E i \in 1 .. Len(q) : q[i] = p

\* What is assumed of the processes of the list.
LEMMA ListNumbers ==
    /\ Shell \notin AProc /\ Nil \notin AProc /\ Nil # Shell /\ NPROC \in Nat \ {0}
    /\ APrio \in [AProc -> Int] /\ ABoot \in Seq(AProc)
    /\ IsFiniteSet(AProc) /\ Cardinality(AProc) < NPROC
    /\ \A i, j \in DOMAIN ABoot : ABoot[i] = ABoot[j] => i = j
<1>1. List("list")!ConstantsOK
    BY SchedulingAssumption
<1> QED  BY <1>1, SchedulingAssumption DEF List!ConstantsOK

\* Every nonempty set of naturals has a least element.
LEMMA LeastOf ==
    ASSUME NEW T, T \subseteq Nat, T # {}
    PROVE  \E x \in T : \A y \in T : x <= y
<1> DEFINE R == OpToRel(<, Nat)
<1>1. IsWellFoundedOn(R, Nat)
    BY NatLessThanWellFounded
<1>2. \A x, y \in Nat : x < y => <<x, y>> \in R
    BY DEF OpToRel
<1> HIDE DEF R
<1>3. PICK x \in T : \A y \in T : ~ (<<y, x>> \in R)
    BY <1>1, WFMin
<1>4. \A y \in T : x \in Nat /\ y \in Nat /\ ~(y < x)
    BY <1>2, <1>3
<1> QED  BY <1>4

\* A list has fewer processes than proctab has slots.
LEMMA FewListed ==
    ASSUME NEW q \in Seq(AProc), Once(q)
    PROVE  Len(q) \in Nat /\ Len(q) < NPROC
<1> DEFINE D == 1 .. Len(q)
<1>1. q \in [D -> AProc] /\ Len(q) \in Nat
    OBVIOUS
<1>2. q \in Injection(D, AProc)
  <2>1. IsInjective(q)
    BY <1>1 DEF Once, IsInjective
  <2> HIDE DEF D
  <2> QED  BY <1>1, <2>1 DEF Injection
<1>3. Cardinality(D) <= Cardinality(AProc)
  <2> HIDE DEF D
  <2>1. IsFiniteSet(AProc)
    BY ListNumbers
  <2> QED  BY <1>2, <2>1, FS_Injection
<1>4. Cardinality(D) = Len(q)
  <2>1. PICK l \in Nat : l = Len(q)
    BY <1>1
  <2>2. Cardinality(1 .. l) = l
    BY FS_Interval
  <2> QED  BY <2>1, <2>2
<1>5. Cardinality(AProc) \in Nat /\ Cardinality(AProc) < NPROC /\ NPROC \in Nat
    BY ListNumbers, FS_CardinalityType
<1> QED  BY <1>1, <1>3, <1>4, <1>5

\* The scan of a list that spells out q.
LEMMA ChainIs ==
    ASSUME NEW s, NEW q \in Seq(AProc), Once(q), NEW h, NEW nx, Chained(q, h, nx)
    PROVE  List(s)!Chain(h, nx) = [m \in 1 .. NPROC |-> IF m <= Len(q) THEN q[m] ELSE Nil]
<1> DEFINE W == [m \in 1 .. NPROC |-> IF m <= Len(q) THEN q[m] ELSE Nil]
           F(g) == [m \in 1 .. NPROC |-> IF m = 1 THEN h ELSE IF g[m - 1] = Nil THEN Nil ELSE nx[g[m - 1]]]
           c == List(s)!Chain(h, nx)
<1>0. Len(q) \in Nat /\ NPROC \in Nat \ {0} /\ Nil \notin AProc
    BY ListNumbers
<1>1. ASSUME NEW m \in 1 .. NPROC
      PROVE  W[m] = IF m = 1 THEN h ELSE IF W[m - 1] = Nil THEN Nil ELSE nx[W[m - 1]]
  <2>1. CASE m = 1
    BY <1>0, <2>1 DEF Chained
  <2>2. CASE m # 1
    <3>1. m - 1 \in 1 .. NPROC /\ m - 1 \in Nat
        BY <1>0, <2>2
    <3>2. CASE m - 1 <= Len(q)
      <4>1. m - 1 \in 1 .. Len(q) /\ W[m - 1] = q[m - 1] /\ q[m - 1] \in AProc
        BY <1>0, <3>1, <3>2
      <4>2. nx[q[m - 1]] = IF m - 1 < Len(q) THEN q[(m - 1) + 1] ELSE Nil
        BY <4>1 DEF Chained
      <4>3. (m - 1) + 1 = m /\ (m - 1 < Len(q) <=> m <= Len(q))
        BY <1>0
      <4> QED  BY <1>0, <2>2, <4>1, <4>2, <4>3
    <3>3. CASE ~(m - 1 <= Len(q))
      <4>1. W[m - 1] = Nil /\ W[m] = Nil
        BY <1>0, <3>1, <3>3
      <4> QED  BY <2>2, <4>1
    <3> QED  BY <3>2, <3>3
  <2> QED  BY <2>1, <2>2
<1>2. W = F(W)
    BY <1>1
<1> HIDE DEF W
<1>3. c = CHOOSE g : g = F(g)
    BY DEF List!Chain
<1> HIDE DEF c
<1>4. c = F(c)
    BY <1>2, <1>3
<1>5. \A m \in 1 .. NPROC : c[m] = IF m = 1 THEN h ELSE IF c[m - 1] = Nil THEN Nil ELSE nx[c[m - 1]]
    BY <1>4
<1>6. DOMAIN c = 1 .. NPROC /\ c = [m \in 1 .. NPROC |-> c[m]]
    BY <1>4
<1>7. \A m \in 1 .. NPROC : c[m] = W[m]
  <2> DEFINE T == {m \in 1 .. NPROC : c[m] # W[m]}
  <2>1. SUFFICES ASSUME T # {} PROVE FALSE
    OBVIOUS
  <2>a. T \subseteq Nat
    BY <1>0
  <2>2. PICK x \in T : \A y \in T : x <= y
    <3> HIDE DEF T
    <3> QED  BY <2>1, <2>a, LeastOf
  <2>3. x \in 1 .. NPROC /\ c[x] # W[x]
    BY <2>2
  <2>4. CASE x = 1
    BY <1>1, <1>5, <2>3, <2>4
  <2>5. CASE x # 1
    <3>1. x - 1 \in 1 .. NPROC /\ ~(x <= x - 1)
        BY <1>0, <2>3, <2>5
    <3>2. c[x - 1] = W[x - 1]
        BY <2>2, <3>1
    <3> QED  BY <1>1, <1>5, <2>3, <2>5, <3>2
  <2> QED  BY <2>4, <2>5
<1>8. W = [m \in 1 .. NPROC |-> W[m]]
    BY DEF W
<1>9. c = W
    BY <1>6, <1>7, <1>8
<1> QED  BY <1>9 DEF c, W

\* So the scan ends, and has seen q.
LEMMA SeqIs ==
    ASSUME NEW s, NEW q \in Seq(AProc), Once(q), NEW h, NEW nx, Chained(q, h, nx)
    PROVE  ~List(s)!Cyclic(h, nx) /\ List(s)!AsSeq(h, nx) = q
<1> DEFINE c == List(s)!Chain(h, nx)
<1>0. /\ Len(q) \in Nat /\ Len(q) < NPROC /\ NPROC \in Nat \ {0} /\ Nil \notin AProc
    BY FewListed, ListNumbers
<1>1. c = [m \in 1 .. NPROC |-> IF m <= Len(q) THEN q[m] ELSE Nil]
    BY ChainIs
<1> HIDE DEF c
<1>2. \A m \in 1 .. NPROC : (m <= Len(q) => c[m] = q[m] /\ q[m] \in AProc) /\ (~(m <= Len(q)) => c[m] = Nil)
    BY <1>0, <1>1
<1>3. c[NPROC] = Nil
    BY <1>0, <1>2
<1> DEFINE L == CHOOSE m \in 0 .. NPROC - 1 : \A i \in 1 .. NPROC : c[i] # Nil <=> i <= m
<1>4. L = Len(q)
  <2>1. Len(q) \in 0 .. NPROC - 1 /\ \A i \in 1 .. NPROC : c[i] # Nil <=> i <= Len(q)
    BY <1>0, <1>2
  <2>2. L \in 0 .. NPROC - 1 /\ \A i \in 1 .. NPROC : c[i] # Nil <=> i <= L
    BY <2>1
  <2> HIDE DEF L
  <2>3. \A i \in 1 .. NPROC : i <= L <=> i <= Len(q)
    BY <2>1, <2>2
  <2>4. CASE L < Len(q)
    <3>1. L + 1 \in 1 .. NPROC /\ L + 1 <= Len(q) /\ ~(L + 1 <= L)
        BY <1>0, <2>2, <2>4
    <3> QED  BY <2>3, <3>1
  <2>5. CASE Len(q) < L
    <3>1. Len(q) + 1 \in 1 .. NPROC /\ Len(q) + 1 <= L /\ ~(Len(q) + 1 <= Len(q))
        BY <1>0, <2>2, <2>5
    <3> QED  BY <2>3, <3>1
  <2> QED  BY <1>0, <2>2, <2>4, <2>5
<1>5. List(s)!AsSeq(h, nx) = [m \in 1 .. L |-> c[m]]
    BY DEF List!AsSeq, c
<1> HIDE DEF L
<1>6. [m \in 1 .. Len(q) |-> c[m]] = q
  <2>1. \A m \in 1 .. Len(q) : c[m] = q[m]
    BY <1>0, <1>2
  <2>2. q = [m \in 1 .. Len(q) |-> q[m]]
    OBVIOUS
  <2> QED  BY <2>1, <2>2
<1> QED  BY <1>3, <1>4, <1>5, <1>6 DEF List!Cyclic, c

\* A list: pointers that spell out q, and its last process at the tail.
IsList(l, q) ==
    /\ q \in Seq(AProc) /\ Once(q) /\ l.next \in [AProc -> AProc \cup {Nil}]
    /\ Chained(q, l.head, l.next) /\ l.tail = LastOf(q)

\* A sequence with one process more.
LEMMA AppendIs ==
    ASSUME NEW q \in Seq(AProc), Once(q), NEW p \in AProc, ~Has(q, p)
    PROVE  /\ Append(q, p) \in Seq(AProc) /\ Once(Append(q, p)) /\ Append(q, p) # <<>>
           /\ Len(Append(q, p)) = Len(q) + 1 /\ LastOf(Append(q, p)) = p
           /\ Append(q, p)[Len(q) + 1] = p
           /\ \A i \in 1 .. Len(q) : Append(q, p)[i] = q[i]
           /\ \A x : Has(Append(q, p), x) <=> Has(q, x) \/ x = p
<1> DEFINE r == Append(q, p)
<1>1. /\ r \in Seq(AProc) /\ Len(r) = Len(q) + 1 /\ r[Len(q) + 1] = p /\ Len(q) \in Nat /\ r # <<>>
      /\ \A i \in 1 .. Len(q) : r[i] = q[i]
    BY AppendProperties
<1> HIDE DEF r
<1>2. LastOf(r) = p
    BY <1>1 DEF LastOf
<1>3. \A i \in 1 .. Len(q) + 1 : i \in 1 .. Len(q) \/ i = Len(q) + 1
    BY <1>1
<1>4. Once(r)
    BY <1>1, <1>3 DEF Once, Has
<1>5. \A i \in 1 .. Len(q) : i \in 1 .. Len(q) + 1
    BY <1>1
<1>6. Len(q) + 1 \in 1 .. Len(q) + 1
    BY <1>1
<1>7. \A x : Has(r, x) <=> Has(q, x) \/ x = p
    BY <1>1, <1>3, <1>5, <1>6 DEF Has
<1> QED  BY <1>1, <1>2, <1>4, <1>7 DEF r

\* ready_push puts a process that is not listed at the end.
LEMMA PushIs ==
    ASSUME NEW s, NEW l, NEW q, IsList(l, q), NEW p \in AProc, ~Has(q, p)
    PROVE  IsList(List(s)!push(l, p), Append(q, p))
<1> DEFINE r == Append(q, p)
           nx == [l.next EXCEPT ![p] = Nil]
           k == List(s)!push(l, p)
<1>0. /\ q \in Seq(AProc) /\ Once(q) /\ l.next \in [AProc -> AProc \cup {Nil}] /\ Len(q) \in Nat
      /\ Chained(q, l.head, l.next) /\ l.tail = LastOf(q) /\ Nil \notin AProc
    BY ListNumbers DEF IsList
<1>1. /\ r \in Seq(AProc) /\ Once(r) /\ Len(r) = Len(q) + 1 /\ LastOf(r) = p /\ r[Len(q) + 1] = p
      /\ \A i \in 1 .. Len(q) : r[i] = q[i]
      /\ r # <<>>
    BY <1>0, AppendIs
<1> HIDE DEF r
<1>2. nx \in [AProc -> AProc \cup {Nil}] /\ nx[p] = Nil /\ \A x \in AProc : x # p => nx[x] = l.next[x]
    BY <1>0
<1>3. CASE q = <<>>
  <2>1. l.head = Nil /\ Len(r) = 1 /\ r[1] = p
    BY <1>0, <1>1, <1>3 DEF Chained
  <2>2. k.head = p /\ k.tail = p /\ k.next = nx
    BY <2>1 DEF List!push, List!List
  <2> HIDE DEF k, nx
  <2>3. Chained(r, p, nx)
    BY <1>1, <1>2, <2>1 DEF Chained
  <2>4. IsList(k, r)
    BY <1>1, <1>2, <2>2, <2>3 DEF IsList
  <2> QED  BY <2>4 DEF k, r
<1>4. CASE q # <<>>
  <2>1. Len(q) > 0 /\ 1 \in 1 .. Len(q) /\ Len(q) \in 1 .. Len(q)
    BY <1>0, <1>4
  <2> DEFINE z == q[Len(q)]
             ny == [nx EXCEPT ![z] = p]
  <2>2. l.head = q[1] /\ l.head \in AProc /\ l.tail = z /\ z \in AProc /\ z # p
    BY <1>0, <1>4, <2>1 DEF Chained, LastOf, Has
  <2>3. k.head = l.head /\ k.tail = p /\ k.next = ny
    BY <1>0, <2>2 DEF List!push, List!List
  <2>4. ny \in [AProc -> AProc \cup {Nil}] /\ ny[z] = p /\ ny[p] = Nil
        /\ \A x \in AProc : x # p /\ x # z => ny[x] = l.next[x]
    BY <1>2, <2>2
  <2> HIDE DEF k, ny, nx
  <2>5. Chained(r, l.head, ny)
    <3>1. l.head = r[1]
        BY <1>1, <2>1, <2>2
    <3>2. ASSUME NEW i \in 1 .. Len(r) PROVE ny[r[i]] = IF i < Len(r) THEN r[i + 1] ELSE Nil
      <4>1. CASE i = Len(q) + 1
        BY <1>0, <1>1, <2>4, <4>1
      <4>2. CASE i = Len(q)
        BY <1>0, <1>1, <2>1, <2>4, <4>2
      <4>3. CASE i < Len(q)
        <5>1. i \in 1 .. Len(q) /\ i + 1 \in 1 .. Len(q) /\ i # Len(q)
            BY <1>0, <4>3
        <5>2. r[i] = q[i] /\ r[i + 1] = q[i + 1] /\ q[i] \in AProc /\ q[i] # p
            BY <1>0, <1>1, <5>1 DEF Has
        <5>3. q[i] # z
            BY <1>0, <2>1, <5>1 DEF Once
        <5>4. ny[q[i]] = q[i + 1]
            BY <1>0, <2>4, <4>3, <5>1, <5>2, <5>3 DEF Chained
        <5>5. i < Len(r)
            BY <1>0, <1>1, <4>3
        <5> QED  BY <5>2, <5>4, <5>5
      <4> QED  BY <1>0, <1>1, <4>1, <4>2, <4>3
    <3> QED  BY <1>1, <3>1, <3>2 DEF Chained
  <2>6. IsList(k, r)
    BY <1>1, <2>3, <2>4, <2>5 DEF IsList
  <2> QED  BY <2>6 DEF k, r
<1> QED  BY <1>3, <1>4

\* The queue without its k-th process.
Without(q, k) == SubSeq(q, 1, k - 1) \o SubSeq(q, k + 1, Len(q))

\* A sequence without its k-th process.
LEMMA WithoutIs ==
    ASSUME NEW q \in Seq(AProc), Once(q), NEW k \in 1 .. Len(q)
    PROVE  /\ Without(q, k) \in Seq(AProc) /\ Len(Without(q, k)) = Len(q) - 1
           /\ \A i \in 1 .. Len(q) - 1 : Without(q, k)[i] = IF i < k THEN q[i] ELSE q[i + 1]
           /\ Once(Without(q, k))
           /\ \A x : Has(Without(q, k), x) <=> Has(q, x) /\ x # q[k]
<1> DEFINE u == SubSeq(q, 1, k - 1)
           v == SubSeq(q, k + 1, Len(q))
           w == Without(q, k)
<1>0. Len(q) \in Nat /\ k \in Nat /\ 1 <= k /\ k <= Len(q) /\ q[k] \in AProc
    OBVIOUS
<1>1. u \in Seq(AProc) /\ Len(u) = k - 1 /\ \A i \in 1 .. k - 1 : u[i] = q[i]
  <2>1. \A i \in 1 .. k - 1 : q[i] \in AProc
    BY <1>0
  <2>2. 1 \in Int /\ k - 1 \in Int /\ (k - 1) - 1 + 1 = k - 1 /\ (~(1 <= k - 1) => k - 1 = 0)
    BY <1>0
  <2>3. /\ u \in Seq(AProc) /\ Len(u) = (IF 1 <= k - 1 THEN (k - 1) - 1 + 1 ELSE 0)
        /\ \A i \in 1 .. (k - 1) - 1 + 1 : u[i] = q[1 + i - 1]
    BY <2>1, <2>2, SubSeqProperties
  <2> HIDE DEF u
  <2> QED  BY <1>0, <2>2, <2>3
<1>2. v \in Seq(AProc) /\ Len(v) = Len(q) - k /\ \A i \in 1 .. Len(q) - k : v[i] = q[k + i]
  <2>1. \A i \in k + 1 .. Len(q) : q[i] \in AProc
    BY <1>0
  <2>2. k + 1 \in Int /\ Len(q) \in Int
    BY <1>0
  <2>3. /\ v \in Seq(AProc) /\ Len(v) = (IF k + 1 <= Len(q) THEN Len(q) - (k + 1) + 1 ELSE 0)
        /\ \A i \in 1 .. Len(q) - (k + 1) + 1 : v[i] = q[(k + 1) + i - 1]
    BY <2>1, <2>2, SubSeqProperties
  <2> HIDE DEF v
  <2>4. Len(q) - (k + 1) + 1 = Len(q) - k /\ (~(k + 1 <= Len(q)) => Len(q) - k = 0)
    BY <1>0
  <2>5. \A i \in 1 .. Len(q) - k : (k + 1) + i - 1 = k + i
    BY <1>0
  <2> QED  BY <2>3, <2>4, <2>5
<1>3. w = u \o v
    BY DEF Without
<1> HIDE DEF u, v, w
<1>4. /\ w \in Seq(AProc) /\ Len(w) = Len(u) + Len(v)
      /\ \A i \in 1 .. Len(u) + Len(v) : w[i] = IF i <= Len(u) THEN u[i] ELSE v[i - Len(u)]
    BY <1>1, <1>2, <1>3, ConcatProperties
<1>5. Len(u) + Len(v) = Len(q) - 1
    BY <1>0, <1>1, <1>2
<1>6. ASSUME NEW i \in 1 .. Len(q) - 1 PROVE w[i] = IF i < k THEN q[i] ELSE q[i + 1]
  <2>0. w[i] = IF i <= k - 1 THEN u[i] ELSE v[i - (k - 1)]
    BY <1>1, <1>4, <1>5
  <2>1. CASE i < k
    <3>1. i <= k - 1 /\ i \in 1 .. k - 1
        BY <1>0, <2>1
    <3> QED  BY <1>1, <2>0, <2>1, <3>1
  <2>2. CASE ~(i < k)
    <3>1. ~(i <= k - 1) /\ i - (k - 1) \in 1 .. Len(q) - k /\ k + (i - (k - 1)) = i + 1
        BY <1>0, <2>2
    <3> QED  BY <1>2, <2>0, <2>2, <3>1
  <2> QED  BY <2>1, <2>2
<1>7. Once(w)
  <2> SUFFICES ASSUME NEW i \in 1 .. Len(q) - 1, NEW j \in 1 .. Len(q) - 1, w[i] = w[j] PROVE i = j
    BY <1>4, <1>5 DEF Once
  <2>1. i \in 1 .. Len(q) /\ j \in 1 .. Len(q) /\ i + 1 \in 1 .. Len(q) /\ j + 1 \in 1 .. Len(q)
    BY <1>0
  <2>2. CASE i < k /\ j < k
    BY <1>6, <2>1, <2>2 DEF Once
  <2>3. CASE ~(i < k) /\ ~(j < k)
    <3>1. i + 1 = j + 1
        BY <1>6, <2>1, <2>3 DEF Once
    <3> QED  BY <3>1
  <2>4. CASE i < k /\ ~(j < k)
    <3>1. i = j + 1
        BY <1>6, <2>1, <2>4 DEF Once
    <3> QED  BY <1>0, <2>4, <3>1
  <2>5. CASE ~(i < k) /\ j < k
    <3>1. i + 1 = j
        BY <1>6, <2>1, <2>5 DEF Once
    <3> QED  BY <1>0, <2>5, <3>1
  <2> QED  BY <2>2, <2>3, <2>4, <2>5
<1>8. ASSUME NEW x PROVE Has(w, x) <=> Has(q, x) /\ x # q[k]
  <2>1. ASSUME Has(w, x) PROVE Has(q, x) /\ x # q[k]
    <3>1. PICK i \in 1 .. Len(q) - 1 : w[i] = x
        BY <1>4, <1>5, <2>1 DEF Has
    <3>2. i \in 1 .. Len(q) /\ i + 1 \in 1 .. Len(q) /\ (i < k => i # k) /\ (~(i < k) => i + 1 # k)
        BY <1>0
    <3> QED  BY <1>6, <3>1, <3>2 DEF Has, Once
  <2>2. ASSUME Has(q, x), x # q[k] PROVE Has(w, x)
    <3>1. PICK i \in 1 .. Len(q) : q[i] = x
        BY <2>2 DEF Has
    <3>2. CASE i < k
      <4>1. i \in 1 .. Len(q) - 1
        BY <1>0, <3>2
      <4> QED  BY <1>4, <1>5, <1>6, <3>1, <3>2, <4>1 DEF Has
    <3>3. CASE i > k
      <4>1. i - 1 \in 1 .. Len(q) - 1 /\ ~(i - 1 < k) /\ (i - 1) + 1 = i
        BY <1>0, <3>3
      <4>2. w[i - 1] = q[i]
        BY <1>6, <4>1
      <4> QED  BY <1>4, <1>5, <3>1, <4>1, <4>2 DEF Has
    <3>4. i # k
        BY <2>2, <3>1
    <3> QED  BY <1>0, <3>2, <3>3, <3>4
  <2> QED  BY <2>1, <2>2
<1> QED  BY <1>4, <1>5, <1>6, <1>7, <1>8 DEF w

\* ready_pop takes the k-th process out.
LEMMA UnlinkIs ==
    ASSUME NEW s, NEW l, NEW q, IsList(l, q), NEW k \in 1 .. Len(q)
    PROVE  IsList(List(s)!unlink(l, k), Without(q, k))
<1> DEFINE w == Without(q, k)
           r == List(s)!unlink(l, k)
           best == q[k]
           prev == IF k = 1 THEN Nil ELSE q[k - 1]
           t == IF l.tail = best THEN prev ELSE l.tail
<1>0. /\ q \in Seq(AProc) /\ Once(q) /\ l.next \in [AProc -> AProc \cup {Nil}] /\ Len(q) \in Nat
      /\ Chained(q, l.head, l.next) /\ l.tail = LastOf(q) /\ Nil \notin AProc /\ q # <<>>
      /\ k \in Nat /\ 1 <= k /\ k <= Len(q) /\ best \in AProc
    BY ListNumbers DEF IsList
<1>1. /\ w \in Seq(AProc) /\ Len(w) = Len(q) - 1 /\ Once(w)
      /\ \A i \in 1 .. Len(q) - 1 : w[i] = IF i < k THEN q[i] ELSE q[i + 1]
    BY <1>0, WithoutIs
<1>2. List(s)!AsSeq(l.head, l.next) = q
  <2> DEFINE h == l.head
             nx == l.next
  <2>1. q \in Seq(AProc) /\ Once(q) /\ Chained(q, h, nx)
    BY <1>0
  <2> HIDE DEF h, nx
  <2>2. List(s)!AsSeq(h, nx) = q
    BY <2>1, SeqIs
  <2> QED  BY <2>2 DEF h, nx
<1>3. r = IF k = 1 THEN [head |-> l.next[best], tail |-> t, next |-> [l.next EXCEPT ![best] = Nil]]
          ELSE [head |-> l.head, tail |-> t,
                next |-> [l.next EXCEPT ![prev] = l.next[best], ![best] = Nil]]
    BY <1>2 DEF List!unlink, List!List
<1>4. l.head = q[1] /\ \A i \in 1 .. Len(q) : l.next[q[i]] = IF i < Len(q) THEN q[i + 1] ELSE Nil
    BY <1>0 DEF Chained
<1> HIDE DEF w, r
<1>5. l.tail = q[Len(q)] /\ Len(q) \in 1 .. Len(q) /\ (l.tail = best <=> k = Len(q))
    BY <1>0 DEF LastOf, Once
<1>6. t = LastOf(w)
  <2>1. CASE Len(q) = 1
    <3>1. w = <<>> /\ k = 1
        BY <1>0, <1>1, <2>1
    <3> QED  BY <1>5, <2>1, <3>1 DEF LastOf
  <2>2. CASE Len(q) # 1
    <3>1. w # <<>> /\ Len(q) - 1 \in 1 .. Len(q) - 1 /\ (Len(q) - 1) + 1 = Len(q)
        BY <1>0, <1>1, <2>2
    <3>2. w[Len(q) - 1] = IF Len(q) - 1 < k THEN q[Len(q) - 1] ELSE q[Len(q)]
        BY <1>1, <3>1
    <3>3. (Len(q) - 1 < k <=> k = Len(q)) /\ (k = Len(q) => k # 1)
      <4>1. PICK z \in Nat : z = Len(q)
        BY <1>0
      <4> QED  BY <1>0, <2>2, <4>1
    <3> QED  BY <1>1, <1>5, <3>1, <3>2, <3>3 DEF LastOf
  <2> QED  BY <2>1, <2>2
<1>7. CASE k = 1
  <2> DEFINE ny == [l.next EXCEPT ![best] = Nil]
  <2>1. r.head = l.next[best] /\ r.tail = t /\ r.next = ny
    BY <1>3, <1>7
  <2>2. ny \in [AProc -> AProc \cup {Nil}] /\ \A x \in AProc : x # best => ny[x] = l.next[x]
    BY <1>0
  <2> HIDE DEF ny
  <2>3. l.next[best] = IF w = <<>> THEN Nil ELSE w[1]
    <3>1. w = <<>> <=> Len(q) = 1
        BY <1>0, <1>1
    <3>2. Len(q) # 1 => 1 \in 1 .. Len(q) - 1 /\ 1 < Len(q)
      <4>1. PICK z \in Nat : z = Len(q)
        BY <1>0
      <4>2. z >= 1
        BY <1>0, <4>1
      <4> QED  BY <4>1, <4>2
    <3>3. l.next[best] = IF 1 < Len(q) THEN q[1 + 1] ELSE Nil
        BY <1>0, <1>4, <1>7
    <3> QED  BY <1>1, <1>7, <3>1, <3>2, <3>3
  <2>4. ASSUME NEW i \in 1 .. Len(w) PROVE ny[w[i]] = IF i < Len(w) THEN w[i + 1] ELSE Nil
    <3>1. /\ i \in 1 .. Len(q) - 1 /\ ~(i < k) /\ i + 1 \in 1 .. Len(q) /\ i + 1 # k
          /\ (i < Len(w) <=> i + 1 < Len(q)) /\ (i < Len(w) => i + 1 \in 1 .. Len(q) - 1 /\ ~(i + 1 < k))
        BY <1>0, <1>1, <1>7
    <3>2. w[i] = q[i + 1] /\ q[i + 1] # best /\ q[i + 1] \in AProc
        BY <1>0, <1>1, <3>1 DEF Once
    <3>3. ny[w[i]] = IF i + 1 < Len(q) THEN q[(i + 1) + 1] ELSE Nil
        BY <1>4, <2>2, <3>1, <3>2
    <3>4. i < Len(w) => w[i + 1] = q[(i + 1) + 1]
        BY <1>1, <3>1
    <3> QED  BY <3>1, <3>3, <3>4
  <2>5. IsList(r, w)
    BY <1>1, <1>6, <2>1, <2>2, <2>3, <2>4 DEF IsList, Chained
  <2> QED  BY <2>5 DEF r, w
<1>8. CASE k # 1
  <2>0. k - 1 \in 1 .. Len(q) /\ k - 1 # k /\ prev = q[k - 1] /\ prev \in AProc /\ prev # best /\ k - 1 \in Nat
        /\ (k - 1) + 1 = k
    BY <1>0, <1>8 DEF Once
  <2> DEFINE ny == [l.next EXCEPT ![prev] = l.next[best], ![best] = Nil]
  <2>1. r.head = l.head /\ r.tail = t /\ r.next = ny
    BY <1>3, <1>8
  <2>2. ny \in [AProc -> AProc \cup {Nil}] /\ ny[prev] = l.next[best]
        /\ \A x \in AProc : x # best /\ x # prev => ny[x] = l.next[x]
    <3> HIDE DEF prev, best
    <3> QED  BY <1>0, <2>0
  <2> HIDE DEF ny
  <2>3. l.head = w[1] /\ w # <<>>
    <3>1. 1 \in 1 .. Len(q) - 1 /\ 1 < k
        BY <1>0, <1>8
    <3> QED  BY <1>1, <1>4, <3>1
  <2>4. ASSUME NEW i \in 1 .. Len(w) PROVE ny[w[i]] = IF i < Len(w) THEN w[i + 1] ELSE Nil
    <3>0. i \in 1 .. Len(q) - 1 /\ i \in Nat
        BY <1>0, <1>1
    <3>1. CASE i < k - 1
      <4>1. /\ i < k /\ i + 1 < k /\ i \in 1 .. Len(q) /\ i # k /\ i # k - 1 /\ i < Len(w) /\ i < Len(q)
            /\ i + 1 \in 1 .. Len(q) - 1
        BY <1>0, <1>1, <3>0, <3>1
      <4>2. w[i] = q[i] /\ w[i + 1] = q[i + 1] /\ q[i] # best /\ q[i] # prev /\ q[i] \in AProc
        BY <1>0, <1>1, <2>0, <4>1, <3>0 DEF Once
      <4>3. l.next[q[i]] = q[i + 1]
        BY <1>4, <4>1
      <4> QED  BY <2>2, <4>1, <4>2, <4>3
    <3>2. CASE i = k - 1
      <4>1. i < k /\ (i < Len(w) <=> k < Len(q)) /\ (k < Len(q) => k \in 1 .. Len(q) - 1) /\ i + 1 = k
        BY <1>0, <1>1, <3>2
      <4>2. w[i] = prev /\ ny[w[i]] = IF k < Len(q) THEN q[k + 1] ELSE Nil
        BY <1>1, <1>4, <2>0, <2>2, <3>0, <3>2, <4>1
      <4>3. k < Len(q) => w[k] = q[k + 1]
        BY <1>0, <1>1, <4>1
      <4> QED  BY <4>1, <4>2, <4>3
    <3>3. CASE i > k - 1
      <4>1. /\ ~(i < k) /\ ~(i + 1 < k) /\ i + 1 \in 1 .. Len(q) /\ i + 1 # k /\ i + 1 # k - 1
            /\ (i < Len(w) <=> i + 1 < Len(q)) /\ (i < Len(w) => i + 1 \in 1 .. Len(q) - 1)
        BY <1>0, <1>1, <3>0, <3>3
      <4>2. w[i] = q[i + 1] /\ q[i + 1] # best /\ q[i + 1] # prev /\ q[i + 1] \in AProc
        BY <1>0, <1>1, <2>0, <4>1, <3>0 DEF Once
      <4>3. ny[w[i]] = IF i + 1 < Len(q) THEN q[(i + 1) + 1] ELSE Nil
        BY <1>4, <2>2, <4>1, <4>2
      <4>4. i < Len(w) => w[i + 1] = q[(i + 1) + 1]
        BY <1>1, <4>1
      <4> QED  BY <4>1, <4>3, <4>4
    <3> QED  BY <1>0, <3>0, <3>1, <3>2, <3>3
  <2>5. IsList(r, w)
    BY <1>1, <1>6, <2>1, <2>2, <2>3, <2>4 DEF IsList, Chained
  <2> QED  BY <2>5 DEF r, w
<1> QED  BY <1>7, <1>8

\* k is where ready_pop's scan of the first m stops.
FirstBest(q, m, k) ==
    /\ k \in 1 .. m
    /\ \A j \in 1 .. m : APrio[q[j]] < APrio[q[k]] \/ (APrio[q[j]] = APrio[q[k]] /\ k <= j)

\* ready_pop's scan finds the first of the best.
LEMMA ScanIs ==
    ASSUME NEW s, NEW q \in Seq(AProc), q # <<>>
    PROVE  FirstBest(q, Len(q), List(s)!Scan(q))
<1> DEFINE N == Len(q)
           W == [m \in 1 .. N |-> CHOOSE k : FirstBest(q, m, k)]
           F(g) == [m \in 1 .. N |-> IF m = 1 THEN 1 ELSE IF APrio[q[m]] > APrio[q[g[m - 1]]] THEN m ELSE g[m - 1]]
           best == CHOOSE g : g = F(g)
<1>0. N \in Nat /\ N >= 1 /\ \A i \in 1 .. N : APrio[q[i]] \in Int
    BY ListNumbers
<1>1. FirstBest(q, 1, 1)
    BY <1>0 DEF FirstBest
<1>2. ASSUME NEW m \in 1 .. N, m # 1, NEW k, FirstBest(q, m - 1, k)
      PROVE  FirstBest(q, m, IF APrio[q[m]] > APrio[q[k]] THEN m ELSE k)
  <2>1. k \in 1 .. N /\ k \in 1 .. m /\ m \in Nat /\ k \in Nat /\ k < m
    BY <1>0, <1>2 DEF FirstBest
  <2>2. \A j \in 1 .. m : j \in 1 .. m - 1 \/ j = m
    BY <1>0
  <2>3. \A j \in 1 .. m : j \in 1 .. N /\ j \in Nat
    BY <1>0
  <2>4. CASE APrio[q[m]] > APrio[q[k]]
    <3>1. \A j \in 1 .. m - 1 : APrio[q[j]] < APrio[q[m]]
      <4> SUFFICES ASSUME NEW j \in 1 .. m - 1 PROVE APrio[q[j]] < APrio[q[m]]
        OBVIOUS
      <4>1. j \in 1 .. N /\ APrio[q[j]] \in Int /\ APrio[q[m]] \in Int /\ APrio[q[k]] \in Int
        BY <1>0, <2>1
      <4>2. APrio[q[j]] < APrio[q[k]] \/ APrio[q[j]] = APrio[q[k]]
        BY <1>2 DEF FirstBest
      <4> QED  BY <2>4, <4>1, <4>2
    <3> QED  BY <2>1, <2>2, <2>4, <3>1 DEF FirstBest
  <2>5. CASE ~(APrio[q[m]] > APrio[q[k]])
    <3>1. APrio[q[m]] < APrio[q[k]] \/ (APrio[q[m]] = APrio[q[k]] /\ k <= m)
        BY <1>0, <2>1, <2>5
    <3> QED  BY <1>2, <2>1, <2>2, <2>5, <3>1 DEF FirstBest
  <2> QED  BY <2>4, <2>5
<1>3. ASSUME NEW m \in 1 .. N, NEW k, NEW j, FirstBest(q, m, k), FirstBest(q, m, j) PROVE k = j
  <2>1. k \in 1 .. N /\ j \in 1 .. N /\ APrio[q[k]] \in Int /\ APrio[q[j]] \in Int
    BY <1>0, <1>3 DEF FirstBest
  <2>2. APrio[q[j]] < APrio[q[k]] \/ (APrio[q[j]] = APrio[q[k]] /\ k <= j)
    BY <1>3 DEF FirstBest
  <2>3. APrio[q[k]] < APrio[q[j]] \/ (APrio[q[k]] = APrio[q[j]] /\ j <= k)
    BY <1>3 DEF FirstBest
  <2> QED  BY <2>1, <2>2, <2>3
<1>4. \A m \in 1 .. N : \E k : FirstBest(q, m, k)
  <2> DEFINE T == {m \in 1 .. N : ~\E k : FirstBest(q, m, k)}
  <2>1. SUFFICES ASSUME T # {} PROVE FALSE
    OBVIOUS
  <2>2. T \subseteq Nat
    BY <1>0
  <2>3. PICK x \in T : \A y \in T : x <= y
    <3> HIDE DEF T
    <3> QED  BY <2>1, <2>2, LeastOf
  <2>4. x \in 1 .. N /\ ~\E k : FirstBest(q, x, k)
    BY <2>3
  <2>5. x # 1
    BY <1>1, <2>4
  <2>6. x - 1 \in 1 .. N /\ ~(x <= x - 1)
    BY <1>0, <2>4, <2>5
  <2>7. PICK k : FirstBest(q, x - 1, k)
    BY <2>3, <2>6
  <2> QED  BY <1>2, <2>4, <2>5, <2>7
<1>5. \A m \in 1 .. N : FirstBest(q, m, W[m])
    BY <1>4
<1>6. W = F(W)
  <2>1. ASSUME NEW m \in 1 .. N
        PROVE  W[m] = IF m = 1 THEN 1 ELSE IF APrio[q[m]] > APrio[q[W[m - 1]]] THEN m ELSE W[m - 1]
    <3> HIDE DEF W
    <3>1. CASE m = 1
        BY <1>1, <1>3, <1>5, <3>1
    <3>2. CASE m # 1
      <4>1. m - 1 \in 1 .. N
        BY <1>0, <3>2
      <4>2. FirstBest(q, m, IF APrio[q[m]] > APrio[q[W[m - 1]]] THEN m ELSE W[m - 1])
        BY <1>2, <1>5, <3>2, <4>1
      <4> QED  BY <1>3, <1>5, <3>2, <4>2
    <3> QED  BY <3>1, <3>2
  <2>2. W = [m \in 1 .. N |-> W[m]]
    OBVIOUS
  <2> HIDE DEF W
  <2> QED  BY <2>1, <2>2
<1>7. List(s)!Scan(q) = best[N]
    BY DEF List!Scan, List!Better
<1>8. best = F(best)
  <2> HIDE DEF W, F
  <2> QED  BY <1>6
<1> HIDE DEF best, W
<1>9. \A m \in 1 .. N : best[m] = IF m = 1 THEN 1 ELSE IF APrio[q[m]] > APrio[q[best[m - 1]]] THEN m ELSE best[m - 1]
    BY <1>8
<1>10. \A m \in 1 .. N : FirstBest(q, m, best[m])
  <2> DEFINE T == {m \in 1 .. N : ~FirstBest(q, m, best[m])}
  <2>1. SUFFICES ASSUME T # {} PROVE FALSE
    OBVIOUS
  <2>2. T \subseteq Nat
    BY <1>0
  <2>3. PICK x \in T : \A y \in T : x <= y
    <3> HIDE DEF T
    <3> QED  BY <2>1, <2>2, LeastOf
  <2>4. x \in 1 .. N /\ ~FirstBest(q, x, best[x])
    BY <2>3
  <2>5. x # 1
    BY <1>1, <1>9, <2>4
  <2>6. x - 1 \in 1 .. N /\ ~(x <= x - 1)
    BY <1>0, <2>4, <2>5
  <2>7. FirstBest(q, x - 1, best[x - 1])
    BY <2>3, <2>6
  <2> QED  BY <1>2, <1>9, <2>4, <2>5, <2>7
<1>11. FirstBest(q, N, best[N])
    BY <1>0, <1>10
<1> QED  BY <1>7, <1>11

\* A dispatch takes the best process out of the list q and, if the running one stays
\* ready, puts that at its end.
LEMMA DispatchIs ==
    ASSUME NEW s, NEW l, NEW q, IsList(l, q), q # <<>>, NEW w, NEW parked \in BOOLEAN,
           parked => currpid \in AProc /\ ~Has(q, currpid),
           List(s)!Dispatch(l, q, w, parked)
    PROVE  \E k \in 1 .. Len(q) :
              /\ FirstBest(q, Len(q), k) /\ currpid' = q[k] /\ where' = [w EXCEPT ![q[k]] = "running"]
              /\ queue' = IF parked THEN Append(Without(q, k), currpid) ELSE Without(q, k)
              /\ IsList([head |-> ready_head', tail |-> ready_tail', next |-> next'], queue')
              /\ scanhung' = scanhung
<1> DEFINE k == List(s)!Scan(q)
           l1 == List(s)!unlink(l, k)
           h == l.head
           nx == l.next
<1>1. q \in Seq(AProc) /\ Once(q) /\ Chained(q, h, nx) /\ Len(q) \in Nat
    BY DEF IsList
<1>2. ~List(s)!Cyclic(h, nx) /\ List(s)!AsSeq(h, nx) = q
  <2> HIDE DEF h, nx
  <2> QED  BY <1>1, SeqIs
<1>3. FirstBest(q, Len(q), k) /\ k \in 1 .. Len(q)
  <2>1. FirstBest(q, Len(q), k)
    BY <1>1, ScanIs
  <2> HIDE DEF k
  <2> QED  BY <2>1 DEF FirstBest
<1>4. /\ currpid' = q[k] /\ where' = [w EXCEPT ![q[k]] = "running"] /\ scanhung' = scanhung
      /\ parked => /\ List(s)!Becomes(List(s)!push(l1, currpid))
                   /\ queue' = Append(List(s)!Drop(q, q[k]), currpid)
      /\ ~parked => List(s)!Becomes(l1) /\ queue' = List(s)!Drop(q, q[k])
    BY <1>2 DEF List!Dispatch
<1> HIDE DEF k
<1>5. List(s)!Drop(q, q[k]) = Without(q, k)
  <2>1. q[k] \in List(s)!Listed(q)
    BY <1>1, <1>3 DEF List!Listed
  <2>2. (CHOOSE i \in DOMAIN q : q[i] = q[k]) = k
    BY <1>1, <1>3 DEF Once
  <2> QED  BY <2>1, <2>2 DEF List!Drop, List!DropFirst, Without
<1>6. IsList(l1, Without(q, k))
    BY <1>3, UnlinkIs
<1> HIDE DEF l1
<1>7. CASE parked
  <2> DEFINE l2 == List(s)!push(l1, currpid)
  <2>1. currpid \in AProc /\ ~Has(Without(q, k), currpid)
    BY <1>1, <1>3, <1>7, WithoutIs
  <2>2. IsList(l2, Append(Without(q, k), currpid))
    BY <1>6, <2>1, PushIs
  <2>3. ready_head' = l2.head /\ ready_tail' = l2.tail /\ next' = l2.next
    BY <1>4, <1>7 DEF List!Becomes
  <2>4. queue' = Append(Without(q, k), currpid)
    BY <1>4, <1>5, <1>7
  <2> HIDE DEF l2
  <2>5. IsList([head |-> ready_head', tail |-> ready_tail', next |-> next'], queue')
    BY <2>2, <2>3, <2>4 DEF IsList
  <2> QED  BY <1>3, <1>4, <1>7, <2>4, <2>5
<1>8. CASE ~parked
  <2>3. ready_head' = l1.head /\ ready_tail' = l1.tail /\ next' = l1.next
    BY <1>4, <1>8 DEF List!Becomes
  <2>4. queue' = Without(q, k)
    BY <1>4, <1>5, <1>8
  <2>5. IsList([head |-> ready_head', tail |-> ready_tail', next |-> next'], queue')
    BY <1>6, <2>3, <2>4 DEF IsList
  <2> QED  BY <1>3, <1>4, <1>8, <2>4, <2>5
<1> QED  BY <1>7, <1>8

-----------------------------------------------------------------------------
\* The types of the list; hung is never set.
Places == {"free", "listed", "asleep", "running"}
PushAt == {"run", "slot", "clear", "tail_first", "head", "link", "tail"}
ListTypes ==
    /\ ready_head \in AProc \cup {Nil} /\ ready_tail \in AProc \cup {Nil}
    /\ next \in [AProc -> AProc \cup {Nil}] /\ where \in [AProc -> Places]
    /\ currpid \in AProc \cup {Shell}
    /\ pc \in [AProc \cup {Shell} -> PushAt]
    /\ pushed \in [AProc \cup {Shell} -> AProc \cup {Nil}]
    /\ queue \in Seq(AProc) /\ scanhung = FALSE
    /\ \A c \in AProc \cup {Shell} : pc[c] = "slot" => pushed[c] \in AProc

\* The flags, whatever happens.
FlagTypes == todo \subseteq ATwice /\ tick \in BOOLEAN /\ torn \in BOOLEAN

\* Not between two stores of ready_push.
Out(c) == pc[c] \in {"run", "slot"}

\* The three pointers as one list.
Pointers == [head |-> ready_head, tail |-> ready_tail, next |-> next]

\* Nobody is inside ready_push: the pointers are the queue, and the states fit.
Calm ==
    /\ \A c \in AProc \cup {Shell} : Out(c)
    /\ IsList(Pointers, queue)
    /\ \A p \in AProc : where[p] = "running" <=> p = currpid
    /\ \A p \in AProc : where[p] = "listed" <=> Has(queue, p)

\* The running context is inside ready_push, and nobody else has changed the list since.
Pushing ==
    LET x == pushed[currpid]
        pt == pc[currpid]
    IN  /\ \A c \in AProc \cup {Shell} : c # currpid => Out(c)
        /\ ~Out(currpid) /\ x \in AProc
        /\ Once(queue) /\ Chained(queue, ready_head, next)
        /\ \A p \in AProc : where[p] = "running" <=> p = currpid
        /\ \A p \in AProc : where[p] = "listed" <=> Has(queue, p) \/ p = x
        /\ pt # "tail" => ~Has(queue, x)
        /\ pt \in {"clear", "link"} => ready_tail = LastOf(queue)
        /\ pt \in {"tail_first", "head"} => queue = <<>>
        /\ pt = "head" => ready_tail = x
        /\ pt = "link" => queue # <<>>
        /\ pt \in {"tail_first", "head", "link"} => next[x] = Nil
        /\ pt = "tail" => queue # <<>> /\ LastOf(queue) = x

\* Until the list is torn.
ListInv == FlagTypes /\ (~torn => ListTypes /\ (Calm \/ Pushing))

\* The scan is the queue, whatever the running context is doing.
LEMMA ListSound ==
    ASSUME NEW s, ListInv
    PROVE  List(s)!ListKept
<1> SUFFICES ASSUME ~torn PROVE List(s)!TypeOK /\ ~scanhung /\ List(s)!ListIsQueue
    BY DEF List!ListKept
<1>0. ListTypes /\ FlagTypes /\ (Calm \/ Pushing)
    BY DEF ListInv
<1>1. List(s)!TypeOK /\ ~scanhung
    BY <1>0 DEF ListTypes, FlagTypes, Places, PushAt, List!TypeOK, List!Link, List!Context
<1>2. queue \in Seq(AProc) /\ Once(queue) /\ Chained(queue, ready_head, next) /\ currpid \in AProc \cup {Shell}
  <2>0. queue \in Seq(AProc) /\ currpid \in AProc \cup {Shell}
    BY <1>0 DEF ListTypes
  <2>1. CASE Calm
    BY <2>0, <2>1 DEF Calm, IsList, Pointers
  <2>2. CASE Pushing
    BY <2>0, <2>2 DEF Pushing
  <2> QED  BY <1>0, <2>1, <2>2
<1>3. ~List(s)!Cyclic(ready_head, next) /\ List(s)!AsSeq(ready_head, next) = queue
  <2>1. PICK h, nx, q : h = ready_head /\ nx = next /\ q = queue
    OBVIOUS
  <2>2. q \in Seq(AProc) /\ Once(q) /\ Chained(q, h, nx)
    BY <1>2, <2>1
  <2>3. ~List(s)!Cyclic(h, nx) /\ List(s)!AsSeq(h, nx) = q
    BY <2>2, SeqIs
  <2> QED  BY <2>1, <2>3
<1>4. (\A c \in AProc \cup {Shell} : Out(c)) => ready_tail = LastOf(queue)
    BY <1>0, <1>2 DEF Calm, Pushing, IsList, Pointers
<1>5. List(s)!ListIsQueue
    BY <1>3, <1>4 DEF List!ListIsQueue, List!Context, List!Inside, LastOf, Out
<1> QED  BY <1>1, <1>5

\* The list at boot.
LEMMA ListInit ==
    ASSUME NEW s, List(s)!Init
    PROVE  ListInv
<1> DEFINE q == ABoot
<1>0. Nil \notin AProc /\ Shell \notin AProc
    BY ListNumbers
<1>1. q \in Seq(AProc) /\ Once(q) /\ Len(q) \in Nat
  <2>1. DOMAIN ABoot = 1 .. Len(ABoot) /\ ABoot \in Seq(AProc)
    BY ListNumbers
  <2> QED  BY <2>1, ListNumbers DEF Once
<1>2. /\ queue = q /\ ready_head = (IF q = <<>> THEN Nil ELSE q[1])
      /\ ready_tail = (IF q = <<>> THEN Nil ELSE q[Len(q)])
      /\ next = [p \in AProc |-> IF \E i \in 1 .. Len(q) - 1 : q[i] = p
                                 THEN q[1 + CHOOSE i \in DOMAIN q : q[i] = p] ELSE Nil]
      /\ where = [p \in AProc |-> IF \E i \in DOMAIN q : q[i] = p THEN "listed" ELSE "free"]
      /\ currpid = Shell /\ pc = [c \in AProc \cup {Shell} |-> "run"]
      /\ pushed = [c \in AProc \cup {Shell} |-> Nil] /\ scanhung = FALSE
      /\ todo = ATwice /\ tick = FALSE /\ torn = FALSE
    BY DEF List!Init, List!Listed, List!Context
<1> HIDE DEF q
<1>3. q # <<>> => 1 \in 1 .. Len(q) /\ Len(q) \in 1 .. Len(q) /\ q[1] \in AProc /\ q[Len(q)] \in AProc
    BY <1>1
<1>4. ASSUME NEW p \in AProc, \E i \in 1 .. Len(q) - 1 : q[i] = p
      PROVE  \E i \in 1 .. Len(q) - 1 : /\ q[i] = p /\ q[1 + CHOOSE j \in DOMAIN q : q[j] = p] = q[i + 1]
                                        /\ q[i + 1] \in AProc
  <2>1. PICK i \in 1 .. Len(q) - 1 : q[i] = p
    BY <1>4
  <2>2. i \in DOMAIN q /\ i + 1 \in DOMAIN q /\ i + 1 = 1 + i
    BY <1>1
  <2>3. (CHOOSE j \in DOMAIN q : q[j] = p) = i
    BY <1>1, <2>1, <2>2 DEF Once
  <2>4. q[i + 1] \in AProc /\ q[1 + i] = q[i + 1]
    BY <1>1, <2>2
  <2> QED  BY <2>1, <2>3, <2>4
<1>5. next \in [AProc -> AProc \cup {Nil}]
  <2>1. ASSUME NEW p \in AProc
        PROVE  (IF \E i \in 1 .. Len(q) - 1 : q[i] = p
                THEN q[1 + CHOOSE i \in DOMAIN q : q[i] = p] ELSE Nil) \in AProc \cup {Nil}
    BY <1>4
  <2> QED  BY <1>2, <2>1
<1>6. Chained(q, ready_head, next)
  <2>1. ASSUME NEW i \in 1 .. Len(q) PROVE next[q[i]] = IF i < Len(q) THEN q[i + 1] ELSE Nil
    <3>0. q[i] \in AProc
        BY <1>1
    <3>1. CASE i < Len(q)
      <4>1. i \in 1 .. Len(q) - 1
        BY <1>1, <3>1
      <4>2. PICK j \in 1 .. Len(q) - 1 : q[j] = q[i] /\ q[1 + CHOOSE m \in DOMAIN q : q[m] = q[i]] = q[j + 1]
        BY <1>4, <3>0, <4>1
      <4>3. j = i
        <5>1. j \in 1 .. Len(q)
            BY <1>1
        <5> QED  BY <1>1, <4>2, <5>1 DEF Once
      <4> QED  BY <1>2, <3>0, <3>1, <4>1, <4>2, <4>3
    <3>2. CASE ~(i < Len(q))
      <4>1. i = Len(q)
        BY <1>1, <3>2
      <4>2. ~\E j \in 1 .. Len(q) - 1 : q[j] = q[i]
        <5> SUFFICES ASSUME NEW j \in 1 .. Len(q) - 1, q[j] = q[i] PROVE FALSE
            OBVIOUS
        <5>1. j \in 1 .. Len(q) /\ j # i
            BY <1>1, <4>1
        <5> QED  BY <1>1, <5>1 DEF Once
      <4> QED  BY <1>2, <3>0, <3>2, <4>2
    <3> QED  BY <3>1, <3>2
  <2> QED  BY <1>2, <2>1 DEF Chained
<1>7. ListTypes /\ FlagTypes
    BY <1>0, <1>1, <1>2, <1>3, <1>5 DEF ListTypes, FlagTypes, Places, PushAt
<1>8. IsList(Pointers, queue)
    BY <1>1, <1>2, <1>5, <1>6 DEF IsList, Pointers, LastOf
<1>9. \A p \in AProc : (where[p] = "listed" <=> Has(queue, p)) /\ where[p] # "running"
  <2>1. DOMAIN q = 1 .. Len(q)
    BY <1>1
  <2> QED  BY <1>2, <2>1 DEF Has
<1>10. Calm
    BY <1>0, <1>2, <1>8, <1>9 DEF Calm, Out
<1> QED  BY <1>7, <1>10 DEF ListInv

\* After a dispatch nobody is inside ready_push; what is running was the best of the queue.
LEMMA DispatchCalm ==
    ASSUME NEW s, NEW l, NEW q, IsList(l, q), q # <<>>, NEW w \in [AProc -> Places],
           NEW parked \in BOOLEAN, parked => currpid \in AProc /\ ~Has(q, currpid),
           ListTypes, Calm, UNCHANGED <<pc, pushed>>,
           \A p \in AProc : w[p] # "running" /\ (w[p] = "listed" <=> Has(q, p) \/ (parked /\ p = currpid)),
           List(s)!Dispatch(l, q, w, parked)
    PROVE  /\ ListTypes' /\ Calm'
           /\ \E k \in 1 .. Len(q) : FirstBest(q, Len(q), k) /\ currpid' = q[k]
<1>1. PICK k \in 1 .. Len(q) :
              /\ FirstBest(q, Len(q), k) /\ currpid' = q[k] /\ where' = [w EXCEPT ![q[k]] = "running"]
              /\ queue' = IF parked THEN Append(Without(q, k), currpid) ELSE Without(q, k)
              /\ IsList([head |-> ready_head', tail |-> ready_tail', next |-> next'], queue')
              /\ scanhung' = scanhung
    BY DispatchIs
<1>0. q \in Seq(AProc) /\ Once(q) /\ Nil \notin AProc /\ Shell \notin AProc /\ q[k] \in AProc
    BY ListNumbers DEF IsList
<1> DEFINE u == Without(q, k)
<1>2. u \in Seq(AProc) /\ Once(u) /\ \A x : Has(u, x) <=> Has(q, x) /\ x # q[k]
    BY <1>0, WithoutIs
<1> HIDE DEF u
<1>3. IsList(Pointers', queue')
    BY <1>1 DEF Pointers
<1>4. /\ queue' \in Seq(AProc) /\ next' \in [AProc -> AProc \cup {Nil}]
      /\ ready_head' \in AProc \cup {Nil} /\ ready_tail' \in AProc \cup {Nil}
  <2>1. /\ queue' \in Seq(AProc) /\ next' \in [AProc -> AProc \cup {Nil}]
        /\ ready_head' = (IF queue' = <<>> THEN Nil ELSE queue'[1]) /\ ready_tail' = LastOf(queue')
    BY <1>1 DEF IsList, Chained
  <2>2. queue' # <<>> => queue'[1] \in AProc /\ queue'[Len(queue')] \in AProc
    BY <2>1
  <2> QED  BY <2>1, <2>2 DEF LastOf
<1>5. where' \in [AProc -> Places]
    BY <1>0, <1>1 DEF Places
<1>6. ListTypes'
    BY <1>0, <1>1, <1>4, <1>5 DEF ListTypes
<1>7. \A x : Has(queue', x) <=> (Has(q, x) /\ x # q[k]) \/ (parked /\ x = currpid)
  <2>1. CASE parked
    <3>1. currpid \in AProc /\ ~Has(u, currpid) /\ queue' = Append(u, currpid)
        BY <1>1, <1>2, <2>1 DEF u
    <3>2. \A x : Has(queue', x) <=> Has(u, x) \/ x = currpid
        BY <1>2, <3>1, AppendIs
    <3> QED  BY <1>2, <2>1, <3>2
  <2>2. CASE ~parked
    <3>1. queue' = u
        BY <1>1, <2>2 DEF u
    <3> QED  BY <1>2, <2>2, <3>1
  <2> QED  BY <2>1, <2>2
<1>8. parked => currpid # q[k]
    BY DEF Has
<1>9. \A p \in AProc : (where'[p] = "running" <=> p = currpid') /\ (where'[p] = "listed" <=> Has(queue', p))
    BY <1>0, <1>1, <1>7, <1>8
<1>10. Calm'
    BY <1>3, <1>9 DEF Calm, Out
<1> QED  BY <1>1, <1>6, <1>10

\* The best of the queue, even when an interrupt has just pushed one more.
LEMMA BestIs ==
    ASSUME NEW s, queue \in Seq(AProc), NEW q \in Seq(AProc), Once(q),
           q = queue \/ \E x \in AProc : q = Append(queue, x),
           NEW k \in 1 .. Len(q), FirstBest(q, Len(q), k), currpid' = q[k]
    PROVE  List(s)!BestDispatched
<1>1. /\ Len(queue) \in Nat /\ DOMAIN queue = 1 .. Len(queue)
      /\ \A i \in DOMAIN queue : i \in 1 .. Len(q) /\ q[i] = queue[i]
  <2>1. Len(queue) \in Nat /\ DOMAIN queue = 1 .. Len(queue)
    OBVIOUS
  <2>2. CASE q = queue
    BY <2>1, <2>2
  <2>3. CASE \E x \in AProc : q = Append(queue, x)
    <3>1. PICK x \in AProc : q = Append(queue, x)
        BY <2>3
    <3>2. Len(q) = Len(queue) + 1 /\ \A i \in 1 .. Len(queue) : q[i] = queue[i]
        BY <3>1, AppendProperties
    <3> QED  BY <2>1, <3>2
  <2> QED  BY <2>1, <2>2, <2>3
<1> SUFFICES ASSUME NEW i0 \in DOMAIN queue, queue[i0] = currpid', currpid # currpid'
             PROVE  LET i == CHOOSE m \in DOMAIN queue : queue[m] = currpid'
                    IN  \A j \in DOMAIN queue : \/ APrio[queue[j]] < APrio[currpid']
                                                \/ APrio[queue[j]] = APrio[currpid'] /\ i <= j
    BY DEF List!BestDispatched, List!Listed
<1>2. i0 = k
    BY <1>1 DEF Once
<1>3. (CHOOSE m \in DOMAIN queue : queue[m] = currpid') = k
    BY <1>1, <1>2 DEF Once
<1>4. \A j \in DOMAIN queue : APrio[queue[j]] < APrio[q[k]] \/ (APrio[queue[j]] = APrio[q[k]] /\ k <= j)
    BY <1>1 DEF FirstBest
<1> QED  BY <1>3, <1>4

\* Whoever goes on running was not dispatched.
LEMMA NotDispatched ==
    ASSUME NEW s, currpid' = currpid \/ currpid' = Shell, queue \in Seq(AProc)
    PROVE  List(s)!BestDispatched
<1>1. \A i \in DOMAIN queue : queue[i] # Shell
    BY ListNumbers
<1> QED  BY <1>1 DEF List!BestDispatched, List!Listed

\* What a calm state says of the pointers.
LEMMA CalmIs ==
    ASSUME NEW s, ListTypes, Calm
    PROVE  /\ IsList(List(s)!TheList, queue) /\ (ready_head # Nil => queue # <<>>)
           /\ currpid \in AProc => where[currpid] = "running" /\ ~Has(queue, currpid)
<1>1. List(s)!TheList = Pointers
    BY DEF List!TheList, List!List, Pointers
<1>2. ready_head # Nil => queue # <<>>
    BY DEF Calm, IsList, Chained, Pointers
<1>3. currpid \in AProc => where[currpid] = "running" /\ ~Has(queue, currpid)
    BY DEF Calm
<1> QED  BY <1>1, <1>2, <1>3 DEF Calm, ListTypes

\* What proc_resched and proc_preempt have in common.
LEMMA SwitchOk ==
    ASSUME NEW s, ListTypes, Calm, List(s)!Resched, ready_head # Nil, UNCHANGED <<pc, pushed>>
    PROVE  ListTypes' /\ Calm' /\ List(s)!BestDispatched
<1>0. queue \in Seq(AProc) /\ Shell \notin AProc /\ currpid \in AProc \cup {Shell} /\ where \in [AProc -> Places]
    BY ListNumbers DEF ListTypes
<1>1. /\ IsList(List(s)!TheList, queue) /\ queue # <<>> /\ Once(queue)
      /\ currpid \in AProc => where[currpid] = "running" /\ ~Has(queue, currpid)
    BY CalmIs DEF IsList
<1>4. CASE currpid = Shell
  <2>1. List(s)!Dispatch(List(s)!TheList, queue, where, FALSE)
    BY <1>4 DEF List!Resched
  <2>2. \A p \in AProc : where[p] # "running" /\ (where[p] = "listed" <=> Has(queue, p) \/ (FALSE /\ p = currpid))
    BY <1>0, <1>4 DEF Calm
  <2>3. /\ ListTypes' /\ Calm'
        /\ \E k \in 1 .. Len(queue) : FirstBest(queue, Len(queue), k) /\ currpid' = queue[k]
    BY <1>0, <1>1, <2>1, <2>2, DispatchCalm
  <2> QED  BY <1>0, <1>1, <2>3, BestIs
<1>5. CASE currpid # Shell
  <2> DEFINE w == [where EXCEPT ![currpid] = "listed"]
  <2>1. List(s)!Dispatch(List(s)!TheList, queue, w, TRUE)
    BY <1>5 DEF List!Resched
  <2>2. w \in [AProc -> Places] /\ currpid \in AProc
    BY <1>0, <1>5 DEF Places
  <2>3. \A p \in AProc : w[p] # "running" /\ (w[p] = "listed" <=> Has(queue, p) \/ (TRUE /\ p = currpid))
    BY <1>0, <2>2 DEF Calm
  <2> HIDE DEF w
  <2>4. /\ ListTypes' /\ Calm'
        /\ \E k \in 1 .. Len(queue) : FirstBest(queue, Len(queue), k) /\ currpid' = queue[k]
    BY <1>1, <2>1, <2>2, <2>3, DispatchCalm
  <2> QED  BY <1>0, <1>1, <2>4, BestIs
<1> QED  BY <1>4, <1>5

\* So do proc_sleep_us, proc_block and proc_exit.
LEMMA LeaveOk ==
    ASSUME NEW s, NEW x \in {"asleep", "free"}, ListTypes, Calm, List(s)!leave(x)
    PROVE  ListTypes' /\ Calm' /\ List(s)!BestDispatched
<1>0. queue \in Seq(AProc) /\ Shell \notin AProc /\ currpid \in AProc /\ where \in [AProc -> Places]
    BY ListNumbers DEF ListTypes, List!leave
<1>1. /\ IsList(List(s)!TheList, queue) /\ (ready_head # Nil => queue # <<>>) /\ Once(queue)
      /\ where[currpid] = "running" /\ ~Has(queue, currpid)
    BY <1>0, CalmIs DEF IsList
<1>2. UNCHANGED <<pc, pushed>>
    BY DEF List!leave
<1> DEFINE w == [where EXCEPT ![currpid] = x]
<1>3. w \in [AProc -> Places] /\ \A p \in AProc : w[p] # "running" /\ (w[p] = "listed" <=> Has(queue, p) \/ (FALSE /\ p = currpid))
    BY <1>0, <1>1 DEF Calm, Places
<1>4. CASE ready_head = Nil
  <2>1. UNCHANGED <<ready_head, ready_tail, next, queue, scanhung>> /\ currpid' = Shell /\ where' = w
    BY <1>4 DEF List!leave
  <2> HIDE DEF w
  <2>2. Pointers' = Pointers
    BY <2>1 DEF Pointers
  <2>3. ListTypes'
    BY <1>2, <1>3, <2>1 DEF ListTypes
  <2>4. Calm'
    BY <1>0, <1>2, <1>3, <2>1, <2>2 DEF Calm, Out
  <2> QED  BY <1>0, <2>1, <2>3, <2>4, NotDispatched
<1>5. CASE ready_head # Nil
  <2>1. List(s)!Dispatch(List(s)!TheList, queue, w, FALSE)
    BY <1>5 DEF List!leave
  <2> HIDE DEF w
  <2>4. /\ ListTypes' /\ Calm'
        /\ \E k \in 1 .. Len(queue) : FirstBest(queue, Len(queue), k) /\ currpid' = queue[k]
    BY <1>1, <1>2, <1>3, <1>5, <2>1, DispatchCalm
  <2> QED  BY <1>0, <1>1, <2>4, BestIs
<1> QED  BY <1>4, <1>5

\* The timer interrupt readies a sleeper, at an instruction where nobody is inside ready_push.
LEMMA WakeOk ==
    ASSUME NEW s, ListTypes, Calm, List(s)!proc_timer_tick
    PROVE  ListTypes' /\ Calm' /\ currpid' = currpid
<1>0. queue \in Seq(AProc) /\ where \in [AProc -> Places] /\ Nil \notin AProc
    BY ListNumbers DEF ListTypes
<1>1. IsList(List(s)!TheList, queue) /\ Once(queue)
    BY CalmIs DEF IsList
<1>2. UNCHANGED <<pc, pushed, currpid, scanhung>>
    BY DEF List!proc_timer_tick
<1>3. PICK x \in AProc : /\ where[x] = "asleep" /\ where' = [where EXCEPT ![x] = "listed"]
                         /\ List(s)!Becomes(List(s)!push(List(s)!TheList, x)) /\ queue' = Append(queue, x)
    BY DEF List!proc_timer_tick
<1> DEFINE l == List(s)!push(List(s)!TheList, x)
<1>4. ~Has(queue, x)
    BY <1>3 DEF Calm
<1>5. IsList(l, queue') /\ \A p : Has(queue', p) <=> Has(queue, p) \/ p = x
    BY <1>0, <1>1, <1>3, <1>4, PushIs, AppendIs
<1>6. ready_head' = l.head /\ ready_tail' = l.tail /\ next' = l.next
    BY <1>3 DEF List!Becomes
<1> HIDE DEF l
<1>7. IsList(Pointers', queue')
    BY <1>5, <1>6 DEF IsList, Pointers
<1>8. /\ ready_head' \in AProc \cup {Nil} /\ ready_tail' \in AProc \cup {Nil} /\ next' \in [AProc -> AProc \cup {Nil}]
      /\ queue' \in Seq(AProc)
  <2>1. /\ l.head = (IF queue' = <<>> THEN Nil ELSE queue'[1]) /\ l.tail = LastOf(queue')
        /\ l.next \in [AProc -> AProc \cup {Nil}] /\ queue' \in Seq(AProc)
    BY <1>5 DEF IsList, Chained
  <2>2. queue' # <<>> => queue'[1] \in AProc /\ queue'[Len(queue')] \in AProc
    BY <2>1
  <2> QED  BY <1>6, <2>1, <2>2 DEF LastOf
<1>9. where' \in [AProc -> Places] /\ \A p \in AProc : where'[p] = IF p = x THEN "listed" ELSE where[p]
    BY <1>0, <1>3 DEF Places
<1>10. \A p \in AProc : (where'[p] = "running" <=> p = currpid') /\ (where'[p] = "listed" <=> Has(queue', p))
    BY <1>2, <1>3, <1>5, <1>9 DEF Calm
<1>11. ListTypes'
    BY <1>2, <1>8, <1>9 DEF ListTypes
<1>12. Calm'
    BY <1>2, <1>7, <1>10 DEF Calm, Out
<1> QED  BY <1>2, <1>11, <1>12

\* proc_create goes on to push a process that is not listed.
LEMMA StartPush ==
    ASSUME ListTypes, Calm, NEW x \in AProc, where[x] \in {"free", "asleep"},
           where' = [where EXCEPT ![x] = "listed"], pushed' = [pushed EXCEPT ![currpid] = x],
           pc' = [pc EXCEPT ![currpid] = "clear"],
           UNCHANGED <<ready_head, ready_tail, next, currpid, queue, scanhung>>
    PROVE  ListTypes' /\ Pushing'
<1>1. /\ where \in [AProc -> Places] /\ pushed \in [AProc \cup {Shell} -> AProc \cup {Nil}]
      /\ currpid \in AProc \cup {Shell} /\ queue \in Seq(AProc)
      /\ pc \in [AProc \cup {Shell} -> PushAt]
      /\ \A c \in AProc \cup {Shell} : pc[c] = "slot" => pushed[c] \in AProc
    BY DEF ListTypes
<1>2. ListTypes'
  <2>1. where' \in [AProc -> Places] /\ pushed' \in [AProc \cup {Shell} -> AProc \cup {Nil}]
    BY <1>1 DEF Places
  <2>2. pc' \in [AProc \cup {Shell} -> PushAt]
    BY <1>1 DEF PushAt
  <2>3. \A c \in AProc \cup {Shell} : pc'[c] = "slot" => pushed'[c] \in AProc
    BY <1>1
  <2> QED  BY <2>1, <2>2, <2>3 DEF ListTypes
<1>3. ~Has(queue, x) /\ x # currpid
    BY DEF Calm
<1>4. pushed'[currpid'] = x /\ pc'[currpid'] = "clear" /\ \A c \in AProc \cup {Shell} : c # currpid' => Out(c)'
    BY <1>1 DEF Calm, Out
<1>5. Once(queue') /\ Chained(queue', ready_head', next') /\ ready_tail' = LastOf(queue')
    BY DEF Calm, IsList, Pointers
<1>6. \A p \in AProc : where'[p] = IF p = x THEN "listed" ELSE where[p]
    BY <1>1
<1>7. \A p \in AProc : (where'[p] = "running" <=> p = currpid') /\ (where'[p] = "listed" <=> Has(queue', p) \/ p = x)
    BY <1>3, <1>6 DEF Calm
<1>8. ~Has(queue', x)
    BY <1>3
<1> QED  BY <1>2, <1>4, <1>5, <1>7, <1>8 DEF Pushing, Out

\* A store in the middle of ready_push: the list a scan sees stays the queue.
LEMMA StorePush ==
    ASSUME NEW s, ListTypes, Pushing,
           List(s)!push_clear \/ List(s)!push_tail_first \/ List(s)!push_link
    PROVE  ListTypes' /\ Pushing'
<1> DEFINE x == pushed[currpid]
<1>0. /\ next \in [AProc -> AProc \cup {Nil}] /\ currpid \in AProc \cup {Shell} /\ queue \in Seq(AProc)
      /\ pc \in [AProc \cup {Shell} -> PushAt]
      /\ pushed \in [AProc \cup {Shell} -> AProc \cup {Nil}] /\ ready_head \in AProc \cup {Nil}
      /\ ready_tail \in AProc \cup {Nil}
      /\ Nil \notin AProc /\ x \in AProc /\ Once(queue) /\ Chained(queue, ready_head, next)
    BY ListNumbers DEF ListTypes, Pushing
<1>1. UNCHANGED <<ready_head, currpid, where, pushed>>
    BY DEF List!push_clear, List!push_tail_first, List!push_link
<1>2. PICK y \in {"tail_first", "head", "link", "tail"} : pc' = [pc EXCEPT ![currpid] = y]
    BY DEF List!push_clear, List!push_tail_first, List!push_link
<1>3. pc'[currpid'] = y /\ ~Out(currpid)' /\ \A c \in AProc \cup {Shell} : c # currpid' => Out(c)'
    BY <1>0, <1>1, <1>2 DEF Pushing, Out
<1>4. /\ pc' \in [AProc \cup {Shell} -> PushAt]
      /\ \A c \in AProc \cup {Shell} : pc'[c] = "slot" => pushed'[c] \in AProc
  <2>1. pc' \in [AProc \cup {Shell} -> PushAt]
    BY <1>0, <1>2 DEF PushAt
  <2>2. \A c \in AProc \cup {Shell} : pc[c] = "slot" => pushed[c] \in AProc
    BY DEF ListTypes
  <2> QED  BY <1>0, <1>1, <1>2, <2>1, <2>2
<1>5. pushed'[currpid'] = x
    BY <1>1
<1>6. \A p \in AProc : where'[p] = "running" <=> p = currpid'
    BY <1>1 DEF Pushing
<1>7. Len(queue) \in Nat /\ \A i \in 1 .. Len(queue) : queue[i] \in AProc
    BY <1>0
<1> HIDE DEF x
<1>8. CASE List(s)!push_clear
  <2>1. /\ next' = [next EXCEPT ![x] = Nil] /\ pc[currpid] = "clear"
        /\ UNCHANGED <<ready_tail, queue, scanhung>>
        /\ pc' = [pc EXCEPT ![currpid] = IF ready_head = Nil THEN "tail_first" ELSE "link"]
    BY <1>8 DEF List!push_clear, x
  <2>2. y = IF ready_head = Nil THEN "tail_first" ELSE "link"
    BY <1>0, <1>1, <1>3, <2>1
  <2>3. ~Has(queue, x) /\ ready_tail = LastOf(queue)
    BY <2>1 DEF Pushing, x
  <2>4. next' \in [AProc -> AProc \cup {Nil}] /\ next'[x] = Nil /\ \A p \in AProc : p # x => next'[p] = next[p]
    BY <1>0, <2>1
  <2>5. Chained(queue, ready_head, next')
    BY <1>0, <1>7, <2>3, <2>4 DEF Chained, Has
  <2>6. ready_head = Nil <=> queue = <<>>
    BY <1>0, <1>7 DEF Chained
  <2>7. ListTypes'
    BY <1>1, <1>4, <2>1, <2>4 DEF ListTypes
  <2>8. \A p \in AProc : where'[p] = "listed" <=> Has(queue', p) \/ p = x
    BY <1>1, <2>1 DEF Pushing, x
  <2>9. Once(queue') /\ Chained(queue', ready_head', next') /\ ~Has(queue', x) /\ ready_tail' = LastOf(queue')
    BY <1>0, <1>1, <2>1, <2>3, <2>5
  <2>10. (y = "tail_first" => queue' = <<>>) /\ (y = "link" => queue' # <<>>) /\ y \in {"tail_first", "link"}
    BY <2>1, <2>2, <2>6
  <2> QED  BY <1>0, <1>3, <1>5, <1>6, <2>4, <2>7, <2>8, <2>9, <2>10 DEF Pushing
<1>9. CASE List(s)!push_tail_first
  <2>1. /\ ready_tail' = x /\ pc[currpid] = "tail_first"
        /\ UNCHANGED <<next, queue, scanhung>> /\ pc' = [pc EXCEPT ![currpid] = "head"]
    BY <1>9 DEF List!push_tail_first, x
  <2>2. y = "head"
    BY <1>0, <1>1, <1>3, <2>1
  <2>3. ~Has(queue, x) /\ queue = <<>> /\ next[x] = Nil
    BY <2>1 DEF Pushing, x
  <2>7. ListTypes'
    BY <1>0, <1>1, <1>4, <2>1 DEF ListTypes
  <2>8. \A p \in AProc : where'[p] = "listed" <=> Has(queue', p) \/ p = x
    BY <1>1, <2>1 DEF Pushing, x
  <2>9. Once(queue') /\ Chained(queue', ready_head', next') /\ ~Has(queue', x) /\ queue' = <<>> /\ next'[x] = Nil
    BY <1>0, <1>1, <2>1, <2>3
  <2> QED  BY <1>0, <1>3, <1>5, <1>6, <2>1, <2>2, <2>7, <2>8, <2>9 DEF Pushing
<1>10. CASE List(s)!push_link
  <2>1. /\ pc[currpid] = "link" /\ UNCHANGED ready_tail /\ queue' = Append(queue, x)
        /\ next' = IF ready_tail = Nil THEN next ELSE [next EXCEPT ![ready_tail] = x]
        /\ scanhung' = (ready_tail = Nil) /\ pc' = [pc EXCEPT ![currpid] = "tail"]
    BY <1>10 DEF List!push_link, x
  <2>2. y = "tail"
    BY <1>0, <1>1, <1>3, <2>1
  <2>3. ~Has(queue, x) /\ queue # <<>> /\ next[x] = Nil /\ ready_tail = LastOf(queue)
    BY <2>1 DEF Pushing, x
  <2>4. PICK m \in Nat : m = Len(queue) /\ m # 0 /\ ready_tail = queue[m]
    BY <1>0, <2>3 DEF LastOf
  <2>5. ready_tail \in AProc /\ ready_tail # Nil /\ x # ready_tail
    BY <1>0, <1>7, <2>3, <2>4 DEF Has
  <2>6. /\ next' \in [AProc -> AProc \cup {Nil}] /\ next'[ready_tail] = x
        /\ \A p \in AProc : p # ready_tail => next'[p] = next[p]
    BY <1>0, <2>1, <2>5
  <2>7. /\ queue' \in Seq(AProc) /\ Len(queue') = m + 1 /\ queue'[m + 1] = x
        /\ \A i \in 1 .. m : queue'[i] = queue[i]
    BY <1>0, <2>1, <2>4, AppendProperties
  <2>8. Once(queue')
    BY <1>0, <1>7, <2>3, <2>4, <2>7 DEF Once, Has
  <2>9. queue' # <<>> /\ queue'[1] = queue[1] /\ LastOf(queue') = x
    BY <2>4, <2>7 DEF LastOf
  <2>10. Chained(queue', ready_head', next')
    <3>1. ready_head' = queue'[1]
        BY <1>0, <1>1, <2>3, <2>9 DEF Chained
    <3>2. ASSUME NEW i \in 1 .. m + 1
          PROVE  next'[queue'[i]] = IF i < m + 1 THEN queue'[i + 1] ELSE Nil
      <4>1. CASE i = m + 1
        BY <1>0, <2>3, <2>5, <2>6, <2>7, <4>1
      <4>2. CASE i = m
        BY <2>4, <2>6, <2>7, <4>2
      <4>3. CASE i \in 1 .. m - 1
        <5>1. queue[i] \in AProc /\ queue[i] # queue[m]
            BY <1>0, <1>7, <2>4, <4>3 DEF Once
        <5>2. next[queue[i]] = queue[i + 1] /\ i + 1 \in 1 .. m
            BY <1>0, <2>4, <4>3 DEF Chained
        <5> QED  BY <2>4, <2>6, <2>7, <4>3, <5>1, <5>2
      <4> QED  BY <4>1, <4>2, <4>3
    <3> QED  BY <2>7, <2>9, <3>1, <3>2 DEF Chained
  <2>11. \A p : Has(queue', p) <=> Has(queue, p) \/ p = x
    BY <2>4, <2>7 DEF Has
  <2>12. \A p \in AProc : where'[p] = "listed" <=> Has(queue', p) \/ p = x
    BY <1>1, <2>11 DEF Pushing, x
  <2>13. ListTypes'
    BY <1>1, <1>4, <2>1, <2>5, <2>6, <2>7 DEF ListTypes
  <2> QED  BY <1>0, <1>3, <1>5, <1>6, <2>2, <2>8, <2>9, <2>10, <2>12, <2>13 DEF Pushing
<1> QED  BY <1>8, <1>9, <1>10

\* The last store of ready_push.
LEMMA EndPush ==
    ASSUME NEW s, ListTypes, Pushing, List(s)!push_head \/ List(s)!push_set_tail
    PROVE  ListTypes' /\ Calm'
<1> DEFINE x == pushed[currpid]
<1>0. /\ next \in [AProc -> AProc \cup {Nil}] /\ currpid \in AProc \cup {Shell} /\ queue \in Seq(AProc)
      /\ pc \in [AProc \cup {Shell} -> PushAt]
      /\ pushed \in [AProc \cup {Shell} -> AProc \cup {Nil}]
      /\ Nil \notin AProc /\ x \in AProc /\ Once(queue) /\ Chained(queue, ready_head, next)
    BY ListNumbers DEF ListTypes, Pushing
<1>1. /\ UNCHANGED <<next, currpid, where, scanhung>> /\ pc' = [pc EXCEPT ![currpid] = "run"]
      /\ pushed' = [pushed EXCEPT ![currpid] = Nil]
    BY DEF List!push_head, List!push_set_tail
<1>2. \A c \in AProc \cup {Shell} : Out(c)'
    BY <1>0, <1>1 DEF Pushing, Out
<1>3. /\ pc' \in [AProc \cup {Shell} -> PushAt]
      /\ pushed' \in [AProc \cup {Shell} -> AProc \cup {Nil}]
      /\ \A c \in AProc \cup {Shell} : pc'[c] = "slot" => pushed'[c] \in AProc
  <2>1. pc' \in [AProc \cup {Shell} -> PushAt] /\ pushed' \in [AProc \cup {Shell} -> AProc \cup {Nil}]
    BY <1>0, <1>1 DEF PushAt
  <2>2. \A c \in AProc \cup {Shell} : pc[c] = "slot" => pushed[c] \in AProc
    BY DEF ListTypes
  <2> QED  BY <1>0, <1>1, <2>1, <2>2
<1>4. /\ \A p \in AProc : where'[p] = "running" <=> p = currpid'
      /\ \A p \in AProc : where'[p] = "listed" <=> Has(queue, p) \/ p = x
    BY <1>1 DEF Pushing
<1> HIDE DEF x
<1>5. CASE List(s)!push_head
  <2>1. /\ pc[currpid] = "head" /\ ready_head' = x /\ queue' = Append(queue, x) /\ UNCHANGED ready_tail
    BY <1>5 DEF List!push_head, x
  <2>2. queue = <<>> /\ ready_tail = x /\ next[x] = Nil
    BY <2>1 DEF Pushing, x
  <2>3. queue' = <<x>> /\ queue' \in Seq(AProc) /\ Len(queue') = 1 /\ queue'[1] = x
    BY <1>0, <2>1, <2>2
  <2>4. Once(queue') /\ Chained(queue', ready_head', next') /\ ready_tail' = LastOf(queue')
    BY <1>1, <2>1, <2>2, <2>3 DEF Once, Chained, LastOf
  <2>5. \A p : Has(queue', p) <=> p = x
    BY <2>3 DEF Has
  <2>6. \A p : ~Has(queue, p)
    BY <2>2 DEF Has
  <2>7. ListTypes'
    BY <1>0, <1>1, <1>3, <2>1, <2>2, <2>3 DEF ListTypes
  <2>8. IsList(Pointers', queue')
    BY <1>0, <1>1, <2>3, <2>4 DEF IsList, Pointers
  <2>9. \A p \in AProc : where'[p] = "listed" <=> Has(queue', p)
    BY <1>4, <2>5, <2>6
  <2> QED  BY <1>2, <1>4, <2>7, <2>8, <2>9 DEF Calm
<1>6. CASE List(s)!push_set_tail
  <2>1. /\ pc[currpid] = "tail" /\ ready_tail' = x /\ UNCHANGED <<ready_head, queue>>
    BY <1>6 DEF List!push_set_tail, x
  <2>2. queue # <<>> /\ LastOf(queue) = x
    BY <2>1 DEF Pushing, x
  <2>3. Has(queue, x)
    BY <1>0, <2>2 DEF Has, LastOf
  <2>4. Once(queue') /\ Chained(queue', ready_head', next') /\ ready_tail' = LastOf(queue')
    BY <1>0, <1>1, <2>1, <2>2
  <2>7. ListTypes'
    BY <1>0, <1>1, <1>3, <2>1 DEF ListTypes
  <2>8. IsList(Pointers', queue')
    BY <1>0, <1>1, <2>1, <2>4 DEF IsList, Pointers
  <2>9. \A p \in AProc : where'[p] = "listed" <=> Has(queue', p)
    BY <1>4, <2>1, <2>3
  <2> QED  BY <1>2, <1>4, <2>7, <2>8, <2>9 DEF Calm
<1> QED  BY <1>5, <1>6

\* The flags.
LEMMA FlagsStep ==
    ASSUME NEW s, FlagTypes, List(s)!Next
    PROVE  FlagTypes'
<1>1. todo' \subseteq ATwice
    BY DEF FlagTypes, List!Next, List!Step, List!proc_resched, List!leave, List!timer_irq, List!proc_timer_tick,
           List!proc_preempt, List!proc_create, List!proc_create_fill, List!proc_ready, List!push_clear,
           List!push_tail_first, List!push_head, List!push_link, List!push_set_tail
<1>2. tick' \in BOOLEAN
    BY DEF FlagTypes, List!Next, List!Step, List!proc_resched, List!leave, List!timer_irq, List!proc_timer_tick,
           List!proc_preempt, List!proc_create, List!proc_create_fill, List!proc_ready, List!push_clear,
           List!push_tail_first, List!push_head, List!push_link, List!push_set_tail
<1>3. torn' \in BOOLEAN
    BY DEF FlagTypes, List!Next, List!Step, List!proc_resched, List!leave, List!timer_irq, List!proc_timer_tick,
           List!proc_preempt, List!proc_create, List!proc_create_fill, List!proc_ready, List!push_clear,
           List!push_tail_first, List!push_head, List!push_link, List!push_set_tail, List!Tears, List!Stay
<1> QED  BY <1>1, <1>2, <1>3 DEF FlagTypes

\* What a step that leaves the list alone keeps.
LEMMA StayOk ==
    ASSUME NEW s, List(s)!Stay, UNCHANGED <<pc, pushed>>, ListTypes, Calm \/ Pushing
    PROVE  ListTypes' /\ (Calm' \/ Pushing') /\ currpid' = currpid
<1>1. UNCHANGED <<ready_head, ready_tail, next, where, currpid, queue, scanhung, pc, pushed>>
    BY DEF List!Stay
<1>2. ListTypes'
    BY <1>1 DEF ListTypes
<1>3. CASE Calm
    BY <1>1, <1>2, <1>3 DEF Calm, Pointers, Out
<1>4. CASE Pushing
    BY <1>1, <1>2, <1>4 DEF Pushing, Out
<1> QED  BY <1>1, <1>2, <1>3, <1>4

\* The list is torn as soon as it changes around a push.
LEMMA TearsIs ==
    ASSUME NEW s, ListTypes, Calm \/ Pushing, ~torn', List(s)!Tears
    PROVE  Calm
<1>1. \A c \in AProc \cup {Shell} : Out(c)
    BY DEF List!Tears, List!Context, List!Inside, Out
<1>2. currpid \in AProc \cup {Shell}
    BY DEF ListTypes
<1> QED  BY <1>1, <1>2 DEF Pushing

\* One step of the list.
LEMMA ListStep ==
    ASSUME NEW s, ~torn', ~torn, FlagTypes, ListTypes, Calm \/ Pushing, List(s)!Next
    PROVE  ListTypes' /\ (Calm' \/ Pushing') /\ List(s)!BestDispatched
<1>0. /\ queue \in Seq(AProc) /\ currpid \in AProc \cup {Shell} /\ List(s)!Step
      /\ pc \in [AProc \cup {Shell} -> PushAt] /\ pushed \in [AProc \cup {Shell} -> AProc \cup {Nil}]
      /\ \A c \in AProc \cup {Shell} : pc[c] = "slot" => pushed[c] \in AProc
    BY DEF ListTypes, List!Next
<1>1. CASE List(s)!proc_resched
  <2>1. Calm /\ List(s)!Resched /\ ready_head # Nil /\ UNCHANGED <<pc, pushed>>
    BY <1>1, TearsIs DEF List!proc_resched
  <2> QED  BY <2>1, SwitchOk
<1>2. ASSUME NEW x \in {"asleep", "free"}, List(s)!leave(x)
      PROVE  ListTypes' /\ Calm' /\ List(s)!BestDispatched
  <2>1. Calm
    <3>1. CASE ready_head = Nil
      <4>1. pc[currpid] = "run"
        BY <1>2 DEF List!leave, List!Running
      <4> QED  BY <4>1 DEF Pushing, Out
    <3>2. CASE ready_head # Nil
      <4>1. List(s)!Tears
        BY <1>2, <3>2 DEF List!leave
      <4> QED  BY <4>1, TearsIs
    <3> QED  BY <3>1, <3>2
  <2> QED  BY <1>2, <2>1, LeaveOk
<1>3. CASE List(s)!timer_irq
  <2>1. List(s)!Stay /\ UNCHANGED <<pc, pushed>>
    BY <1>3 DEF List!timer_irq
  <2> QED  BY <1>0, <2>1, StayOk, NotDispatched
<1>4. CASE List(s)!proc_timer_tick
  <2>1. Calm
    BY <1>4, TearsIs DEF List!proc_timer_tick
  <2> QED  BY <1>0, <1>4, <2>1, WakeOk, NotDispatched
<1>5. CASE List(s)!proc_preempt
  <2>0. UNCHANGED <<pc, pushed>>
    BY <1>5 DEF List!proc_preempt
  <2>1. CASE List(s)!Stay
    BY <1>0, <2>0, <2>1, StayOk, NotDispatched
  <2>2. CASE List(s)!Resched /\ List(s)!Tears /\ ready_head # Nil
    BY <2>0, <2>2, TearsIs, SwitchOk
  <2> QED  BY <1>5, <2>1, <2>2 DEF List!proc_preempt
<1>6. CASE List(s)!proc_create
  <2>1. PICK x \in AProc : pushed' = [pushed EXCEPT ![currpid] = x]
    BY <1>6 DEF List!proc_create
  <2>2. pc[currpid] = "run" /\ pc' = [pc EXCEPT ![currpid] = "slot"] /\ List(s)!Stay
    BY <1>6 DEF List!proc_create, List!Running
  <2>3. UNCHANGED <<ready_head, ready_tail, next, where, currpid, queue, scanhung>>
    BY <2>2 DEF List!Stay
  <2>4. Calm
    BY <2>2 DEF Pushing, Out
  <2>5. pc' \in [AProc \cup {Shell} -> PushAt] /\ pushed' \in [AProc \cup {Shell} -> AProc \cup {Nil}]
    BY <1>0, <2>1, <2>2 DEF PushAt
  <2>6. \A c \in AProc \cup {Shell} : pc'[c] = "slot" => pushed'[c] \in AProc
    BY <1>0, <2>1, <2>2
  <2>7. \A c \in AProc \cup {Shell} : Out(c)'
    BY <1>0, <2>2, <2>4 DEF Calm, Out
  <2>8. ListTypes'
    BY <2>3, <2>5, <2>6 DEF ListTypes
  <2>9. Calm'
    BY <2>3, <2>4, <2>7 DEF Calm, Pointers
  <2> QED  BY <1>0, <2>3, <2>8, <2>9, NotDispatched
<1>7. CASE List(s)!proc_create_fill
  <2> DEFINE x == pushed[currpid]
  <2>1. /\ pc[currpid] = "slot" /\ where' = [where EXCEPT ![x] = "listed"] /\ pc' = [pc EXCEPT ![currpid] = "clear"]
        /\ UNCHANGED <<ready_head, ready_tail, next, currpid, pushed, queue, scanhung>>
        /\ torn' = (torn \/ where[x] # "free" \/ \E c \in AProc \cup {Shell} : List(s)!Inside(c))
    BY <1>7 DEF List!proc_create_fill, List!Context
  <2>2. x \in AProc /\ where[x] = "free"
    BY <1>0, <2>1
  <2>3. Calm
    BY <2>1 DEF Pushing, Out
  <2>4. pushed' = [pushed EXCEPT ![currpid] = x]
    BY <1>0, <2>1
  <2> HIDE DEF x
  <2>5. ListTypes' /\ Pushing'
    BY <2>1, <2>2, <2>3, <2>4, StartPush
  <2> QED  BY <1>0, <2>1, <2>5, NotDispatched
<1>8. CASE List(s)!proc_ready
  <2>1. PICK x \in ATwice : /\ where[x] = "asleep" /\ where' = [where EXCEPT ![x] = "listed"]
                            /\ pushed' = [pushed EXCEPT ![currpid] = x]
    <3>1. PICK x \in todo : /\ where' = [where EXCEPT ![x] = "listed"] /\ pushed' = [pushed EXCEPT ![currpid] = x]
                            /\ torn' = (torn \/ where[x] # "asleep" \/ \E c \in AProc \cup {Shell} : List(s)!Inside(c))
        BY <1>8 DEF List!proc_ready, List!Context
    <3> QED  BY <3>1 DEF FlagTypes
  <2>2. /\ pc[currpid] = "run" /\ pc' = [pc EXCEPT ![currpid] = "clear"]
        /\ UNCHANGED <<ready_head, ready_tail, next, currpid, queue, scanhung>>
    BY <1>8 DEF List!proc_ready, List!Running
  <2>3. Calm
    BY <2>2 DEF Pushing, Out
  <2>4. x \in AProc
    <3>1. List("list")!ConstantsOK
        BY SchedulingAssumption
    <3> QED  BY <3>1 DEF List!ConstantsOK
  <2>5. ListTypes' /\ Pushing'
    BY <2>1, <2>2, <2>3, <2>4, StartPush
  <2> QED  BY <1>0, <2>2, <2>5, NotDispatched
<1>9. CASE List(s)!push_clear \/ List(s)!push_tail_first \/ List(s)!push_link
  <2>1. currpid' = currpid /\ pc[currpid] \in {"clear", "tail_first", "link"}
    BY <1>9 DEF List!push_clear, List!push_tail_first, List!push_link
  <2>2. Pushing
    BY <1>0, <2>1 DEF Calm, Out
  <2>3. ListTypes' /\ Pushing'
    BY <1>9, <2>2, StorePush
  <2> QED  BY <1>0, <2>1, <2>3, NotDispatched
<1>10. CASE List(s)!push_head \/ List(s)!push_set_tail
  <2>1. currpid' = currpid /\ pc[currpid] \in {"head", "tail"}
    BY <1>10 DEF List!push_head, List!push_set_tail
  <2>2. Pushing
    BY <1>0, <2>1 DEF Calm, Out
  <2>3. ListTypes' /\ Calm'
    BY <1>10, <2>2, EndPush
  <2> QED  BY <1>0, <2>1, <2>3, NotDispatched
<1> QED  BY <1>0, <1>1, <1>2, <1>3, <1>4, <1>5, <1>6, <1>7, <1>8, <1>9, <1>10 DEF List!Step

\* A list once torn stays so.
LEMMA TornStays ==
    ASSUME NEW s, List(s)!Next, torn
    PROVE  torn'
BY DEF List!Next, List!Step, List!proc_resched, List!leave, List!timer_irq, List!proc_timer_tick,
       List!proc_preempt, List!proc_create, List!proc_create_fill, List!proc_ready, List!push_clear,
       List!push_tail_first, List!push_head, List!push_link, List!push_set_tail, List!Tears, List!Stay

LEMMA ListInvStep ==
    ASSUME NEW s, NEW s2, ListInv, List(s)!Next
    PROVE  ListInv' /\ (~torn' => List(s2)!BestDispatched)
<1>1. FlagTypes'
    BY FlagsStep DEF ListInv
<1>2. ASSUME ~torn' PROVE ListTypes' /\ (Calm' \/ Pushing') /\ List(s)!BestDispatched
  <2>1. ~torn
    BY <1>2, TornStays
  <2> QED  BY <1>2, <2>1, ListStep DEF ListInv
<1>3. ~torn' => List(s2)!BestDispatched
    BY <1>2 DEF List!BestDispatched, List!Listed
<1> QED  BY <1>1, <1>2, <1>3 DEF ListInv

\* A step of another part leaves the list alone.
LEMMA ListStutter ==
    ASSUME ListInv, UNCHANGED listvars
    PROVE  ListInv'
<1>1. FlagTypes' /\ (ListTypes => ListTypes') /\ torn' = torn
    BY DEF ListInv, FlagTypes, ListTypes, listvars
<1>2. Calm => Calm'
    BY DEF Calm, listvars, Pointers, Out
<1>3. Pushing => Pushing'
    BY DEF Pushing, listvars, Out
<1> QED  BY <1>1, <1>2, <1>3 DEF ListInv

\* The invariant of the scenes of the list.
ListsKept ==
    /\ scene \in {"list", "list_polled", "polled", "timer", "boot"}
    /\ scene \in {"list", "list_polled"} => ListInv

\* The invariant holds when a scene begins.
LEMMA ListsStart == Init => ListsKept
<1> SUFFICES ASSUME Init PROVE ListsKept
    OBVIOUS
<1>1. CASE \E s \in {"list", "list_polled"} : scene = s /\ List(s)!Init
    BY <1>1, ListInit DEF ListsKept
<1> QED  BY <1>1 DEF Init, ListsKept

\* Every step keeps it, and one of the list dispatches the best process.
LEMMA ListsStep ==
    ASSUME ListsKept, [Next]_allvars
    PROVE  ListsKept' /\ (ListScene /\ ~torn' /\ ~UNCHANGED allvars => List("list")!BestDispatched)
<1>1. ASSUME NEW s \in {"list", "list_polled"}, InList(s, List(s)!Next)
      PROVE  ListsKept' /\ (~torn' => List("list")!BestDispatched)
  <2>1. scene = s /\ scene' = s /\ List(s)!Next
    BY <1>1 DEF InList
  <2>2. ListInv
    BY <2>1 DEF ListsKept
  <2>3. ListInv' /\ (~torn' => List("list")!BestDispatched)
    BY <2>1, <2>2, ListInvStep
  <2> QED  BY <2>1, <2>3 DEF ListsKept
<1>2. CASE InSched("polled", Polled!Next) \/ InSched("timer", Timer!Next) \/ InBoot(Kernel!BtNext)
  <2>1. scene \in {"polled", "timer", "boot"} /\ scene' = scene
    BY <1>2 DEF InSched, InBoot
  <2> QED  BY <2>1 DEF ListsKept, ListScene
<1>3. CASE UNCHANGED allvars
  <2>1. scene' = scene /\ UNCHANGED listvars
    BY <1>3 DEF allvars
  <2>2. scene \in {"list", "list_polled"} => ListInv'
    BY <2>1, ListStutter DEF ListsKept
  <2> QED  BY <1>3, <2>1, <2>2 DEF ListsKept
<1> QED  BY <1>1, <1>2, <1>3 DEF Next

\* The ready list (proc.c, critical.h), for any processes, priorities, list at boot and
\* processes readied twice, with and without the timer: it is what was pushed and not
\* popped, in push order, and no scan of it hangs, as long as no change of the list has
\* fallen inside a ready_push with IRQs on and only processes out of it were pushed.
THEOREM ListStaysQueue == Spec => []ListKept
<1>1. ListsKept => ListKept
    BY ListSound DEF ListsKept, ListKept, ListScene
<1>2. ListsKept /\ [Next]_allvars => ListsKept'
    BY ListsStep
<1> QED  BY <1>1, <1>2, ListsStart, PTL DEF Spec

\* ready_pop (proc.c) takes the process of highest priority that has waited
\* longest, as long as the list is not torn.
THEOREM ListDispatchesBest == Spec => DispatchesBest
<1>1. ListsKept /\ [Next]_allvars => [ListScene /\ ~torn' => List("list")!BestDispatched]_allvars
    BY ListsStep
<1>2. ListsKept /\ [Next]_allvars => ListsKept'
    BY ListsStep
<1> QED  BY <1>1, <1>2, ListsStart, PTL DEF Spec, DispatchesBest
=============================================================================
