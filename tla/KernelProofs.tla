---------------------------- MODULE KernelProofs ----------------------------
(***************************************************************************)
(* The uniprocessor scheduler (Proc) and the heap (Memory).                *)
(*                                                                         *)
(* The scheduler's safety for any number of processes, any priorities and  *)
(* any uptime, through overflows of the clock and sleeps of the shell.     *)
(*                                                                         *)
(* For every arena and every set of requests: the free list stays sound,   *)
(* the free blocks and the held ones partition the arena, the cached sum   *)
(* is the number of free bytes, and freemem takes back exactly what is     *)
(* held.                                                                   *)
(***************************************************************************)
EXTENDS Proc, Memory, FiniteSetTheorems, WellFoundedInduction, TLAPS

-----------------------------------------------------------------------------
(* The scheduler                                                           *)

Elems(q) == {q[i] : i \in DOMAIN q}
Distinct(q) == \A i, j \in DOMAIN q : q[i] = q[j] => i = j

\* What the scheduler's operations keep true of a process table, a ready list,
\* a running process and the saved stack pointers.
SchedOK(st, q, cur, saved) ==
    /\ st \in [Pid -> PState]
    /\ q \in Seq(Pid)
    /\ cur \in Pid
    /\ saved \in [Pid -> {"none", "saved", "dead"}]
    /\ Elems(q) = {p \in Pid : st[p] = "READY"}
    /\ Distinct(q)
    /\ st[cur] = "CURR"
    /\ \A p \in Pid : st[p] = "CURR" => p = cur \/ p = NULLPROC
    /\ \A p \in Pid : st[p] \in {"READY", "WAIT", "SLEEP"} => saved[p] = "saved"
    /\ cur # NULLPROC => saved[NULLPROC] = "saved"

IInv ==
    /\ TypeOK
    /\ SchedOK(state, ready, currpid, sp)
    /\ NoStaleSwitch

-----------------------------------------------------------------------------
\* NULLPROC is a slot.
LEMMA NullPid == NULLPROC \in Pid
  BY NprocAssumption DEF NULLPROC, Pid

\* Updating one slot of a table keeps the table's type.
LEMMA UpdateFacts ==
    ASSUME NEW T, NEW f \in [Pid -> T], NEW p, NEW v \in T
    PROVE  [f EXCEPT ![p] = v] \in [Pid -> T]
  BY Zenon

\* ready_pop's unlinking removes the process it picked and nothing else.
LEMMA WithoutFacts ==
    ASSUME NEW q \in Seq(Pid), NEW i \in DOMAIN q, Distinct(q)
    PROVE  /\ Without(q, i) \in Seq(Pid)
           /\ Distinct(Without(q, i))
           /\ Elems(Without(q, i)) = Elems(q) \ {q[i]}
  <1> DEFINE w == Without(q, i)
  <1>1. Len(q) \in Nat /\ DOMAIN q = 1 .. Len(q) /\ i \in 1 .. Len(q)
    OBVIOUS
  <1>2. w = [j \in 1 .. Len(q) - 1 |-> IF j < i THEN q[j] ELSE q[j + 1]]
    BY DEF Without
  <1>3. DOMAIN w = 1 .. Len(q) - 1
    BY <1>2
  <1>4. \A j \in 1 .. Len(q) - 1 : w[j] \in Pid
    BY <1>1, <1>2
  <1>5. w \in Seq(Pid)
    <2>1. Len(q) - 1 \in Nat
      BY <1>1
    <2>2. w \in [1 .. Len(q) - 1 -> Pid]
      BY <1>2, <1>4
    <2> QED
      BY <2>1, <2>2
  <1>6. Distinct(w)
    <2> SUFFICES ASSUME NEW j \in 1 .. Len(q) - 1, NEW k \in 1 .. Len(q) - 1,
                        w[j] = w[k]
                 PROVE  j = k
      BY <1>3 DEF Distinct
    <2> DEFINE jj == IF j < i THEN j ELSE j + 1
               kk == IF k < i THEN k ELSE k + 1
    <2>1. jj \in DOMAIN q /\ kk \in DOMAIN q
      BY <1>1
    <2>2. w[j] = q[jj] /\ w[k] = q[kk]
      BY <1>2
    <2>3. jj = kk
      BY Zenon, <2>1, <2>2 DEF Distinct
    <2> QED
      BY <2>3, <1>1
  <1>7. ASSUME NEW x \in Elems(w) PROVE x \in Elems(q) /\ x # q[i]
    <2>1. PICK j \in 1 .. Len(q) - 1 : x = w[j]
      BY <1>3 DEF Elems
    <2> DEFINE jj == IF j < i THEN j ELSE j + 1
    <2>2. jj \in DOMAIN q /\ jj # i /\ w[j] = q[jj]
      BY <1>1, <1>2
    <2> QED
      BY <2>1, <2>2 DEF Elems, Distinct
  <1>8. ASSUME NEW x \in Elems(q), x # q[i] PROVE x \in Elems(w)
    <2>1. PICK j \in DOMAIN q : x = q[j]
      BY DEF Elems
    <2>2. j # i
      BY <2>1, <1>8
    <2> DEFINE jj == IF j < i THEN j ELSE j - 1
    <2>3. jj \in 1 .. Len(q) - 1 /\ w[jj] = q[j]
      BY <1>1, <1>2, <2>1, <2>2
    <2> QED
      BY <2>1, <2>3, <1>3 DEF Elems
  <1> QED
    BY <1>5, <1>6, <1>7, <1>8

\* ready_push of a process that is not queued.
LEMMA AppendFacts ==
    ASSUME NEW q \in Seq(Pid), NEW p \in Pid, Distinct(q), p \notin Elems(q)
    PROVE  /\ Append(q, p) \in Seq(Pid)
           /\ Distinct(Append(q, p))
           /\ Elems(Append(q, p)) = Elems(q) \cup {p}
  <1> DEFINE a == Append(q, p)
  <1>1. a \in Seq(Pid)
    OBVIOUS
  <1>2. /\ Len(q) \in Nat /\ DOMAIN q = 1 .. Len(q)
        /\ DOMAIN a = 1 .. Len(q) + 1
        /\ \A j \in 1 .. Len(q) : a[j] = q[j]
        /\ a[Len(q) + 1] = p
    OBVIOUS
  <1>3. \A j \in DOMAIN q : q[j] # p
    BY DEF Elems
  <1>4. Distinct(a)
    <2> SUFFICES ASSUME NEW j \in DOMAIN a, NEW k \in DOMAIN a, a[j] = a[k]
                 PROVE  j = k
      BY DEF Distinct
    <2>1. CASE j \in DOMAIN q /\ k \in DOMAIN q
      BY <2>1, <1>2 DEF Distinct
    <2>2. CASE j = Len(q) + 1 \/ k = Len(q) + 1
      BY <2>2, <1>2, <1>3
    <2> QED
      BY <2>1, <2>2, <1>2
  <1>5. ASSUME NEW x \in Elems(a) PROVE x \in Elems(q) \cup {p}
    BY <1>2 DEF Elems
  <1>6. ASSUME NEW x \in Elems(q) \cup {p} PROVE x \in Elems(a)
    <2>1. CASE x = p
      BY <2>1, <1>2 DEF Elems
    <2>2. CASE x \in Elems(q)
      <3>1. PICK j \in DOMAIN q : x = q[j]
        BY <2>2 DEF Elems
      <3>2. j \in DOMAIN a /\ a[j] = x
        BY <3>1, <1>2
      <3> QED
        BY <3>2 DEF Elems
    <2> QED
      BY <2>1, <2>2
  <1> QED
    BY <1>1, <1>4, <1>5, <1>6

\* Pushing one list after another when they share no process.
LEMMA ConcatFacts ==
    ASSUME NEW q \in Seq(Pid), NEW r \in Seq(Pid), Distinct(q), Distinct(r),
           Elems(q) \cap Elems(r) = {}
    PROVE  /\ q \o r \in Seq(Pid)
           /\ Distinct(q \o r)
           /\ Elems(q \o r) = Elems(q) \cup Elems(r)
  <1> DEFINE a == q \o r
  <1>1. a \in Seq(Pid)
    OBVIOUS
  <1>2. /\ Len(q) \in Nat /\ DOMAIN q = 1 .. Len(q)
        /\ Len(r) \in Nat /\ DOMAIN r = 1 .. Len(r)
        /\ DOMAIN a = 1 .. Len(q) + Len(r)
        /\ \A j \in 1 .. Len(q) : a[j] = q[j]
        /\ \A j \in 1 .. Len(q) + Len(r) : j > Len(q) => a[j] = r[j - Len(q)]
    OBVIOUS
  <1> HIDE DEF a
  <1>3. \A j \in DOMAIN q, k \in DOMAIN r : q[j] # r[k]
    BY Zenon DEF Elems
  <1>4. Distinct(a)
    <2> SUFFICES ASSUME NEW j \in DOMAIN a, NEW k \in DOMAIN a, a[j] = a[k]
                 PROVE  j = k
      BY DEF Distinct
    <2>1. CASE j <= Len(q) /\ k <= Len(q)
      <3>1. j \in DOMAIN q /\ k \in DOMAIN q /\ a[j] = q[j] /\ a[k] = q[k]
        BY <2>1, <1>2
      <3> QED
        BY Zenon, <3>1 DEF Distinct
    <2>2. CASE j > Len(q) /\ k > Len(q)
      <3>1. /\ j - Len(q) \in DOMAIN r /\ k - Len(q) \in DOMAIN r
            /\ a[j] = r[j - Len(q)] /\ a[k] = r[k - Len(q)]
        BY <2>2, <1>2
      <3>2. j - Len(q) = k - Len(q)
        BY Zenon, <3>1 DEF Distinct
      <3> QED
        BY <3>2, <1>2
    <2>3. CASE j <= Len(q) /\ k > Len(q)
      BY <2>3, <1>2, <1>3
    <2>4. CASE j > Len(q) /\ k <= Len(q)
      BY SMTT(40), <2>4, <1>2, <1>3
    <2> QED
      BY <2>1, <2>2, <2>3, <2>4, <1>2
  <1>5. ASSUME NEW x \in Elems(a) PROVE x \in Elems(q) \cup Elems(r)
    <2>1. PICK j \in DOMAIN a : x = a[j]
      BY DEF Elems
    <2>2. CASE j <= Len(q)
      <3>1. j \in DOMAIN q /\ x = q[j]
        BY <2>1, <2>2, <1>2
      <3> QED
        BY <3>1 DEF Elems
    <2>3. CASE j > Len(q)
      <3>1. j - Len(q) \in DOMAIN r /\ x = r[j - Len(q)]
        BY <2>1, <2>3, <1>2
      <3> QED
        BY <3>1 DEF Elems
    <2> QED
      BY <2>1, <2>2, <2>3, <1>2
  <1>6. ASSUME NEW x \in Elems(q) PROVE x \in Elems(a)
    <2>1. PICK j \in DOMAIN q : x = q[j]
      BY DEF Elems
    <2>2. j \in DOMAIN a /\ a[j] = x
      BY <2>1, <1>2
    <2> QED
      BY <2>2 DEF Elems
  <1>7. ASSUME NEW x \in Elems(r) PROVE x \in Elems(a)
    <2>1. PICK j \in DOMAIN r : x = r[j]
      BY DEF Elems
    <2>2. j + Len(q) \in DOMAIN a /\ a[j + Len(q)] = x
      BY <2>1, <1>2
    <2> QED
      BY <2>2 DEF Elems
  <1> QED
    BY <1>1, <1>4, <1>5, <1>6, <1>7 DEF a

\* The pushes of a loop over a set of processes in pid order.
LEMMA PidOrderFacts ==
    ASSUME NEW S \in SUBSET Pid, NEW n \in Nat, NEW q \in [1 .. n -> S],
           InPidOrder(q, S)
    PROVE  q \in Seq(Pid) /\ Distinct(q) /\ Elems(q) = S
  <1>1. q \in Seq(Pid)
    <2>1. q \in [1 .. n -> Pid]
      OBVIOUS
    <2> QED
      BY <2>1
  <1>2. Distinct(q)
    <2> SUFFICES ASSUME NEW i \in 1 .. n, NEW j \in 1 .. n, q[i] = q[j]
                 PROVE  i = j
      BY DEF Distinct
    <2>0. \A p \in Pid : p \in Int
      BY NprocAssumption DEF Pid
    <2>1. q[i] \in Int /\ q[j] \in Int
      BY <2>0
    <2>2. ~(i < j) /\ ~(j < i)
      BY <2>1 DEF InPidOrder
    <2> QED
      BY <2>2
  <1>3. Elems(q) = S
    BY DEF Elems, InPidOrder
  <1> QED
    BY <1>1, <1>2, <1>3

-----------------------------------------------------------------------------
\* proc_resched keeps the scheduler's state good, whether it is called by a
\* process or at the end of an interrupt.
LEMMA ReschedOK ==
    ASSUME NEW st, NEW q, SchedOK(st, q, currpid, sp), proc_resched(st, q)
    PROVE  SchedOK(state', ready', currpid', sp') /\ stale' = stale
  <1>1. CASE q = <<>> /\ state' = st /\ ready' = q
             /\ UNCHANGED <<sp, currpid, stale>>
    BY <1>1
  <1>2. CASE \E i \in DOMAIN q :
               LET new  == q[i]
                   park == st[currpid] = "CURR" /\ currpid # NULLPROC
               IN  /\ IsBest(q, i)
                   /\ ready' = IF park THEN Append(Without(q, i), currpid)
                                       ELSE Without(q, i)
                   /\ state' = [st EXCEPT ![currpid] = IF park THEN "READY" ELSE @,
                                          ![new] = "CURR"]
                   /\ ctxsw("saved", new)
    <2>1. PICK i \in DOMAIN q :
               LET park == st[currpid] = "CURR" /\ currpid # NULLPROC
               IN  /\ ready' = IF park THEN Append(Without(q, i), currpid)
                                       ELSE Without(q, i)
                   /\ state' = [st EXCEPT ![currpid] = IF park THEN "READY" ELSE @,
                                          ![q[i]] = "CURR"]
                   /\ ctxsw("saved", q[i])
      BY Zenon, <1>2
    <2> DEFINE new == q[i]
               w == Without(q, i)
    <2>2. /\ st \in [Pid -> PState] /\ q \in Seq(Pid) /\ Distinct(q)
          /\ currpid \in Pid /\ sp \in [Pid -> {"none", "saved", "dead"}]
          /\ Elems(q) = {p \in Pid : st[p] = "READY"}
          /\ st[currpid] = "CURR"
      BY DEF SchedOK
    <2>3. new \in Pid /\ st[new] = "READY" /\ new # currpid
      BY <2>2 DEF Elems
    <2>4. /\ w \in Seq(Pid) /\ Distinct(w)
          /\ Elems(w) = {p \in Pid : st[p] = "READY" /\ p # new}
      BY <2>2, WithoutFacts
    <2>5. sp[new] = "saved"
      BY <2>3 DEF SchedOK
    <2>6. /\ currpid' = new
          /\ stale' = stale
          /\ sp' = [sp EXCEPT ![currpid] = "saved", ![new] = "dead"]
      BY Zenon, <2>1, <2>5 DEF ctxsw
    <2> HIDE DEF new, w
    <2>7. CASE currpid # NULLPROC
      <3>1. /\ ready' = Append(w, currpid)
            /\ state' = [st EXCEPT ![currpid] = "READY", ![new] = "CURR"]
        BY <2>1, <2>2, <2>7 DEF new, w
      <3>2. currpid \notin Elems(w)
        BY <2>2, <2>4
      <3>3. /\ ready' \in Seq(Pid) /\ Distinct(ready')
            /\ Elems(ready') = Elems(w) \cup {currpid}
        BY <3>1, <3>2, <2>2, <2>4, AppendFacts
      <3>4. state' \in [Pid -> PState]
        BY Zenon, <3>1, <2>2 DEF PState
      <3>5. \A p \in Pid : state'[p] = IF p = new THEN "CURR"
                                       ELSE IF p = currpid THEN "READY" ELSE st[p]
        BY <3>1, <2>2, <2>3
      <3>6. Elems(ready') = {p \in Pid : state'[p] = "READY"}
        BY <3>3, <3>5, <2>2, <2>3, <2>4
      <3>7. sp' \in [Pid -> {"none", "saved", "dead"}]
            /\ \A p \in Pid : sp'[p] = IF p = new THEN "dead"
                                       ELSE IF p = currpid THEN "saved" ELSE sp[p]
        BY <2>2, <2>3, <2>6
      <3> QED
        BY SMTT(40), <3>3, <3>4, <3>5, <3>6, <3>7, <2>2, <2>3, <2>6, <2>7, NullPid
        DEF SchedOK
    <2>8. CASE currpid = NULLPROC
      <3>1. /\ ready' = w
            /\ state' = [st EXCEPT ![new] = "CURR"]
        BY Zenon, <2>1, <2>2, <2>3, <2>8 DEF new, w
      <3>2. state' \in [Pid -> PState]
        BY Zenon, <3>1, <2>2 DEF PState
      <3>3. \A p \in Pid : state'[p] = IF p = new THEN "CURR" ELSE st[p]
        BY <3>1, <2>2, <2>3
      <3>4. Elems(ready') = {p \in Pid : state'[p] = "READY"}
        BY <3>1, <3>3, <2>3, <2>4
      <3>5. sp' \in [Pid -> {"none", "saved", "dead"}]
            /\ \A p \in Pid : sp'[p] = IF p = new THEN "dead"
                                       ELSE IF p = currpid THEN "saved" ELSE sp[p]
        BY <2>2, <2>3, <2>6
      <3> QED
        BY <3>1, <3>2, <3>3, <3>4, <3>5, <2>2, <2>3, <2>4, <2>6, <2>8, NullPid
        DEF SchedOK
    <2> QED
      BY Zenon, <2>7, <2>8
  <1> QED
    BY Zenon, <1>1, <1>2 DEF proc_resched

\* So does leaving the processor, which loads a dead frame only when the shell
\* leaves it to itself.
LEMMA SwitchAwayOK ==
    ASSUME NEW st \in {"WAIT", "SLEEP", "FREE"}, NEW left \in {"saved", "none"},
           st # "FREE" => left = "saved",
           SchedOK(state, ready, currpid, sp), NoStaleSwitch,
           currpid = NULLPROC => st = "SLEEP", SwitchAway(st, left)
    PROVE  SchedOK(state', ready', currpid', sp') /\ NoStaleSwitch'
  <1>1. /\ state \in [Pid -> PState] /\ ready \in Seq(Pid) /\ Distinct(ready)
        /\ currpid \in Pid /\ sp \in [Pid -> {"none", "saved", "dead"}]
        /\ Elems(ready) = {p \in Pid : state[p] = "READY"}
        /\ state[currpid] = "CURR"
        /\ currpid # NULLPROC => sp[NULLPROC] = "saved"
    BY DEF SchedOK
  <1>2. ASSUME NEW new \in Pid, NEW w \in Seq(Pid), Distinct(w),
               Elems(w) = {p \in Pid : state[p] = "READY" /\ p # new},
               IF new = currpid THEN new = NULLPROC ELSE sp[new] = "saved",
               state' = [state EXCEPT ![currpid] = st, ![new] = "CURR"],
               ready' = w, ctxsw(left, new)
        PROVE  SchedOK(state', ready', currpid', sp') /\ NoStaleSwitch'
    <2>1. /\ currpid' = new
          /\ sp' = [sp EXCEPT ![currpid] = left, ![new] = "dead"]
          /\ stale' = IF sp[new] = "saved" THEN stale ELSE stale \cup {<<currpid, new>>}
      BY Zenon, <1>2 DEF ctxsw
    <2>10. NoStaleSwitch'
      <3>1. CASE sp[new] = "saved"
        BY <2>1, <3>1 DEF NoStaleSwitch
      <3>2. CASE sp[new] # "saved"
        <4>1. stale' = stale \cup {<<NULLPROC, NULLPROC>>}
          BY <1>2, <2>1, <3>2
        <4> QED
          BY <4>1 DEF NoStaleSwitch
      <3> QED
        BY <3>1, <3>2
    <2>2. state' \in [Pid -> PState]
      BY <1>1, <1>2 DEF PState
    <2>3. \A p \in Pid : state'[p] = IF p = new THEN "CURR"
                                     ELSE IF p = currpid THEN st ELSE state[p]
      BY <1>1, <1>2
    <2>4. sp' \in [Pid -> {"none", "saved", "dead"}]
          /\ \A p \in Pid : sp'[p] = IF p = new THEN "dead"
                                     ELSE IF p = currpid THEN left ELSE sp[p]
      BY <1>1, <1>2, <2>1
    <2>5. Elems(ready') = {p \in Pid : state'[p] = "READY"}
      BY <1>1, <1>2, <2>3
    <2>7. currpid' # NULLPROC => sp'[NULLPROC] = "saved"
      BY <2>1, <2>4, <1>1, NullPid
    <2>8. \A p \in Pid : state'[p] = "CURR" => p = currpid' \/ p = NULLPROC
      BY <2>1, <2>3 DEF SchedOK
    <2>9. \A p \in Pid : state'[p] \in {"READY", "WAIT", "SLEEP"} => sp'[p] = "saved"
      BY <2>3, <2>4 DEF SchedOK
    <2> QED
      BY ZenonT(40), <1>2, <2>1, <2>2, <2>3, <2>4, <2>5, <2>7, <2>8, <2>9, <2>10 DEF SchedOK
  <1>3. CASE /\ ready = <<>>
             /\ state' = [state EXCEPT ![currpid] = st, ![NULLPROC] = "CURR"]
             /\ ready' = ready
             /\ ctxsw(left, NULLPROC)
    <2>1. Elems(ready) = {p \in Pid : state[p] = "READY" /\ p # NULLPROC}
      <3>1. Elems(ready) = {}
        BY <1>3 DEF Elems
      <3> QED
        BY <1>1, <3>1
    <2> QED
      BY Zenon, <1>1, <1>2, <1>3, <2>1, NullPid
  <1>4. CASE \E i \in DOMAIN ready :
               /\ IsBest(ready, i)
               /\ state' = [state EXCEPT ![currpid] = st, ![ready[i]] = "CURR"]
               /\ ready' = Without(ready, i)
               /\ ctxsw(left, ready[i])
    <2>1. PICK i \in DOMAIN ready :
               /\ state' = [state EXCEPT ![currpid] = st, ![ready[i]] = "CURR"]
               /\ ready' = Without(ready, i)
               /\ ctxsw(left, ready[i])
      BY Zenon, <1>4
    <2>2. ready[i] \in Pid /\ state[ready[i]] = "READY" /\ ready[i] # currpid
      BY <1>1 DEF Elems
    <2>3. sp[ready[i]] = "saved"
      BY <2>2 DEF SchedOK
    <2>4. /\ Without(ready, i) \in Seq(Pid) /\ Distinct(Without(ready, i))
          /\ Elems(Without(ready, i)) =
               {p \in Pid : state[p] = "READY" /\ p # ready[i]}
      BY <1>1, WithoutFacts
    <2> QED
      BY Zenon, <2>1, <2>2, <2>3, <2>4, <1>2
  <1> QED
    BY Zenon, <1>3, <1>4 DEF SwitchAway

-----------------------------------------------------------------------------
\* The variables outside the scheduler's tables.
DataOK ==
    /\ prio \in [Pid -> Int]
    /\ wake_at \in [Pid -> Nat]
    /\ deadline \in [Pid -> Nat]
    /\ preempt_on \in BOOLEAN
    /\ resched_pending \in BOOLEAN
    /\ clock \in 0 .. MaxTime

\* The parts of the invariant.
LEMMA IInvParts ==
    IInv <=> DataOK /\ SchedOK(state, ready, currpid, sp) /\ NoStaleSwitch
  <1>1. NoStaleSwitch => stale \subseteq Pid \X Pid
    BY NullPid DEF NoStaleSwitch
  <1> QED
    BY Zenon, <1>1 DEF IInv, TypeOK, DataOK, SchedOK

LEMMA IInvPartsNext ==
    ASSUME DataOK', SchedOK(state', ready', currpid', sp'), NoStaleSwitch'
    PROVE  IInv'
  <1>1. stale' \subseteq Pid \X Pid
    BY NullPid DEF NoStaleSwitch
  <1> QED
    BY Zenon, <1>1 DEF IInv, TypeOK, DataOK, SchedOK

\* What an interrupt handler pushes before proc_preempt runs: processes that
\* were asleep or waiting, hence not queued.
LEMMA PushOK ==
    ASSUME SchedOK(state, ready, currpid, sp),
           NEW S \in SUBSET Pid, NEW n \in Nat, NEW q \in [1 .. n -> S],
           InPidOrder(q, S),
           NEW st, NEW r, SchedOK(st, r, currpid, sp),
           \A p \in S : st[p] \in {"WAIT", "SLEEP"}
    PROVE  SchedOK([p \in Pid |-> IF p \in S THEN "READY" ELSE st[p]],
                   r \o q, currpid, sp)
  <1> DEFINE st1 == [p \in Pid |-> IF p \in S THEN "READY" ELSE st[p]]
  <1>1. /\ st \in [Pid -> PState] /\ r \in Seq(Pid) /\ Distinct(r)
        /\ currpid \in Pid /\ sp \in [Pid -> {"none", "saved", "dead"}]
        /\ Elems(r) = {p \in Pid : st[p] = "READY"}
        /\ st[currpid] = "CURR"
    BY DEF SchedOK
  <1>2. q \in Seq(Pid) /\ Distinct(q) /\ Elems(q) = S
    BY PidOrderFacts
  <1>3. Elems(r) \cap Elems(q) = {}
    BY <1>1, <1>2
  <1>4. /\ r \o q \in Seq(Pid) /\ Distinct(r \o q)
        /\ Elems(r \o q) = Elems(r) \cup S
    BY <1>1, <1>2, <1>3, ConcatFacts
  <1>5. st1 \in [Pid -> PState]
    BY <1>1 DEF PState
  <1>6. \A p \in Pid : st1[p] = IF p \in S THEN "READY" ELSE st[p]
    OBVIOUS
  <1>7. currpid \notin S
    BY <1>1
  <1> HIDE DEF st1
  <1>8. Elems(r \o q) = {p \in Pid : st1[p] = "READY"}
    BY <1>1, <1>4, <1>6
  <1>9. \A p \in Pid : st1[p] \in {"READY", "WAIT", "SLEEP"} => sp[p] = "saved"
    BY <1>6 DEF SchedOK
  <1>10. \A p \in Pid : st1[p] = "CURR" => p = currpid \/ p = NULLPROC
    BY <1>6 DEF SchedOK
  <1>11. SchedOK(st1, r \o q, currpid, sp)
    BY <1>1, <1>4, <1>5, <1>6, <1>7, <1>8, <1>9, <1>10, NullPid DEF SchedOK
  <1> QED
    BY <1>11 DEF st1

\* proc_preempt at the end of an interrupt.
LEMMA PreemptOK ==
    ASSUME NEW st, NEW q, NEW pending \in BOOLEAN,
           SchedOK(st, q, currpid, sp),
           proc_preempt(st, q, pending)
    PROVE  /\ SchedOK(state', ready', currpid', sp') /\ stale' = stale
           /\ resched_pending' \in BOOLEAN
  <1>1. CASE state' = st /\ ready' = q /\ UNCHANGED <<sp, currpid, stale>>
             /\ resched_pending' \in BOOLEAN
    BY <1>1
  <1>2. CASE proc_resched(st, q) /\ resched_pending' = FALSE
    BY Zenon, <1>2, ReschedOK
  <1> QED
    BY Zenon, <1>1, <1>2 DEF proc_preempt

\* proc_init and the boot processes.
LEMMA InitIInv == Init => IInv
  <1> SUFFICES ASSUME Init PROVE IInv
    OBVIOUS
  <1>1. DataOK
    <2>1. prio \in [Pid -> Int] /\ wake_at \in [Pid -> Nat] /\ deadline \in [Pid -> Nat]
      BY DEF Init
    <2>2. preempt_on \in BOOLEAN /\ resched_pending \in BOOLEAN
      BY Zenon DEF Init
    <2>3. clock \in 0 .. MaxTime
      BY DataAssumption DEF Init
    <2> QED
      BY <2>1, <2>2, <2>3 DEF DataOK
  <1>2. ready \in Seq(Pid) /\ Distinct(ready) /\ Elems(ready) = Boot
    <2>1. Boot \in SUBSET Pid
      BY RolesAssumption
    <2>2. IsFiniteSet(Boot) /\ Cardinality(Boot) \in Nat
      <3>1. IsFiniteSet(Pid)
        BY NprocAssumption, FS_Interval DEF Pid
      <3> QED
        BY <2>1, <3>1, FS_Subset, FS_CardinalityType
    <2> QED
      BY Zenon, <2>1, <2>2, PidOrderFacts DEF Init
  <1>3. SchedOK(state, ready, currpid, sp)
    BY <1>2, RolesAssumption, NullPid DEF Init, SchedOK, PState
  <1> QED
    BY <1>1, <1>3, IInvParts DEF Init, NoStaleSwitch

\* Every operation and every interrupt preserves the invariant.
LEMMA NextIInv ==
    ASSUME IInv, [Next]_vars
    PROVE  IInv'
  <1>0. DataOK /\ SchedOK(state, ready, currpid, sp) /\ NoStaleSwitch
    BY IInvParts
  <1>s. stale' = stale => NoStaleSwitch'
    BY <1>0 DEF NoStaleSwitch
  <1>1. CASE proc_create
    <2>1. PICK p \in FreeSlots :
               /\ state' = [state EXCEPT ![p] = "READY"]
               /\ prio' = [prio EXCEPT ![p] = 1]
               /\ sp' = [sp EXCEPT ![p] = "saved"]
               /\ ready' = Append(ready, p)
      BY Zenon, <1>1 DEF proc_create
    <2>2. UNCHANGED <<wake_at, deadline, currpid, preempt_on, resched_pending,
                      clock, stale>>
      BY <1>1 DEF proc_create
    <2>3. p \in Pid /\ p # NULLPROC /\ state[p] = "FREE"
      BY <2>1 DEF FreeSlots
    <2>4. p \notin Elems(ready)
      BY <2>3, <1>0 DEF SchedOK
    <2>5. /\ ready' \in Seq(Pid) /\ Distinct(ready')
          /\ Elems(ready') = Elems(ready) \cup {p}
      BY <2>1, <2>3, <2>4, <1>0, AppendFacts DEF SchedOK
    <2>6. SchedOK(state', ready', currpid', sp')
      BY <2>1, <2>2, <2>3, <2>5, <1>0 DEF SchedOK, PState
    <2>7. DataOK'
      <3>1. prio \in [Pid -> Int] /\ prio' = [prio EXCEPT ![p] = 1] /\ 1 \in Int
        BY <2>1, <1>0 DEF DataOK
      <3>2. prio' \in [Pid -> Int]
        BY <3>1, UpdateFacts, Zenon
      <3> QED
        BY <3>2, <2>2, <1>0 DEF DataOK
    <2> QED
      BY Zenon, <2>2, <2>6, <2>7, <1>s, IInvPartsNext
  <1>2. CASE proc_setprio
    <2>1. prio' \in [Pid -> Int]
      BY <1>0, <1>2, DataAssumption DEF proc_setprio, DataOK
    <2>2. UNCHANGED <<wake_at, deadline, preempt_on, resched_pending, clock>>
      BY <1>2 DEF proc_setprio
    <2>3. DataOK'
      BY <1>0, <2>1, <2>2 DEF DataOK
    <2> QED
      BY Zenon, <1>0, <1>s, <1>2, <2>3, IInvPartsNext DEF proc_setprio, schedVars
  <1>3. CASE proc_yield
    <2>1. DataOK'
      BY <1>0, <1>3 DEF proc_yield, DataOK
    <2>2. proc_resched(state, ready)
      BY <1>3 DEF proc_yield
    <2> QED
      BY Zenon, <1>0, <1>s, <2>1, <2>2, ReschedOK, IInvPartsNext
  <1>4. CASE proc_block
    <2>1. DataOK'
      BY <1>0, <1>4 DEF proc_block, DataOK
    <2>2. SwitchAway("WAIT", "saved") /\ currpid # NULLPROC
      BY <1>4, RolesAssumption DEF proc_block
    <2> QED
      BY Zenon, <1>0, <2>1, <2>2, SwitchAwayOK, IInvPartsNext
  <1>5. CASE proc_sleep_us
    <2>1. PICK us \in Delays :
               /\ wake_at' = [wake_at EXCEPT ![currpid] = proc_now_us + us]
               /\ deadline' = [deadline EXCEPT ![currpid] = clock + us]
      BY Zenon, <1>5 DEF proc_sleep_us
    <2>2. us \in Nat /\ clock \in Nat /\ proc_now_us \in Nat
      BY <1>0, DataAssumption DEF DataOK, proc_now_us
    <2>3. DataOK'
      <3>1. wake_at' \in [Pid -> Nat] /\ deadline' \in [Pid -> Nat]
        <4>1. wake_at \in [Pid -> Nat] /\ deadline \in [Pid -> Nat]
          BY <1>0 DEF DataOK
        <4>2. proc_now_us + us \in Nat /\ clock + us \in Nat
          BY <2>2
        <4> QED
          BY <2>1, <4>1, <4>2, UpdateFacts, Zenon
      <3>2. UNCHANGED <<prio, preempt_on, resched_pending, clock>>
        BY <1>5 DEF proc_sleep_us
      <3> QED
        BY <1>0, <3>1, <3>2 DEF DataOK
    <2>4. SwitchAway("SLEEP", "saved")
      BY <1>5 DEF proc_sleep_us
    <2> QED
      BY Zenon, <1>0, <2>3, <2>4, SwitchAwayOK, IInvPartsNext
  <1>6. CASE proc_exit
    <2>1. DataOK'
      BY <1>0, <1>6 DEF proc_exit, DataOK
    <2>2. SwitchAway("FREE", "none") /\ currpid # NULLPROC
      BY <1>6 DEF proc_exit
    <2> QED
      BY Zenon, <1>0, <2>1, <2>2, SwitchAwayOK, IInvPartsNext
  <1>7. CASE proc_set_preempt
    <2>1. DataOK'
      BY <1>0, <1>7 DEF proc_set_preempt, DataOK
    <2> QED
      BY Zenon, <1>0, <1>s, <1>7, <2>1, IInvPartsNext DEF proc_set_preempt, schedVars
  <1>8. CASE timer_irq
    <2> DEFINE woken == [p \in Pid |-> IF p \in Due \cup NetWoken THEN "READY"
                                                                ELSE state[p]]
    <2>1. PICK due \in [1 .. Cardinality(Due) -> Due],
               net \in [1 .. Cardinality(NetWoken) -> NetWoken] :
               /\ InPidOrder(due, Due)
               /\ InPidOrder(net, NetWoken)
               /\ proc_preempt(woken, ready \o due \o net, TRUE)
      BY Zenon, <1>8 DEF timer_irq
    <2>2. Due \in SUBSET Pid /\ NetWoken \in SUBSET Pid
      BY RolesAssumption DEF Due, NetWoken
    <2>3. Cardinality(Due) \in Nat /\ Cardinality(NetWoken) \in Nat
      <3>1. IsFiniteSet(Pid)
        BY NprocAssumption, FS_Interval DEF Pid
      <3> QED
        BY <2>2, <3>1, FS_Subset, FS_CardinalityType
    <2> DEFINE st1 == [p \in Pid |-> IF p \in Due THEN "READY" ELSE state[p]]
               st2 == [p \in Pid |-> IF p \in NetWoken THEN "READY" ELSE st1[p]]
    <2>4. SchedOK(st1, ready \o due, currpid, sp)
      <3>1. \A p \in Due : state[p] \in {"WAIT", "SLEEP"}
        BY DEF Due
      <3> QED
        BY Zenon, <1>0, <2>1, <2>2, <2>3, <3>1, PushOK
    <2>5. SchedOK(st2, (ready \o due) \o net, currpid, sp)
      <3>1. \A p \in NetWoken : st1[p] \in {"WAIT", "SLEEP"}
        BY <2>2 DEF Due, NetWoken
      <3> HIDE DEF st1
      <3> QED
        BY Zenon, <1>0, <2>1, <2>2, <2>3, <2>4, <3>1, PushOK
    <2>6. st2 = woken
      OBVIOUS
    <2> HIDE DEF woken, st1, st2
    <2>7. SchedOK(woken, ready \o due \o net, currpid, sp)
      BY <2>5, <2>6
    <2>8. /\ SchedOK(state', ready', currpid', sp') /\ stale' = stale
          /\ resched_pending' \in BOOLEAN
      BY Zenon, <1>0, <2>1, <2>7, PreemptOK
    <2>9. DataOK'
      BY <1>0, <1>8, <2>8 DEF timer_irq, DataOK
    <2> QED
      BY Zenon, <2>8, <2>9, <1>s, IInvPartsNext
  <1>9. CASE other_irq
    <2>1. proc_preempt(state, ready, resched_pending) /\ resched_pending \in BOOLEAN
      BY Zenon, <1>0, <1>9 DEF other_irq, DataOK
    <2>2. /\ SchedOK(state', ready', currpid', sp') /\ stale' = stale
          /\ resched_pending' \in BOOLEAN
      BY Zenon, <1>0, <2>1, PreemptOK
    <2>3. DataOK'
      BY <1>0, <1>9, <2>2 DEF other_irq, DataOK
    <2> QED
      BY Zenon, <2>2, <2>3, <1>s, IInvPartsNext
  <1>10. CASE Tick
    <2>1. DataOK'
      BY <1>0, <1>10, DataAssumption DEF Tick, DataOK
    <2> QED
      BY Zenon, <1>0, <1>s, <1>10, <2>1, IInvPartsNext DEF Tick, schedVars
  <1>11. CASE UNCHANGED vars
    <2>1. DataOK'
      BY <1>0, <1>11 DEF vars, DataOK
    <2> QED
      BY Zenon, <1>0, <1>s, <1>11, <2>1, IInvPartsNext DEF vars
  <1> QED
    BY <1>1, <1>2, <1>3, <1>4, <1>5, <1>6, <1>7, <1>8, <1>9, <1>10, <1>11 DEF Next

\* The invariant holds.
THEOREM ProcInvariant == Spec => []IInv
  <1>1. IInv /\ [Next]_vars => IInv'
    BY NextIInv
  <1> QED
    BY <1>1, InitIInv, PTL DEF Spec

\* The type invariant.
THEOREM ProcTypes == Spec => []TypeOK
  <1>1. IInv => TypeOK
    BY DEF IInv
  <1> QED
    BY <1>1, ProcInvariant, PTL

\* No process is lost from the ready list or queued twice, by any sequence of
\* calls, ticks and preemptions.
THEOREM ProcReadyExact == Spec => []ReadyExact
  <1>1. IInv => ReadyExact
    <2> SUFFICES ASSUME IInv PROVE ReadyExact
      OBVIOUS
    <2>1. Elems(ready) = {p \in Pid : state[p] = "READY"} /\ Distinct(ready)
      BY DEF IInv, SchedOK
    <2>2. \A p \in Pid : p \in Elems(ready) <=> \E i \in DOMAIN ready : ready[i] = p
      BY DEF Elems
    <2> QED
      BY <2>1, <2>2 DEF ReadyExact, Distinct
  <1> QED
    BY <1>1, ProcInvariant, PTL

\* One process runs at a time.
THEOREM ProcOneRunner == Spec => []OneRunner
  <1>1. IInv => OneRunner
    BY DEF IInv, SchedOK, OneRunner
  <1> QED
    BY <1>1, ProcInvariant, PTL

\* ctxsw never resumes a dead frame, but for the shell that switches to itself.
THEOREM ProcNoStaleSwitch == Spec => []NoStaleSwitch
  <1>1. IInv => NoStaleSwitch
    BY DEF IInv
  <1> QED
    BY <1>1, ProcInvariant, PTL

\* After the interrupt no sleeper that was due is asleep.
LEMMA DueAreWoken ==
    ASSUME IInv, timer_irq, NEW p \in Due
    PROVE  state'[p] # "SLEEP"
  <1> DEFINE woken == [x \in Pid |-> IF x \in Due \cup NetWoken THEN "READY" ELSE state[x]]
  <1>1. PICK q : proc_preempt(woken, q, TRUE)
    BY Zenon DEF timer_irq
  <1>2. p \in Pid /\ woken[p] = "READY"
    BY DEF Due
  <1>3. woken = [x \in Pid |-> woken[x]]
    OBVIOUS
  <1> HIDE DEF woken
  <1>4. CASE state' = woken
    BY <1>2, <1>4
  <1>5. CASE proc_resched(woken, q)
    <2>1. CASE state' = woken
      BY <1>2, <2>1
    <2>2. CASE \E new, to : state' = [woken EXCEPT ![currpid] = to, ![new] = "CURR"]
                            /\ to \in {"READY", woken[currpid]}
      BY <1>2, <1>3, <2>2
    <2> QED
      BY <1>5, <2>1, <2>2 DEF proc_resched
  <1> QED
    BY <1>1, <1>4, <1>5 DEF proc_preempt

\* The comment of proc_timer_tick (proc.c): a tick readies every sleeper whose time has
\* come, for any number of processes, delays, ticks and overflows of the uptime, unless
\* the overflow came while it slept.
THEOREM ProcTickWakesAll == Spec => TickWakesAll
  <1>1. IInv =>
           (timer_irq => \A p \in Pid : state[p] = "SLEEP" /\ deadline[p] <= clock /\ ~WrappedSince(p)
                                            => state'[p] # "SLEEP")
    <2> SUFFICES ASSUME IInv, timer_irq, NEW p \in Pid, state[p] = "SLEEP", deadline[p] <= clock,
                        ~WrappedSince(p)
                 PROVE  state'[p] # "SLEEP"
      OBVIOUS
    <2>1. /\ wake_at[p] \in Nat /\ deadline[p] \in Nat /\ clock \in Nat
          /\ Wrap \in Nat \ {0}
      BY DataAssumption DEF IInv, TypeOK
    <2>2. proc_now_us \in Nat
      BY <2>1 DEF proc_now_us
    <2>3. proc_now_us >= wake_at[p]
      BY <2>1, <2>2 DEF WrappedSince
    <2>4. p \in Due
      BY Zenon, <2>3 DEF Due
    <2> QED
      BY Zenon, <2>4, DueAreWoken
  <1> QED
    BY <1>1, ProcInvariant, PTL DEF Spec, TickWakesAll

-----------------------------------------------------------------------------
(* The heap                                                                *)

USE AlignAssumption, ArenaAssumption, RequestAssumption

-----------------------------------------------------------------------------
(* Arithmetic of multiples of MEM_ALIGN.                                   *)

\* A multiple of MEM_ALIGN is aligned, as ROUNDMB and TRUNCMB produce them.
LEMMA MultIsAligned ==
    ASSUME NEW k \in Nat
    PROVE  Aligned(k * MEM_ALIGN) /\ k * MEM_ALIGN \in Nat
BY DEF Aligned

\* An aligned address is a multiple of MEM_ALIGN.
LEMMA AlignedIsMult ==
    ASSUME NEW x \in Nat, Aligned(x)
    PROVE  \E k \in Nat : x = k * MEM_ALIGN
<1>1. x \div MEM_ALIGN \in Nat /\ x = (x \div MEM_ALIGN) * MEM_ALIGN + (x % MEM_ALIGN)
  OBVIOUS
<1> QED  BY <1>1 DEF Aligned

\* Splitting and merging keep blocks aligned.
LEMMA AlignedSum ==
    ASSUME NEW x \in Nat, NEW y \in Nat, Aligned(x), Aligned(y)
    PROVE  /\ Aligned(x + y)
           /\ x >= y => Aligned(x - y)
<1>1. PICK k \in Nat : x = k * MEM_ALIGN  BY AlignedIsMult
<1>2. PICK l \in Nat : y = l * MEM_ALIGN  BY AlignedIsMult
<1>3. Aligned(x + y)
  <2>1. x + y = (k + l) * MEM_ALIGN /\ k + l \in Nat  BY <1>1, <1>2
  <2>2. Aligned((k + l) * MEM_ALIGN)  BY Zenon, <2>1, MultIsAligned
  <2> QED  BY <2>1, <2>2
<1>4. ASSUME x >= y  PROVE Aligned(x - y)
  <2>1. k >= l
    <3>1. ASSUME k < l  PROVE FALSE
      <4>1. l * MEM_ALIGN >= (k + 1) * MEM_ALIGN  BY <3>1
      <4> QED  BY <4>1, <1>1, <1>2, <1>4
    <3> QED  BY <3>1
  <2>2. x - y = (k - l) * MEM_ALIGN /\ k - l \in Nat  BY <1>1, <1>2, <2>1
  <2>3. Aligned((k - l) * MEM_ALIGN)  BY <2>2, MultIsAligned
  <2> QED  BY <2>2, <2>3
<1> QED  BY <1>3, <1>4

\* Two aligned addresses are a whole granule apart: what getmem leaves of a
\* block is nothing or can hold a header.
LEMMA AlignedGap ==
    ASSUME NEW x \in Nat, NEW y \in Nat, Aligned(x), Aligned(y), x < y
    PROVE  x + MEM_ALIGN <= y
<1>1. PICK k \in Nat : x = k * MEM_ALIGN  BY AlignedIsMult
<1>2. PICK l \in Nat : y = l * MEM_ALIGN  BY AlignedIsMult
<1>3. k < l
  <2>1. ASSUME l <= k  PROVE FALSE
    <3>1. k * MEM_ALIGN >= l * MEM_ALIGN  BY <2>1
    <3> QED  BY <3>1, <1>1, <1>2
  <2> QED  BY <2>1
<1>4. (k + 1) * MEM_ALIGN <= l * MEM_ALIGN  BY <1>3
<1> QED  BY <1>1, <1>2, <1>4

\* ROUNDMB rounds a request up to at least one granule.
LEMMA RoundUp ==
    ASSUME NEW x \in Nat
    PROVE  /\ ROUNDMB(x) \in Nat /\ Aligned(ROUNDMB(x))
           /\ ROUNDMB(x) >= x /\ ROUNDMB(x) < x + MEM_ALIGN
<1> DEFINE q == (x + (MEM_ALIGN - 1)) \div MEM_ALIGN
<1>1. q \in Nat /\ x + (MEM_ALIGN - 1) = q * MEM_ALIGN + ((x + (MEM_ALIGN - 1)) % MEM_ALIGN)
      /\ (x + (MEM_ALIGN - 1)) % MEM_ALIGN \in 0 .. MEM_ALIGN - 1
  OBVIOUS
<1>2. ROUNDMB(x) = q * MEM_ALIGN  BY DEF ROUNDMB
<1> HIDE DEF q
<1>3. q * MEM_ALIGN \in Nat /\ Aligned(q * MEM_ALIGN)  BY <1>1, MultIsAligned
<1>4. q * MEM_ALIGN >= x /\ q * MEM_ALIGN < x + MEM_ALIGN  BY <1>1, <1>3
<1> QED  BY <1>2, <1>3, <1>4

\* mem_init's arena is aligned and has room for a block.
LEMMA Arena ==
    /\ heap_lo \in Nat \ {0} /\ heap_hi \in Nat /\ heap_lo < heap_hi
    /\ Aligned(heap_lo) /\ Aligned(heap_hi)
<1> DEFINE q == HeapEnd \div MEM_ALIGN
<1>1. q \in Nat /\ HeapEnd = q * MEM_ALIGN + (HeapEnd % MEM_ALIGN)
      /\ HeapEnd % MEM_ALIGN \in 0 .. MEM_ALIGN - 1
  OBVIOUS
<1>2. heap_hi = q * MEM_ALIGN  BY DEF heap_hi, TRUNCMB
<1> HIDE DEF q
<1>5. q * MEM_ALIGN \in Nat /\ Aligned(q * MEM_ALIGN)  BY <1>1, MultIsAligned
<1>6. q * MEM_ALIGN > HeapEnd - MEM_ALIGN  BY <1>1, <1>5
<1>3. heap_hi \in Nat /\ Aligned(heap_hi) /\ heap_hi > HeapEnd - MEM_ALIGN
  BY <1>2, <1>5, <1>6
<1>4. /\ heap_lo \in Nat /\ Aligned(heap_lo)
      /\ heap_lo >= HeapStart /\ heap_lo < HeapStart + MEM_ALIGN
  BY RoundUp DEF heap_lo
<1> QED  BY <1>3, <1>4

\* Every nonempty set of naturals has a least element.
LEMMA Least ==
    ASSUME NEW T, T \subseteq Nat, T # {}
    PROVE  \E x \in T : \A y \in T : x <= y
<1> DEFINE R == OpToRel(<, Nat)
<1>1. IsWellFoundedOn(R, Nat)  BY Zenon, NatLessThanWellFounded
<1>2. \A x, y \in Nat : x < y => <<x, y>> \in R  BY DEF OpToRel
<1> HIDE DEF R
<1>3. PICK x \in T : \A y \in T : ~ (<<y, x>> \in R)  BY Zenon, <1>1, WFMin
<1>4. \A y \in T : x <= y
  <2> SUFFICES ASSUME NEW y \in T  PROVE x <= y  OBVIOUS
  <2>1. x \in Nat /\ y \in Nat /\ ~ (y < x)  BY Zenon, <1>2, <1>3
  <2> QED  BY <2>1
<1> QED  BY <1>4

-----------------------------------------------------------------------------
(* The list operations.                                                    *)

\* What unlinking the i-th block leaves.
LEMMA WithoutBlocks ==
    ASSUME NEW q \in Seq(Block), NEW i \in DOMAIN q
    PROVE  /\ Unlinked(q, i) \in Seq(Block)
           /\ DOMAIN Unlinked(q, i) = 1 .. Len(q) - 1
           /\ Len(Unlinked(q, i)) = Len(q) - 1
           /\ \A j \in 1 .. Len(q) - 1 :
                 Unlinked(q, i)[j] = IF j < i THEN q[j] ELSE q[j + 1]
<1>1. Len(q) \in Nat /\ DOMAIN q = 1 .. Len(q) /\ \A j \in 1 .. Len(q) : q[j] \in Block
  OBVIOUS
<1>2. Unlinked(q, i) \in [1 .. Len(q) - 1 -> Block] /\ Len(q) - 1 \in Nat  BY <1>1 DEF Unlinked
<1>3. \A n \in Nat : \A w \in [1 .. n -> Block] : w \in Seq(Block) /\ Len(w) = n  OBVIOUS
<1>4. Unlinked(q, i) \in Seq(Block) /\ Len(Unlinked(q, i)) = Len(q) - 1  BY <1>2, <1>3
<1> QED  BY <1>1, <1>2, <1>4 DEF Unlinked

\* What linking b in behind the i-th block gives.
LEMMA InsertBlocks ==
    ASSUME NEW q \in Seq(Block), NEW i \in 0 .. Len(q), NEW b \in Block
    PROVE  /\ Insert(q, i, b) \in Seq(Block)
           /\ DOMAIN Insert(q, i, b) = 1 .. Len(q) + 1
           /\ \A j \in 1 .. Len(q) + 1 :
                 Insert(q, i, b)[j] = IF j <= i THEN q[j]
                                      ELSE IF j = i + 1 THEN b ELSE q[j - 1]
<1>1. Len(q) \in Nat /\ DOMAIN q = 1 .. Len(q) /\ \A j \in 1 .. Len(q) : q[j] \in Block
  OBVIOUS
<1>2. Insert(q, i, b) \in [1 .. Len(q) + 1 -> Block] /\ Len(q) + 1 \in Nat  BY <1>1 DEF Insert
<1>3. Insert(q, i, b) \in Seq(Block)  BY <1>2
<1> QED  BY <1>1, <1>2, <1>3 DEF Insert

\* What writing one block of the list gives.
LEMMA WriteBlock ==
    ASSUME NEW q \in Seq(Block), NEW i \in DOMAIN q, NEW b \in Block
    PROVE  /\ [q EXCEPT ![i] = b] \in Seq(Block)
           /\ DOMAIN [q EXCEPT ![i] = b] = DOMAIN q
           /\ \A j \in DOMAIN q : [q EXCEPT ![i] = b][j] = IF j = i THEN b ELSE q[j]
OBVIOUS

-----------------------------------------------------------------------------
(* The inductive invariant: Partition said with the ends of the blocks     *)
(* rather than their bytes, and the alignment the code never checks.       *)

\* The address behind a held block.
Until(b) == b.addr + ROUNDMB(b.bytes)

HeldInArena ==
    \A b \in live : Aligned(b.addr) /\ heap_lo <= b.addr /\ Until(b) <= heap_hi
HeldApart ==
    \A b, c \in live : b # c => Until(b) <= c.addr \/ Until(c) <= b.addr
HeldNotFree ==
    \A b \in live, i \in DOMAIN free : Until(b) <= free[i].addr \/ End(free[i]) <= b.addr
NoneLost ==
    \A x \in heap_lo .. heap_hi - 1 :
        \/ \E i \in DOMAIN free : free[i].addr <= x /\ x < End(free[i])
        \/ \E b \in live : b.addr <= x /\ x < Until(b)

Inv ==
    /\ MemTypes
    /\ ListSound
    /\ HeldInArena
    /\ HeldApart
    /\ HeldNotFree
    /\ NoneLost

\* What the types say of the blocks.
LEMMA Types ==
    ASSUME MemTypes
    PROVE  /\ Len(free) \in Nat /\ DOMAIN free = 1 .. Len(free)
           /\ \A i \in DOMAIN free : /\ free[i] \in Block
                                     /\ free[i].addr \in Nat /\ free[i].len \in Nat
                                     /\ End(free[i]) = free[i].addr + free[i].len
           /\ \A b \in live : /\ b.addr \in Nat /\ b.bytes \in Nat \ {0}
                              /\ ROUNDMB(b.bytes) \in Nat \ {0}
                              /\ Until(b) = b.addr + ROUNDMB(b.bytes)
<1>1. \A i \in DOMAIN free : free[i] \in Block  BY DEF MemTypes
<1>2. \A b \in live : b.addr \in Nat /\ b.bytes \in Nat \ {0}  BY DEF MemTypes
<1>3. \A b \in live : ROUNDMB(b.bytes) \in Nat \ {0}  BY <1>2, RoundUp
<1> QED  BY <1>1, <1>2, <1>3 DEF MemTypes, Block, End, Until

\* Two blocks of a sound list lie apart.
LEMMA Separate ==
    ASSUME MemTypes, ListSound, NEW i \in DOMAIN free, NEW k \in DOMAIN free, k # i
    PROVE  End(free[k]) < free[i].addr \/ End(free[i]) < free[k].addr
<1>1. i \in Nat /\ k \in Nat  BY Types
<1>2. CASE k < i  BY <1>2 DEF ListSound
<1>3. CASE i < k  BY <1>3 DEF ListSound
<1> QED  BY <1>1, <1>2, <1>3

\* mem_init's single block is the whole arena.
LEMMA InitInv == mem_init => Inv
<1> SUFFICES ASSUME mem_init  PROVE Inv  OBVIOUS
<1> DEFINE b == [addr |-> heap_lo, len |-> heap_hi - heap_lo]
<1>1. b \in Block /\ free = <<b>> /\ live = {}  BY Arena DEF mem_init, Block
<1>2. DOMAIN free = {1} /\ free[1] = b /\ free \in Seq(Block)  BY <1>1
<1>3. End(free[1]) = heap_hi  BY <1>2, Arena DEF End
<1>4. MemTypes  BY <1>1, <1>2, Arena DEF MemTypes, mem_init
<1>5. Aligned(heap_hi - heap_lo) /\ heap_hi - heap_lo >= Header
  <2>1. heap_lo + MEM_ALIGN <= heap_hi  BY Arena, AlignedGap
  <2> QED  BY <2>1, Arena, AlignedSum
<1>6. ListSound  BY <1>2, <1>3, <1>5, Arena DEF ListSound
<1>7. NoneLost  BY <1>2, <1>3, Arena DEF NoneLost
<1> QED  BY <1>1, <1>4, <1>6, <1>7 DEF Inv, HeldInArena, HeldApart, HeldNotFree

\* A failed call changes nothing but its result.
LEMMA Unchanged ==
    ASSUME Inv, UNCHANGED <<free, mlength, live>>, ret' \in {"ok", "refused"}
    PROVE  Inv'
BY DEF Inv, MemTypes, ListSound, HeldInArena, HeldApart, HeldNotFree, NoneLost, End, Until

-----------------------------------------------------------------------------
(* getmem.                                                                 *)

\* A block that is taken whole has no byte more than was asked for: what is
\* left of an aligned block could hold a header.
LEMMA TakenWholeIsExact ==
    ASSUME Inv, NEW n \in Nat \ {0}, Aligned(n), NEW i \in DOMAIN free,
           free[i].len >= n, TakeWhole(i, n)
    PROVE  free[i].len = n
<1>1. free[i].len \in Nat /\ Aligned(free[i].len)  BY Types DEF Inv, ListSound
<1>2. ASSUME n < free[i].len  PROVE FALSE
  <2>1. n + MEM_ALIGN <= free[i].len  BY <1>1, <1>2, AlignedGap
  <2>2. free[i].len < n + Header  BY DEF TakeWhole
  <2> QED  BY <1>1, <2>1, <2>2
<1> QED  BY <1>1, <1>2

\* The head of a block large enough goes to the caller, and the rest of it, if
\* any, keeps its place.
LEMMA GetmemInv ==
    ASSUME Inv, NEW bytes \in Nat \ {0}, NEW by \in {"getmem", "kmalloc"},
           getmem(bytes, by)
    PROVE  Inv'
<1> DEFINE n == ROUNDMB(bytes)
<1>0. MemTypes /\ ListSound /\ HeldInArena /\ HeldApart /\ HeldNotFree /\ NoneLost
  BY DEF Inv
<1>1. n \in Nat \ {0} /\ Aligned(n)  BY RoundUp
<1> HIDE DEF n
<1>2. CASE UNCHANGED <<free, mlength, live>> /\ ret' = "refused"
  BY <1>2, Unchanged
<1>3. CASE \E i \in DOMAIN free :
          /\ IsFirstFit(i, n)
          /\ IF TakeWhole(i, n)
             THEN free' = Unlinked(free, i) /\ mlength' = mlength - free[i].len
             ELSE free' = Split(i, n) /\ mlength' = mlength - n
          /\ live' = live \cup {[addr |-> free[i].addr, bytes |-> bytes, by |-> by]}
          /\ ret' = "ok"
  <2>1. PICK i \in DOMAIN free :
          /\ free[i].len >= n
          /\ IF TakeWhole(i, n)
             THEN free' = Unlinked(free, i) /\ mlength' = mlength - free[i].len
             ELSE free' = Split(i, n) /\ mlength' = mlength - n
          /\ live' = live \cup {[addr |-> free[i].addr, bytes |-> bytes, by |-> by]}
          /\ ret' = "ok"
    BY <1>3 DEF IsFirstFit
  <2> DEFINE r == [addr |-> free[i].addr, bytes |-> bytes, by |-> by]
  <2>2. r.addr = free[i].addr /\ Until(r) = free[i].addr + n  BY DEF Until, n
  <2>3. r \in [addr : Nat, bytes : Nat \ {0}, by : {"getmem", "kmalloc"}]
    BY <1>0, <2>1, Types
  <2>4. live' = live \cup {r}  BY <2>1
  <2> HIDE DEF r
  <2>5. /\ free[i].addr \in Nat /\ free[i].len \in Nat
        /\ End(free[i]) = free[i].addr + free[i].len
        /\ heap_lo <= free[i].addr /\ End(free[i]) <= heap_hi
        /\ Aligned(free[i].addr) /\ Aligned(free[i].len)
    BY <1>0, <2>1, Types DEF ListSound
  <2>6. HeldInArena'
    BY <1>0, <1>1, <2>1, <2>2, <2>4, <2>5, Arena DEF HeldInArena, Until
  <2>7. \A c \in live : Until(c) <= r.addr \/ Until(r) <= c.addr
    <3> SUFFICES ASSUME NEW c \in live  PROVE Until(c) <= r.addr \/ Until(r) <= c.addr
      OBVIOUS
    <3>1. Until(c) <= free[i].addr \/ End(free[i]) <= c.addr
      BY <1>0 DEF HeldNotFree
    <3>2. c.addr \in Nat  BY <1>0, Types
    <3> QED  BY <1>1, <2>1, <2>2, <2>5, <3>1, <3>2
  <2>8. HeldApart'  BY <1>0, <2>4, <2>7 DEF HeldApart, Until
  <2>9. CASE TakeWhole(i, n)
    <3>1. free[i].len = n  BY <1>1, <2>1, <2>9, TakenWholeIsExact
    <3>2. free' = Unlinked(free, i) /\ mlength' = mlength - free[i].len  BY <2>1, <2>9
    <3>3. /\ free' \in Seq(Block) /\ DOMAIN free' = 1 .. Len(free) - 1
          /\ \A j \in 1 .. Len(free) - 1 :
                free'[j] = IF j < i THEN free[j] ELSE free[j + 1]
      BY Zenon, <1>0, <3>2, WithoutBlocks DEF MemTypes
    <3>4. MemTypes'
      BY SMTT(40), <1>0, <2>1, <2>3, <2>4, <2>5, <3>2, <3>3 DEF MemTypes
    <3>5. \A j \in DOMAIN free' : \E k \in DOMAIN free : k # i /\ free'[j] = free[k]
      <4> SUFFICES ASSUME NEW j \in 1 .. Len(free) - 1
                   PROVE  \E k \in DOMAIN free : k # i /\ free'[j] = free[k]
        BY <3>3
      <4>1. i \in Nat /\ j \in DOMAIN free /\ j + 1 \in DOMAIN free  BY <1>0, Types
      <4>2. CASE j < i  BY <3>3, <4>1, <4>2
      <4>3. CASE j >= i
        <5>1. free'[j] = free[j + 1] /\ j + 1 # i  BY SMTT(40), <3>3, <4>1, <4>3
        <5> QED  BY <4>1, <5>1
      <4> QED  BY <4>1, <4>2, <4>3
    <3>6. \A k \in DOMAIN free : k # i => \E j \in DOMAIN free' : free'[j] = free[k]
      <4> SUFFICES ASSUME NEW k \in DOMAIN free, k # i
                   PROVE  \E j \in DOMAIN free' : free'[j] = free[k]
        OBVIOUS
      <4>1. CASE k < i
        BY SMTT(40), <1>0, <3>3, <4>1, Types
      <4>2. CASE k > i
        <5>1. k - 1 \in DOMAIN free' /\ free'[k - 1] = free[k]
          BY <1>0, <3>3, <4>2, Types
        <5> QED  BY <5>1
      <4> QED  BY <1>0, <4>1, <4>2, Types
    <3>7. ListSound'
      <4>1. \A j \in DOMAIN free' :
              /\ free'[j].addr >= heap_lo /\ End(free'[j]) <= heap_hi
              /\ Aligned(free'[j].addr) /\ Aligned(free'[j].len)
              /\ free'[j].len >= Header
        BY <1>0, <3>5 DEF ListSound
      <4>2. \A j, k \in DOMAIN free' : j < k => End(free'[j]) < free'[k].addr
        <5> SUFFICES ASSUME NEW j \in 1 .. Len(free) - 1, NEW k \in 1 .. Len(free) - 1, j < k
                     PROVE  End(free'[j]) < free'[k].addr
          BY <3>3
        <5> DEFINE old(l) == IF l < i THEN l ELSE l + 1
        <5>1. old(j) \in DOMAIN free /\ old(k) \in DOMAIN free /\ old(j) < old(k)
          BY <1>0, Types
        <5>2. free'[j] = free[old(j)] /\ free'[k] = free[old(k)]  BY <3>3
        <5> HIDE DEF old
        <5> QED  BY <1>0, <5>1, <5>2 DEF ListSound
      <4> QED  BY <4>1, <4>2 DEF ListSound, End
    <3>8. HeldNotFree'
      <4>1. \A k \in DOMAIN free : k # i => \/ Until(r) <= free[k].addr
                                            \/ End(free[k]) <= r.addr
        <5> SUFFICES ASSUME NEW k \in DOMAIN free, k # i
                     PROVE  Until(r) <= free[k].addr \/ End(free[k]) <= r.addr
          OBVIOUS
        <5>1. End(free[k]) < free[i].addr \/ End(free[i]) < free[k].addr
          BY <1>0, Separate
        <5>2. End(free[k]) \in Nat /\ free[k].addr \in Nat  BY <1>0, Types
        <5> QED  BY <1>1, <2>2, <2>5, <3>1, <5>1, <5>2
      <4> QED  BY <1>0, <2>4, <3>5, <4>1 DEF HeldNotFree, Until, End
    <3>9. NoneLost'
      <4> SUFFICES ASSUME NEW x \in heap_lo .. heap_hi - 1
                   PROVE  \/ \E j \in DOMAIN free' : free'[j].addr <= x /\ x < End(free'[j])
                          \/ \E b \in live' : b.addr <= x /\ x < Until(b)
        BY DEF NoneLost, End, Until
      <4>1. CASE \E b \in live : b.addr <= x /\ x < Until(b)  BY <2>4, <4>1
      <4>2. CASE \E k \in DOMAIN free : free[k].addr <= x /\ x < End(free[k])
        <5>1. PICK k \in DOMAIN free : free[k].addr <= x /\ x < End(free[k])  BY <4>2
        <5>2. CASE k = i
          BY <2>2, <2>4, <2>5, <3>1, <5>1, <5>2
        <5>3. CASE k # i  BY <3>6, <5>1, <5>3
        <5> QED  BY <5>2, <5>3
      <4> QED  BY <1>0, <4>1, <4>2 DEF NoneLost
    <3> QED  BY <2>6, <2>8, <3>4, <3>7, <3>8, <3>9 DEF Inv
  <2>10. CASE ~TakeWhole(i, n)
    <3> DEFINE t == [addr |-> free[i].addr + n, len |-> free[i].len - n]
    <3>1. free[i].len - n >= Header /\ free[i].len - n \in Nat
      BY <1>1, <2>1, <2>5, <2>10 DEF TakeWhole
    <3>2. t \in Block /\ t.addr = free[i].addr + n /\ t.len = free[i].len - n
      BY <1>1, <2>5, <3>1 DEF Block
    <3>3. free' = [free EXCEPT ![i] = t] /\ mlength' = mlength - n
      BY <2>1, <2>10 DEF Split
    <3> HIDE DEF t
    <3>4. /\ free' \in Seq(Block) /\ DOMAIN free' = DOMAIN free
          /\ \A j \in DOMAIN free : free'[j] = IF j = i THEN t ELSE free[j]
      BY <1>0, <3>2, <3>3, WriteBlock DEF MemTypes
    <3>5. MemTypes'
      BY SMTT(40), <1>0, <1>1, <2>1, <2>3, <2>4, <3>3, <3>4 DEF MemTypes
    <3>6. End(t) = End(free[i]) /\ t.addr = Until(r)
      BY <1>1, <2>2, <2>5, <3>1, <3>2 DEF End
    <3>7. ListSound'
      <4>1. Aligned(t.addr) /\ Aligned(t.len) /\ t.len >= Header /\ t.addr >= heap_lo
        <5>1. Aligned(free[i].addr + n) /\ Aligned(free[i].len - n)
          BY Zenon, <1>1, <2>1, <2>5, AlignedSum
        <5>2. free[i].addr + n >= heap_lo  BY <1>1, <2>5, Arena
        <5> QED  BY <3>1, <3>2, <5>1, <5>2
      <4>2. \A j \in DOMAIN free' :
              /\ free'[j].addr >= heap_lo /\ End(free'[j]) <= heap_hi
              /\ Aligned(free'[j].addr) /\ Aligned(free'[j].len)
              /\ free'[j].len >= Header
        <5> SUFFICES ASSUME NEW j \in DOMAIN free
                     PROVE  /\ free'[j].addr >= heap_lo /\ End(free'[j]) <= heap_hi
                            /\ Aligned(free'[j].addr) /\ Aligned(free'[j].len)
                            /\ free'[j].len >= Header
          BY Zenon, <3>4
        <5>1. /\ End(free[i]) <= heap_hi
              /\ free[j].addr >= heap_lo /\ End(free[j]) <= heap_hi
              /\ Aligned(free[j].addr) /\ Aligned(free[j].len) /\ free[j].len >= Header
          BY Zenon, <1>0, <1>1, <2>1, <2>5 DEF ListSound
        <5>2. free'[j] = IF j = i THEN t ELSE free[j]
          BY Zenon, <3>4
        <5>3. CASE j = i  BY Zenon, <3>6, <4>1, <5>1, <5>2, <5>3
        <5>4. CASE j # i  BY Zenon, <5>1, <5>2, <5>4
        <5> QED  BY Zenon, <5>3, <5>4
      <4>3. \A j, k \in DOMAIN free' : j < k => End(free'[j]) < free'[k].addr
        <5> SUFFICES ASSUME NEW j \in DOMAIN free, NEW k \in DOMAIN free, j < k
                     PROVE  End(free'[j]) < free'[k].addr
          BY <3>4
        <5>1. End(free[j]) < free[k].addr  BY <1>0 DEF ListSound
        <5>2. End(free'[j]) = End(free[j])  BY Zenon, <3>4, <3>6
        <5>3. free'[k].addr >= free[k].addr /\ free'[k].addr \in Nat
          <6>1. CASE k = i  BY SMTT(40), <1>1, <2>5, <3>2, <3>4, <6>1
          <6>2. CASE k # i  BY <1>0, <3>4, <6>2, Types
          <6> QED  BY <6>1, <6>2
        <5>4. End(free[j]) \in Nat /\ free[k].addr \in Nat  BY SMTT(40), <1>0, Types
        <5> QED  BY <5>1, <5>2, <5>3, <5>4
      <4> QED  BY <4>2, <4>3 DEF ListSound, End
    <3>8. HeldNotFree'
      <4> SUFFICES ASSUME NEW b \in live', NEW j \in DOMAIN free
                   PROVE  Until(b) <= free'[j].addr \/ End(free'[j]) <= b.addr
        BY <3>4 DEF HeldNotFree, Until, End
      <4>1. CASE b = r
        <5>1. CASE j = i  BY <1>1, <2>2, <2>5, <3>4, <3>6, <4>1, <5>1
        <5>2. CASE j # i
          <6>1. End(free[j]) < free[i].addr \/ End(free[i]) < free[j].addr
            BY <1>0, <5>2, Separate
          <6>2. End(free[j]) \in Nat /\ free[j].addr \in Nat  BY <1>0, Types
          <6>3. Until(r) <= free[j].addr \/ End(free[j]) <= r.addr
            BY <1>1, <2>1, <2>2, <2>5, <6>1, <6>2
          <6> QED  BY Zenon, <3>4, <4>1, <5>2, <6>3
        <5> QED  BY <5>1, <5>2
      <4>2. CASE b \in live
        <5>1. Until(b) <= free[j].addr \/ End(free[j]) <= b.addr
          BY <1>0, <4>2 DEF HeldNotFree
        <5>2. CASE j = i
          BY <1>0, <1>1, <2>5, <3>2, <3>4, <3>6, <4>2, <5>1, <5>2, Types
        <5>3. CASE j # i  BY <3>4, <5>1, <5>3
        <5> QED  BY <5>2, <5>3
      <4> QED  BY <2>4, <4>1, <4>2
    <3>9. NoneLost'
      <4> SUFFICES ASSUME NEW x \in heap_lo .. heap_hi - 1
                   PROVE  \/ \E j \in DOMAIN free : free'[j].addr <= x /\ x < End(free'[j])
                          \/ \E b \in live' : b.addr <= x /\ x < Until(b)
        BY <3>4 DEF NoneLost, End, Until
      <4>1. CASE \E b \in live : b.addr <= x /\ x < Until(b)  BY <2>4, <4>1
      <4>2. CASE \E k \in DOMAIN free : free[k].addr <= x /\ x < End(free[k])
        <5>1. PICK k \in DOMAIN free : free[k].addr <= x /\ x < End(free[k])  BY <4>2
        <5>2. CASE k = i
          <6>1. CASE x < Until(r)  BY <2>2, <2>4, <5>1, <5>2, <6>1
          <6>2. CASE x >= Until(r)  BY <3>4, <3>6, <5>1, <5>2, <6>2
          <6> QED  BY <1>1, <2>2, <2>5, <6>1, <6>2, Arena
        <5>3. CASE k # i  BY <3>4, <5>1, <5>3
        <5> QED  BY <5>2, <5>3
      <4> QED  BY <1>0, <4>1, <4>2 DEF NoneLost
    <3> QED  BY <2>6, <2>8, <3>5, <3>7, <3>8, <3>9 DEF Inv
  <2> QED  BY <2>9, <2>10
<1> QED  BY <1>2, <1>3 DEF getmem, n

-----------------------------------------------------------------------------
(* freemem.                                                                *)

\* The address x lies in a block of q, or in the region from start.
Covers(q, x) == \E j \in DOMAIN q : q[j].addr <= x /\ x < End(q[j])
Within(start, n, x) == start <= x /\ x < start + n

\* Where the walk of freemem ended and the overlap check passed, the blocks up to
\* the i-th end before the region and the others begin behind it; a block that
\* touches the region is its neighbour and joins it.
LEMMA Around ==
    ASSUME MemTypes, ListSound, NEW start \in Nat, NEW n \in Nat \ {0},
           NEW i \in 0 .. Len(free), IsPlace(i, start), ~Overlaps(i, start, start + n)
    PROVE  /\ \A j \in DOMAIN free : j <= i =>
                 /\ End(free[j]) <= start
                 /\ (j # i \/ ~JoinsPrev(i, start)) => End(free[j]) < start
           /\ \A j \in DOMAIN free : i < j =>
                 /\ start + n <= free[j].addr
                 /\ (j # i + 1 \/ ~JoinsNext(i, start + n)) => start + n < free[j].addr
<1>1. Len(free) \in Nat /\ DOMAIN free = 1 .. Len(free)  BY Types
<1>2. ASSUME NEW j \in DOMAIN free, j <= i
      PROVE  /\ End(free[j]) <= start
             /\ (j # i \/ ~JoinsPrev(i, start)) => End(free[j]) < start
  <2>1. i \in DOMAIN free /\ free[i].addr < start /\ End(free[i]) <= start
    <3>1. i \in DOMAIN free /\ i > 0  BY <1>1, <1>2
    <3>2. ~ (End(free[i]) > start)  BY <3>1 DEF Overlaps
    <3>3. End(free[i]) \in Nat  BY <3>1, Types
    <3> QED  BY <1>1, <3>1, <3>2, <3>3 DEF IsPlace
  <2>2. End(free[j]) \in Nat /\ End(free[i]) \in Nat /\ free[i].addr \in Nat
    BY SMTT(40), <1>2, <2>1, Types
  <2>3. CASE j = i  BY <1>1, <2>1, <2>2, <2>3 DEF JoinsPrev
  <2>4. CASE j < i
    <3>1. End(free[j]) < free[i].addr  BY <1>2, <2>1, <2>4 DEF ListSound
    <3> QED  BY <2>1, <2>2, <3>1
  <2> QED  BY <1>1, <1>2, <2>3, <2>4
<1>3. ASSUME NEW j \in DOMAIN free, i < j
      PROVE  /\ start + n <= free[j].addr
             /\ (j # i + 1 \/ ~JoinsNext(i, start + n)) => start + n < free[j].addr
  <2>1. i + 1 \in DOMAIN free /\ start + n <= free[i + 1].addr
    <3>1. i + 1 \in DOMAIN free /\ i < Len(free)  BY <1>1, <1>3
    <3>2. ~ (start + n > free[i + 1].addr)  BY <3>1 DEF Overlaps
    <3>3. free[i + 1].addr \in Nat  BY <3>1, Types
    <3> QED  BY <3>1, <3>2, <3>3
  <2>2. /\ free[j].addr \in Nat /\ free[i + 1].addr \in Nat
        /\ free[i + 1].len \in Nat /\ End(free[i + 1]) = free[i + 1].addr + free[i + 1].len
    BY Zenon, <1>3, <2>1, Types
  <2>3. CASE j = i + 1  BY <1>1, <2>1, <2>2, <2>3 DEF JoinsNext
  <2>4. CASE j > i + 1
    <3>1. End(free[i + 1]) < free[j].addr  BY <1>3, <2>1, <2>4 DEF ListSound
    <3> QED  BY <2>1, <2>2, <3>1
  <2> QED  BY <1>1, <1>3, <2>3, <2>4
<1> QED  BY <1>2, <1>3

\* Nothing that is free, wholly or in part, passes the overlap check.
LEMMA FreeIsRefused ==
    ASSUME MemTypes, ListSound, NEW start \in Nat, NEW n \in Nat \ {0},
           Bytes(start, n) \cap FreeBytes # {}
    PROVE  ~Acceptable(start, n)
<1> SUFFICES ASSUME NEW i \in 0 .. Len(free), IsPlace(i, start),
                    ~Overlaps(i, start, start + n)
             PROVE  FALSE
  BY DEF Acceptable
<1>1. PICK j \in DOMAIN free : \E x \in Bytes(start, n) : x \in Bytes(free[j].addr, free[j].len)
  BY DEF FreeBytes
<1>2. PICK x \in Bytes(start, n) : x \in Bytes(free[j].addr, free[j].len)  BY <1>1
<1>3. x \in Int /\ start <= x /\ x < start + n /\ free[j].addr <= x /\ x < End(free[j])
  BY <1>2, Types DEF Bytes
<1>4. j \in Nat /\ free[j].addr \in Nat /\ End(free[j]) \in Nat  BY Types
<1>5. CASE j <= i
  <2>1. End(free[j]) <= start  BY Zenon, <1>5, Around
  <2> QED  BY <1>3, <1>4, <2>1
<1>6. CASE i < j
  <2>1. start + n <= free[j].addr  BY Zenon, <1>6, Around
  <2> QED  BY <1>3, <1>4, <2>1
<1> QED  BY <1>4, <1>5, <1>6

\* The walk of freemem always finds the place of an address.
LEMMA PlaceExists ==
    ASSUME MemTypes, NEW start \in Nat
    PROVE  \E i \in 0 .. Len(free) : IsPlace(i, start)
<1> DEFINE T == {k \in 0 .. Len(free) : k < Len(free) => free[k + 1].addr >= start}
<1>1. Len(free) \in Nat /\ DOMAIN free = 1 .. Len(free)  BY Types
<1>2. T \subseteq Nat /\ Len(free) \in T  BY <1>1
<1>3. PICK i \in T : \A y \in T : i <= y  BY Zenon, <1>2, Least
<1>4. ASSUME NEW j \in 1 .. i  PROVE free[j].addr < start
  <2>1. j - 1 \in 0 .. Len(free) /\ j - 1 < Len(free) /\ j - 1 < i  BY <1>1, <1>3
  <2>2. j - 1 \notin T  BY <1>2, <1>3, <2>1
  <2>3. ~ (free[(j - 1) + 1].addr >= start)  BY <2>1, <2>2
  <2>4. (j - 1) + 1 = j /\ j \in DOMAIN free  BY <1>1, <1>3
  <2>5. free[j].addr \in Nat  BY <2>4, Types
  <2> QED  BY <2>3, <2>4, <2>5
<1> QED  BY Zenon, <1>3, <1>4 DEF IsPlace

\* What check_list asks of one block.
SoundBlock(b) ==
    /\ b.addr >= heap_lo /\ End(b) <= heap_hi
    /\ Aligned(b.addr) /\ Aligned(b.len)
    /\ b.len >= Header

\* The list that linking the region in behind block i must give: sound, and
\* covering what was free and the region, nothing more.
Relinked(q, start, n) ==
    /\ q \in Seq(Block)
    /\ \A j \in DOMAIN q : SoundBlock(q[j])
    /\ \A j, k \in DOMAIN q : j < k => End(q[j]) < q[k].addr
    /\ \A x \in Nat : Covers(q, x) <=> Covers(free, x) \/ Within(start, n, x)

\* Merging with both neighbours, with one or with none gives such a list.
LEMMA LinkedSound ==
    ASSUME MemTypes, ListSound, NEW start \in Nat, NEW n \in Nat \ {0},
           Aligned(start), Aligned(n), InArena(start, n),
           NEW i \in 0 .. Len(free), IsPlace(i, start), ~Overlaps(i, start, start + n)
    PROVE  Relinked(Linked(i, start, n), start, n)
<1> DEFINE q == Linked(i, start, n)
<1>1. /\ Len(free) \in Nat /\ DOMAIN free = 1 .. Len(free) /\ i \in Nat
      /\ free \in Seq(Block)
  BY Types DEF MemTypes
<1>2. \A j \in DOMAIN free : SoundBlock(free[j])  BY DEF ListSound, SoundBlock
<1>3. n >= Header
  <2>1. Aligned(0) /\ 0 \in Nat  BY MultIsAligned
  <2>2. 0 + MEM_ALIGN <= n  BY <2>1, AlignedGap
  <2> QED  BY <2>2
<1>4. JoinsPrev(i, start) =>
        /\ i \in DOMAIN free /\ free[i].addr + free[i].len = start
        /\ free[i].addr \in Nat /\ free[i].len \in Nat
  BY <1>1, Types DEF JoinsPrev
<1>5. JoinsNext(i, start + n) =>
        /\ i + 1 \in DOMAIN free /\ start + n = free[i + 1].addr
        /\ free[i + 1].addr \in Nat /\ free[i + 1].len \in Nat
        /\ End(free[i + 1]) = start + n + free[i + 1].len
  BY <1>1, Types DEF JoinsNext
<1>6. heap_lo <= start /\ start + n <= heap_hi /\ n \in Nat  BY DEF InArena
<1>7. CASE JoinsPrev(i, start) /\ JoinsNext(i, start + n)
  <2> DEFINE b == [addr |-> free[i].addr, len |-> free[i].len + n + free[i + 1].len]
             w == Unlinked(free, i + 1)
  <2>a. /\ i \in DOMAIN free /\ i + 1 \in DOMAIN free
        /\ free[i].addr \in Nat /\ free[i].len \in Nat /\ free[i + 1].len \in Nat
        /\ free[i].addr + free[i].len = start
        /\ free[i + 1].addr = start + n /\ End(free[i + 1]) = start + n + free[i + 1].len
    BY <1>4, <1>5, <1>7
  <2>1. /\ b \in Block /\ b.addr = free[i].addr /\ b.len = free[i].len + n + free[i + 1].len
        /\ b.addr \in Nat /\ b.len \in Nat
    BY <2>a DEF Block
  <2>b. End(b) = free[i].addr + (free[i].len + n + free[i + 1].len)  BY DEF End
  <2>c. free[i].addr + (free[i].len + n + free[i + 1].len) = start + n + free[i + 1].len
    BY Z3T(40), <1>6, <2>a
  <2>3. q = [w EXCEPT ![i] = b]  BY <1>7 DEF Linked
  <2>4. /\ w \in Seq(Block) /\ DOMAIN w = 1 .. Len(free) - 1
        /\ \A j \in 1 .. Len(free) - 1 : w[j] = IF j < i + 1 THEN free[j] ELSE free[j + 1]
    BY Zenon, <1>1, <1>5, <1>7, WithoutBlocks
  <2>5. i \in DOMAIN w  BY <1>1, <1>4, <1>5, <1>7, <2>4
  <2> HIDE DEF b, q, w
  <2>2. End(b) = End(free[i + 1]) /\ End(b) \in Nat  BY SMTT(40), <1>6, <2>a, <2>b, <2>c
  <2>6. /\ q \in Seq(Block) /\ DOMAIN q = 1 .. Len(free) - 1
        /\ \A j \in 1 .. Len(free) - 1 :
              q[j] = IF j = i THEN b ELSE IF j < i THEN free[j] ELSE free[j + 1]
    <3>1. /\ q \in Seq(Block) /\ DOMAIN q = DOMAIN w
          /\ \A j \in DOMAIN w : q[j] = IF j = i THEN b ELSE w[j]
      BY Zenon, <2>1, <2>3, <2>4, <2>5, WriteBlock
    <3>2. \A j \in 1 .. Len(free) - 1 : j \in Nat /\ (j < i + 1 <=> j < i \/ j = i)
      BY <1>1
    <3> QED  BY <2>4, <3>1, <3>2
  <2>7. SoundBlock(b)
    <3>1. Aligned(b.len) /\ b.len >= Header
      <4>1. Aligned(free[i].len) /\ Aligned(free[i + 1].len)  BY <1>2, <2>a DEF SoundBlock
      <4>2. Aligned(free[i].len + n)  BY <1>6, <2>a, <4>1, AlignedSum, Zenon
      <4>5. free[i].len + n \in Nat  BY <1>6, <2>a
      <4>3. Aligned(free[i].len + n + free[i + 1].len)
        BY <2>a, <4>1, <4>2, <4>5, AlignedSum, Zenon
      <4>4. free[i].len + n + free[i + 1].len >= Header  BY SMTT(40), <1>3, <2>a
      <4> QED  BY <2>1, <4>3, <4>4
    <3> QED  BY <1>2, <1>4, <1>5, <1>7, <2>1, <2>2, <3>1 DEF SoundBlock
  <2>8. \A j \in DOMAIN q : SoundBlock(q[j])
    <3> SUFFICES ASSUME NEW j \in 1 .. Len(free) - 1  PROVE SoundBlock(q[j])
      BY <2>6
    <3>1. j \in DOMAIN free /\ j + 1 \in DOMAIN free  BY <1>1
    <3> QED  BY Zenon, <1>2, <2>6, <2>7, <3>1
  <2>9. \A j, k \in DOMAIN q : j < k => End(q[j]) < q[k].addr
    <3> SUFFICES ASSUME NEW j \in 1 .. Len(free) - 1, NEW k \in 1 .. Len(free) - 1, j < k
                 PROVE  End(q[j]) < q[k].addr
      BY <2>6
    <3> DEFINE left(l) == IF l <= i THEN l ELSE l + 1
               right(l) == IF l < i THEN l ELSE l + 1
    <3>1. left(k) \in DOMAIN free /\ right(j) \in DOMAIN free /\ right(j) < left(k)
      BY <1>1
    <3>2. q[k].addr = free[left(k)].addr  BY SMTT(40), <1>1, <2>1, <2>6
    <3>3. End(q[j]) = End(free[right(j)])  BY <1>1, <2>2, <2>6
    <3> HIDE DEF left, right
    <3> QED  BY <3>1, <3>2, <3>3 DEF ListSound
  <2>10. ASSUME NEW x \in Nat
         PROVE  Covers(q, x) <=> Covers(free, x) \/ Within(start, n, x)
    <3>1. ASSUME Covers(q, x)  PROVE Covers(free, x) \/ Within(start, n, x)
      <4>1. PICK j \in 1 .. Len(free) - 1 : q[j].addr <= x /\ x < End(q[j])
        BY Zenon, <2>6, <3>1 DEF Covers
      <4>2. CASE j = i
        <5>1. free[i].addr <= x /\ x < End(free[i + 1])  BY Zenon, <2>1, <2>2, <2>6, <4>1, <4>2
        <5>2. End(free[i]) = start  BY <1>7 DEF JoinsPrev
        <5>3. i \in DOMAIN free /\ i + 1 \in DOMAIN free /\ free[i + 1].addr = start + n
          BY <1>4, <1>5, <1>7
        <5> QED  BY <5>1, <5>2, <5>3 DEF Covers, Within
      <4>3. CASE j < i
        <5>1. j \in DOMAIN free /\ q[j] = free[j]  BY <1>1, <2>6, <4>3
        <5> QED  BY <4>1, <5>1 DEF Covers
      <4>4. CASE j > i
        <5>1. j + 1 \in DOMAIN free /\ q[j] = free[j + 1]  BY <1>1, <2>6, <4>4
        <5> QED  BY <4>1, <5>1 DEF Covers
      <4> QED  BY <1>1, <4>2, <4>3, <4>4
    <3>2. ASSUME b.addr <= x, x < End(b)  PROVE Covers(q, x)
      BY Zenon, <2>4, <2>5, <2>6, <3>2 DEF Covers
    <3>3. ASSUME Within(start, n, x)  PROVE Covers(q, x)
      <4>1. start <= x /\ x < start + n  BY <3>3 DEF Within
      <4>2. free[i].addr <= x /\ x < End(free[i + 1])  BY SMTT(40), <2>a, <4>1
      <4> QED  BY <2>1, <2>2, <3>2, <4>2
    <3>4. ASSUME Covers(free, x)  PROVE Covers(q, x)
      <4>1. PICK j \in DOMAIN free : free[j].addr <= x /\ x < End(free[j])
        BY <3>4 DEF Covers
      <4>2. CASE j < i
        <5>1. j \in DOMAIN q /\ q[j] = free[j]  BY <1>1, <1>4, <1>7, <2>6, <4>2
        <5> QED  BY <4>1, <5>1 DEF Covers
      <4>3. CASE j > i + 1
        <5>1. j - 1 \in 1 .. Len(free) - 1 /\ j - 1 > i /\ (j - 1) + 1 = j  BY <1>1, <4>3
        <5>2. j - 1 \in DOMAIN q /\ q[j - 1] = free[j]  BY <1>1, <2>6, <5>1
        <5> QED  BY <4>1, <5>2 DEF Covers
      <4>4. CASE j = i
        <5>1. End(free[i]) = start  BY <1>7 DEF JoinsPrev
        <5> QED  BY <1>5, <1>7, <2>1, <2>2, <3>2, <4>1, <4>4, <5>1
      <4>5. CASE j = i + 1
        BY SMTT(40), <1>4, <1>5, <1>7, <2>1, <2>2, <3>2, <4>1, <4>5
      <4> QED  BY <1>1, <4>2, <4>3, <4>4, <4>5
    <3> QED  BY <3>1, <3>3, <3>4
  <2> QED  BY <2>6, <2>8, <2>9, <2>10 DEF Relinked, q
<1>8. CASE JoinsPrev(i, start) /\ ~JoinsNext(i, start + n)
  <2> DEFINE b == [addr |-> free[i].addr, len |-> free[i].len + n]
  <2>a. /\ i \in DOMAIN free /\ free[i].addr \in Nat /\ free[i].len \in Nat
        /\ free[i].addr + free[i].len = start
    BY <1>4, <1>8
  <2>1. /\ b \in Block /\ b.addr = free[i].addr /\ b.len = free[i].len + n
        /\ b.addr \in Nat /\ b.len \in Nat
    BY <2>a DEF Block
  <2>b. End(b) = free[i].addr + (free[i].len + n)  BY DEF End
  <2>3. q = [free EXCEPT ![i] = b]  BY <1>8 DEF Linked
  <2> HIDE DEF b, q
  <2>2. End(b) = start + n /\ End(b) \in Nat  BY <1>6, <2>a, <2>b
  <2>6. /\ q \in Seq(Block) /\ DOMAIN q = DOMAIN free
        /\ \A j \in DOMAIN free : q[j] = IF j = i THEN b ELSE free[j]
    BY <1>1, <2>1, <2>3, <2>a, WriteBlock
  <2>7. SoundBlock(b)
    <3>1. Aligned(free[i].len)  BY <1>2, <2>a DEF SoundBlock
    <3>2. Aligned(free[i].len + n)  BY <1>6, <2>a, <3>1, AlignedSum, Zenon
    <3>3. free[i].len + n >= Header  BY <1>3, <2>a
    <3> QED  BY <1>2, <1>6, <2>1, <2>2, <2>a, <3>2, <3>3 DEF SoundBlock
  <2>8. \A j \in DOMAIN q : SoundBlock(q[j])  BY Zenon, <1>2, <2>6, <2>7
  <2>9. \A j, k \in DOMAIN q : j < k => End(q[j]) < q[k].addr
    <3> SUFFICES ASSUME NEW j \in DOMAIN free, NEW k \in DOMAIN free, j < k
                 PROVE  End(q[j]) < q[k].addr
      BY <2>6
    <3>1. End(free[j]) < free[k].addr  BY DEF ListSound
    <3>2. q[k].addr = free[k].addr  BY Zenon, <2>1, <2>6
    <3>3. CASE j = i
      <4>1. i < k  BY <3>3
      <4>2. start + n < free[k].addr  BY Zenon, <1>8, <4>1, Around
      <4> QED  BY <2>2, <2>6, <3>2, <3>3, <4>2
    <3>4. CASE j # i  BY <2>6, <3>1, <3>2, <3>4
    <3> QED  BY <3>3, <3>4
  <2>10. ASSUME NEW x \in Nat
         PROVE  Covers(q, x) <=> Covers(free, x) \/ Within(start, n, x)
    <3>0. End(free[i]) = start  BY <1>8 DEF JoinsPrev
    <3>1. (b.addr <= x /\ x < End(b))
            <=> (free[i].addr <= x /\ x < End(free[i])) \/ Within(start, n, x)
      BY <2>1, <2>2, <2>a, <3>0 DEF Within
    <3> QED  BY Zenon, <2>6, <2>a, <3>1 DEF Covers
  <2> QED  BY <2>6, <2>8, <2>9, <2>10 DEF Relinked, q
<1>9. CASE ~JoinsPrev(i, start) /\ JoinsNext(i, start + n)
  <2> DEFINE b == [addr |-> start, len |-> n + free[i + 1].len]
  <2>a. /\ i + 1 \in DOMAIN free /\ free[i + 1].len \in Nat
        /\ free[i + 1].addr = start + n /\ End(free[i + 1]) = start + n + free[i + 1].len
    BY <1>5, <1>9
  <2>1. /\ b \in Block /\ b.addr = start /\ b.len = n + free[i + 1].len
        /\ b.addr \in Nat /\ b.len \in Nat
    BY <2>a DEF Block
  <2>b. End(b) = start + (n + free[i + 1].len)  BY DEF End
  <2>3. q = [free EXCEPT ![i + 1] = b]  BY <1>9 DEF Linked
  <2> HIDE DEF b, q
  <2>2. End(b) = End(free[i + 1]) /\ End(b) \in Nat  BY <1>6, <2>a, <2>b
  <2>6. /\ q \in Seq(Block) /\ DOMAIN q = DOMAIN free
        /\ \A j \in DOMAIN free : q[j] = IF j = i + 1 THEN b ELSE free[j]
    BY <1>1, <2>1, <2>3, <2>a, WriteBlock
  <2>7. SoundBlock(b)
    <3>1. Aligned(free[i + 1].len)  BY <1>2, <2>a DEF SoundBlock
    <3>2. Aligned(n + free[i + 1].len)  BY <1>6, <2>a, <3>1, AlignedSum, Zenon
    <3>3. n + free[i + 1].len >= Header  BY <1>3, <2>a
    <3> QED  BY <1>2, <1>6, <2>1, <2>2, <2>a, <3>2, <3>3 DEF SoundBlock
  <2>8. \A j \in DOMAIN q : SoundBlock(q[j])  BY <1>2, <2>6, <2>7
  <2>9. \A j, k \in DOMAIN q : j < k => End(q[j]) < q[k].addr
    <3> SUFFICES ASSUME NEW j \in DOMAIN free, NEW k \in DOMAIN free, j < k
                 PROVE  End(q[j]) < q[k].addr
      BY <2>6
    <3>1. End(free[j]) < free[k].addr  BY DEF ListSound
    <3>2. End(q[j]) = End(free[j])  BY Zenon, <2>2, <2>6
    <3>3. CASE k = i + 1
      <4>1. j <= i  BY <1>1, <3>3
      <4>2. End(free[j]) < start  BY Zenon, <1>9, <4>1, Around
      <4> QED  BY <2>1, <2>6, <3>2, <3>3, <4>2
    <3>4. CASE k # i + 1  BY <2>6, <3>1, <3>2, <3>4
    <3> QED  BY <3>3, <3>4
  <2>10. ASSUME NEW x \in Nat
         PROVE  Covers(q, x) <=> Covers(free, x) \/ Within(start, n, x)
    <3>1. (b.addr <= x /\ x < End(b))
            <=> (free[i + 1].addr <= x /\ x < End(free[i + 1])) \/ Within(start, n, x)
      BY SMTT(40), <2>1, <2>2, <2>a DEF Within
    <3> QED  BY Zenon, <2>6, <2>a, <3>1 DEF Covers
  <2> QED  BY <2>6, <2>8, <2>9, <2>10 DEF Relinked, q
<1>10. CASE ~JoinsPrev(i, start) /\ ~JoinsNext(i, start + n)
  <2> DEFINE b == [addr |-> start, len |-> n]
  <2>1. b \in Block /\ b.addr = start /\ b.len = n  BY DEF Block
  <2>2. End(b) = start + n  BY DEF End
  <2>3. q = Insert(free, i, b)  BY <1>10 DEF Linked
  <2> HIDE DEF b, q
  <2>6. /\ q \in Seq(Block) /\ DOMAIN q = 1 .. Len(free) + 1
        /\ \A j \in 1 .. Len(free) + 1 :
              q[j] = IF j <= i THEN free[j] ELSE IF j = i + 1 THEN b ELSE free[j - 1]
    <3>1. b \in Block  BY <2>1
    <3>2. Insert(free, i, b) \in Seq(Block)  BY <1>1, <3>1, InsertBlocks
    <3>3. DOMAIN Insert(free, i, b) = 1 .. Len(free) + 1  BY <1>1, <3>1, InsertBlocks
    <3>4. \A j \in 1 .. Len(free) + 1 :
                Insert(free, i, b)[j] = IF j <= i THEN free[j]
                                        ELSE IF j = i + 1 THEN b ELSE free[j - 1]
      BY DEF Insert
    <3> QED  BY <2>3, <3>2, <3>3, <3>4, Zenon
  <2>7. SoundBlock(b)  BY <1>3, <1>6, <2>1, <2>2 DEF SoundBlock
  <2>c. \A j \in 1 .. Len(free) + 1 :
          \/ j <= i /\ j \in DOMAIN free /\ q[j] = free[j]
          \/ j = i + 1 /\ q[j] = b
          \/ j > i + 1 /\ j - 1 \in DOMAIN free /\ i < j - 1 /\ q[j] = free[j - 1]
    BY SMTT(40), <1>1, <2>6
  <2>8. \A j \in DOMAIN q : SoundBlock(q[j])  BY Zenon, <1>2, <2>6, <2>7, <2>c
  <2>9. \A j, k \in DOMAIN q : j < k => End(q[j]) < q[k].addr
    <3> SUFFICES ASSUME NEW j \in 1 .. Len(free) + 1, NEW k \in 1 .. Len(free) + 1, j < k
                 PROVE  End(q[j]) < q[k].addr
      BY <2>6
    <3>1. CASE j = i + 1
      <4>1. k > i + 1  BY <3>1
      <4>2. k - 1 \in DOMAIN free /\ i < k - 1 /\ q[k] = free[k - 1]  BY <1>1, <2>c, <4>1
      <4>3. start + n < free[k - 1].addr  BY Zenon, <1>10, <4>2, Around
      <4>4. q[j] = b  BY <1>1, <2>c, <3>1
      <4> QED  BY <2>2, <4>2, <4>3, <4>4
    <3>2. CASE k = i + 1
      <4>1. j <= i  BY <1>1, <3>2
      <4>2. j \in DOMAIN free /\ q[j] = free[j]  BY <1>1, <2>c, <4>1
      <4>3. End(free[j]) < start  BY Zenon, <1>10, <4>1, <4>2, Around
      <4>4. q[k] = b  BY <1>1, <2>c, <3>2
      <4> QED  BY <2>1, <4>2, <4>3, <4>4
    <3>3. CASE j # i + 1 /\ k # i + 1
      <4> DEFINE old(l) == IF l <= i THEN l ELSE l - 1
      <4>1. old(j) \in DOMAIN free /\ old(k) \in DOMAIN free /\ old(j) < old(k)
        BY <1>1, <3>3
      <4>2. q[j] = free[old(j)] /\ q[k] = free[old(k)]  BY <1>1, <2>6, <3>3
      <4> HIDE DEF old
      <4> QED  BY <4>1, <4>2 DEF ListSound
    <3> QED  BY <3>1, <3>2, <3>3
  <2>10. ASSUME NEW x \in Nat
         PROVE  Covers(q, x) <=> Covers(free, x) \/ Within(start, n, x)
    <3>1. ASSUME Covers(q, x)  PROVE Covers(free, x) \/ Within(start, n, x)
      BY <2>1, <2>2, <2>6, <2>c, <3>1 DEF Covers, Within
    <3>2. ASSUME Within(start, n, x)  PROVE Covers(q, x)
      <4>1. i + 1 \in DOMAIN q /\ q[i + 1] = b  BY <1>1, <2>6
      <4> QED  BY <2>1, <2>2, <3>2, <4>1 DEF Covers, Within
    <3>3. ASSUME Covers(free, x)  PROVE Covers(q, x)
      <4>1. PICK j \in DOMAIN free : free[j].addr <= x /\ x < End(free[j])
        BY <3>3 DEF Covers
      <4>2. CASE j <= i
        <5>1. j \in DOMAIN q /\ q[j] = free[j]  BY <1>1, <2>6, <4>2
        <5> QED  BY <4>1, <5>1 DEF Covers
      <4>3. CASE j > i
        <5>1. j + 1 \in 1 .. Len(free) + 1 /\ j + 1 > i + 1 /\ (j + 1) - 1 = j  BY <1>1, <4>3
        <5>2. j + 1 \in DOMAIN q /\ q[j + 1] = free[j]  BY <1>1, <2>6, <5>1
        <5> QED  BY <4>1, <5>2 DEF Covers
      <4> QED  BY <1>1, <4>2, <4>3
    <3> QED  BY <3>1, <3>2, <3>3
  <2> QED  BY <2>6, <2>8, <2>9, <2>10 DEF Relinked, q
<1> QED  BY <1>7, <1>8, <1>9, <1>10

\* A held block that is linked in moves from what is held to what is free.
LEMMA AcceptInv ==
    ASSUME Inv, NEW b \in live, Accept(b.addr, ROUNDMB(b.bytes), live \ {b})
    PROVE  Inv'
<1> DEFINE n == ROUNDMB(b.bytes)
<1>0. MemTypes /\ ListSound /\ HeldInArena /\ HeldApart /\ HeldNotFree /\ NoneLost
  BY DEF Inv
<1>1. /\ b.addr \in Nat /\ n \in Nat \ {0} /\ Until(b) = b.addr + n
      /\ Aligned(b.addr) /\ Aligned(n)
  BY Zenon, <1>0, Types, RoundUp DEF HeldInArena
<1> HIDE DEF n
<1>2. /\ Relinked(free', b.addr, n) /\ mlength' = mlength + n
      /\ live' = live \ {b} /\ ret' = "ok"
  BY <1>0, <1>1, LinkedSound DEF Accept, n
<1>3. MemTypes'  BY <1>0, <1>1, <1>2 DEF MemTypes, Relinked
<1>4. ListSound'  BY <1>2 DEF ListSound, Relinked, SoundBlock, End
<1>5. HeldInArena' /\ HeldApart'  BY <1>0, <1>2 DEF HeldInArena, HeldApart, Until
<1>6. HeldNotFree'
  <2> SUFFICES ASSUME NEW c \in live', NEW j \in DOMAIN free',
                      ~ (Until(c) <= free'[j].addr), ~ (End(free'[j]) <= c.addr)
               PROVE  FALSE
    BY DEF HeldNotFree, Until, End
  <2>1. c \in live /\ c # b  BY <1>2
  <2>2. c.addr \in Nat /\ Until(c) \in Nat /\ c.addr < Until(c)  BY <1>0, <2>1, Types
  <2>3. free'[j].addr \in Nat /\ End(free'[j]) \in Nat /\ free'[j].addr < End(free'[j])
    <3>1. free'[j] \in Block /\ free'[j].len >= Header
      BY <1>2 DEF Relinked, SoundBlock
    <3> QED  BY <3>1 DEF Block, End
  <2>4. PICK x \in Nat : c.addr <= x /\ x < Until(c) /\ free'[j].addr <= x /\ x < End(free'[j])
    <3>1. CASE c.addr <= free'[j].addr  BY <2>2, <2>3, <3>1
    <3>2. CASE free'[j].addr < c.addr  BY <2>2, <2>3, <3>2
    <3> QED  BY <2>2, <2>3, <3>1, <3>2
  <2>5. Covers(free', x)  BY <2>4 DEF Covers
  <2>6. CASE Within(b.addr, n, x)
    <3>1. Until(b) <= c.addr \/ Until(c) <= b.addr  BY <1>0, <2>1 DEF HeldApart
    <3> QED  BY <1>1, <2>2, <2>4, <2>6, <3>1 DEF Within
  <2>7. CASE Covers(free, x)
    <3>1. PICK k \in DOMAIN free : free[k].addr <= x /\ x < End(free[k])
      BY <2>7 DEF Covers
    <3>2. Until(c) <= free[k].addr \/ End(free[k]) <= c.addr
      BY <1>0, <2>1 DEF HeldNotFree
    <3>3. free[k].addr \in Nat /\ End(free[k]) \in Nat  BY SMTT(40), <1>0, Types
    <3> QED  BY <2>2, <2>4, <3>1, <3>2, <3>3
  <2> QED  BY <1>2, <2>5, <2>6, <2>7 DEF Relinked
<1>7. NoneLost'
  <2> SUFFICES ASSUME NEW x \in heap_lo .. heap_hi - 1
               PROVE  Covers(free', x) \/ \E c \in live' : c.addr <= x /\ x < Until(c)
    BY DEF NoneLost, Covers, End, Until
  <2>1. x \in Nat  BY Arena
  <2>2. CASE Covers(free, x)  BY <1>2, <2>1, <2>2 DEF Relinked
  <2>3. CASE \E c \in live : c.addr <= x /\ x < Until(c)
    <3>1. PICK c \in live : c.addr <= x /\ x < Until(c)  BY <2>3
    <3>2. CASE c = b
      <4>1. Within(b.addr, n, x)  BY <1>1, <3>1, <3>2 DEF Within
      <4> QED  BY <1>2, <2>1, <4>1 DEF Relinked
    <3>3. CASE c # b  BY <1>2, <3>1, <3>3
    <3> QED  BY <3>2, <3>3
  <2> QED  BY <1>0, <2>2, <2>3 DEF NoneLost, Covers
<1> QED  BY <1>3, <1>4, <1>5, <1>6, <1>7 DEF Inv

\* freemem of a held block keeps the invariant, whatever it answers.
LEMMA FreememInv ==
    ASSUME Inv, NEW b \in live, freemem(b)
    PROVE  Inv'
<1>1. CASE Accept(b.addr, ROUNDMB(b.bytes), live \ {b})  BY <1>1, AcceptInv
<1>2. CASE Refuse(b.addr, ROUNDMB(b.bytes))  BY <1>2, Unchanged DEF Refuse
<1> QED  BY <1>1, <1>2 DEF freemem, Free

\* Giving back something that is free is refused.
LEMMA AgainRefused ==
    ASSUME Inv, NEW start \in heap_lo .. heap_hi, NEW bytes \in Requests,
           freemem_again(start, bytes)
    PROVE  Refuse(start, ROUNDMB(bytes))
<1> DEFINE n == ROUNDMB(bytes)
<1>1. start \in Nat /\ n \in Nat \ {0}  BY Arena, RoundUp
<1>2. ~Acceptable(start, n)
  BY <1>1, FreeIsRefused DEF Inv, freemem_again
<1>3. ~Accept(start, n, live)  BY <1>2 DEF Accept, Acceptable
<1> QED  BY <1>3 DEF freemem_again, Free

\* Every step keeps the invariant.
LEMMA NextInv == Inv /\ [MemNext]_memvars => Inv'
<1> SUFFICES ASSUME Inv, [MemNext]_memvars  PROVE Inv'  OBVIOUS
<1>1. CASE UNCHANGED memvars
  <2>1. ret' \in {"ok", "refused"} /\ UNCHANGED <<free, mlength, live>>
    BY <1>1 DEF memvars, Inv, MemTypes
  <2> QED  BY <2>1, Unchanged
<1>2. CASE \E bytes \in Requests : getmem(bytes, "getmem") \/ kmalloc(bytes)
  <2>1. PICK bytes \in Requests : getmem(bytes, "getmem") \/ kmalloc(bytes)  BY <1>2
  <2>2. bytes \in Nat \ {0} /\ bytes + KM_HEADER_BYTES \in Nat \ {0}  OBVIOUS
  <2>3. CASE getmem(bytes, "getmem")  BY <2>2, <2>3, GetmemInv
  <2>4. CASE kmalloc(bytes)  BY <2>2, <2>4, GetmemInv DEF kmalloc
  <2> QED  BY <2>1, <2>3, <2>4
<1>3. CASE \E b \in live : (b.by = "getmem" /\ freemem(b)) \/ kfree(b)
  BY <1>3, FreememInv DEF kfree
<1>4. CASE \E start \in heap_lo .. heap_hi, bytes \in Requests : freemem_again(start, bytes)
  <2>1. PICK start \in heap_lo .. heap_hi, bytes \in Requests : freemem_again(start, bytes)
    BY <1>4
  <2>2. Refuse(start, ROUNDMB(bytes))  BY <2>1, AgainRefused
  <2> QED  BY <2>2, Unchanged DEF Refuse
<1> QED  BY <1>1, <1>2, <1>3, <1>4 DEF MemNext

\* A held block is always taken back: the double-free check never misfires.
LEMMA HeldIsAccepted ==
    ASSUME Inv, NEW b \in live
    PROVE  Acceptable(b.addr, ROUNDMB(b.bytes))
<1> DEFINE n == ROUNDMB(b.bytes)
<1>0. MemTypes /\ HeldInArena /\ HeldNotFree  BY DEF Inv
<1>1. b.addr \in Nat /\ n \in Nat \ {0} /\ Until(b) = b.addr + n  BY <1>0, Types
<1>2. InArena(b.addr, n)  BY <1>0, <1>1, Arena DEF HeldInArena, InArena
<1> HIDE DEF n
<1>3. PICK i \in 0 .. Len(free) : IsPlace(i, b.addr)  BY Zenon, <1>0, <1>1, PlaceExists
<1>4. Len(free) \in Nat /\ DOMAIN free = 1 .. Len(free)  BY <1>0, Types
<1>5. ASSUME i > 0, End(free[i]) > b.addr  PROVE FALSE
  <2>1. i \in DOMAIN free /\ free[i].addr < b.addr  BY <1>3, <1>4, <1>5 DEF IsPlace
  <2>2. Until(b) <= free[i].addr \/ End(free[i]) <= b.addr
    BY <1>0, <2>1 DEF HeldNotFree
  <2>3. free[i].addr \in Nat /\ End(free[i]) \in Nat  BY <1>0, <2>1, Types
  <2> QED  BY <1>1, <1>5, <2>1, <2>2, <2>3
<1>6. ASSUME i < Len(free), b.addr + n > free[i + 1].addr  PROVE FALSE
  <2>1. i + 1 \in DOMAIN free /\ free[i + 1].addr >= b.addr
    BY <1>3, <1>4, <1>6 DEF IsPlace
  <2>2. Until(b) <= free[i + 1].addr \/ End(free[i + 1]) <= b.addr
    BY <1>0, <2>1 DEF HeldNotFree
  <2>3. free[i + 1].len >= Header  BY <2>1 DEF Inv, ListSound
  <2>4. /\ free[i + 1].addr \in Nat /\ free[i + 1].len \in Nat
        /\ End(free[i + 1]) = free[i + 1].addr + free[i + 1].len
    BY <1>0, <2>1, Types
  <2> QED  BY <1>1, <1>6, <2>1, <2>2, <2>3, <2>4
<1>7. ~Overlaps(i, b.addr, b.addr + n)  BY <1>5, <1>6 DEF Overlaps
<1> QED  BY <1>2, <1>3, <1>7 DEF Acceptable, n

-----------------------------------------------------------------------------
(* The bytes that are free, and how many they are.                         *)

\* The invariant, said of bytes: every byte of the arena is free or held once.
LEMMA InvPartition == Inv => Partition
<1> SUFFICES ASSUME Inv  PROVE Partition  OBVIOUS
<1>0. MemTypes /\ ListSound /\ HeldInArena /\ HeldApart /\ HeldNotFree /\ NoneLost
  BY DEF Inv
<1>1. \A b \in live : \A x : x \in HeldBytes(b) <=> x \in Int /\ b.addr <= x /\ x < Until(b)
  BY <1>0, Types DEF HeldBytes, Bytes
<1>2. \A x : x \in FreeBytes <=>
        x \in Int /\ \E i \in DOMAIN free : free[i].addr <= x /\ x < End(free[i])
  <2>1. \A i \in DOMAIN free : \A x : x \in Bytes(free[i].addr, free[i].len)
           <=> x \in Int /\ free[i].addr <= x /\ x < End(free[i])
    BY <1>0, Types DEF Bytes
  <2>2. \A x : x \in FreeBytes
           <=> \E i \in DOMAIN free : x \in Bytes(free[i].addr, free[i].len)
    BY DEF FreeBytes
  <2> QED  BY <2>1, <2>2
<1>3. \A x : x \in Bytes(heap_lo, heap_hi - heap_lo) <=> x \in heap_lo .. heap_hi - 1
  BY Arena DEF Bytes
<1>4. ASSUME NEW b \in live, NEW c \in live, b # c, NEW x \in HeldBytes(b), x \in HeldBytes(c)
      PROVE  FALSE
  <2>1. Until(b) <= c.addr \/ Until(c) <= b.addr  BY <1>0, <1>4 DEF HeldApart
  <2>2. b.addr \in Nat /\ c.addr \in Nat /\ Until(b) \in Nat /\ Until(c) \in Nat
    BY <1>0, Types
  <2>3. x \in Int /\ b.addr <= x /\ x < Until(b) /\ c.addr <= x /\ x < Until(c)
    BY <1>1, <1>4
  <2> QED  BY <2>1, <2>2, <2>3
<1>5. ASSUME NEW b \in live, NEW x \in HeldBytes(b), x \in FreeBytes
      PROVE  FALSE
  <2>1. PICK i \in DOMAIN free : free[i].addr <= x /\ x < End(free[i])  BY <1>2, <1>5
  <2>2. Until(b) <= free[i].addr \/ End(free[i]) <= b.addr  BY <1>0 DEF HeldNotFree
  <2>3. /\ b.addr \in Nat /\ Until(b) \in Nat
        /\ free[i].addr \in Nat /\ End(free[i]) \in Nat
    BY <1>0, Types
  <2>4. x \in Int /\ b.addr <= x /\ x < Until(b)  BY <1>1, <1>5
  <2> QED  BY <2>1, <2>2, <2>3, <2>4
<1>6. FreeBytes \subseteq Bytes(heap_lo, heap_hi - heap_lo)
  <2> SUFFICES ASSUME NEW x \in FreeBytes  PROVE x \in heap_lo .. heap_hi - 1
    BY <1>3
  <2>1. PICK i \in DOMAIN free : free[i].addr <= x /\ x < End(free[i])  BY <1>2
  <2>2. heap_lo <= free[i].addr /\ End(free[i]) <= heap_hi  BY <1>0 DEF ListSound
  <2>3. x \in Int /\ free[i].addr \in Nat /\ End(free[i]) \in Nat  BY <1>0, <1>2, Types
  <2> QED  BY <2>1, <2>2, <2>3, Arena
<1>7. ASSUME NEW b \in live  PROVE HeldBytes(b) \subseteq Bytes(heap_lo, heap_hi - heap_lo)
  <2> SUFFICES ASSUME NEW x \in HeldBytes(b)  PROVE x \in heap_lo .. heap_hi - 1
    BY <1>3
  <2>1. heap_lo <= b.addr /\ Until(b) <= heap_hi  BY <1>0 DEF HeldInArena
  <2>2. b.addr \in Nat /\ Until(b) \in Nat  BY <1>0, Types
  <2>3. x \in Int /\ b.addr <= x /\ x < Until(b)  BY <1>1
  <2> QED  BY <2>1, <2>2, <2>3, Arena
<1>8. Bytes(heap_lo, heap_hi - heap_lo) \subseteq
        FreeBytes \cup UNION {HeldBytes(b) : b \in live}
  <2> SUFFICES ASSUME NEW x \in heap_lo .. heap_hi - 1
               PROVE  x \in FreeBytes \/ \E b \in live : x \in HeldBytes(b)
    BY <1>3
  <2>1. x \in Int  BY Arena
  <2>2. CASE \E i \in DOMAIN free : free[i].addr <= x /\ x < End(free[i])
    BY <1>2, <2>1, <2>2
  <2>3. CASE \E b \in live : b.addr <= x /\ x < Until(b)  BY <1>1, <2>1, <2>3
  <2> QED  BY <1>0, <2>2, <2>3 DEF NoneLost
<1> QED  BY <1>4, <1>5, <1>6, <1>7, <1>8 DEF Partition

\* The free bytes are finitely many.
LEMMA FreeBytesFinite == Partition => IsFiniteSet(FreeBytes) /\ Cardinality(FreeBytes) \in Nat
<1> SUFFICES ASSUME Partition
             PROVE  IsFiniteSet(FreeBytes) /\ Cardinality(FreeBytes) \in Nat
  OBVIOUS
<1>1. IsFiniteSet(Bytes(heap_lo, heap_hi - heap_lo))
  BY Arena, FS_Interval DEF Bytes
<1>2. FreeBytes \in SUBSET Bytes(heap_lo, heap_hi - heap_lo)  BY DEF Partition
<1> QED  BY <1>1, <1>2, FS_Subset, FS_CardinalityType

\* A block of n bytes has n bytes.
LEMMA BlockSize ==
    ASSUME NEW start \in Nat, NEW n \in Nat \ {0}
    PROVE  /\ IsFiniteSet(Bytes(start, n)) /\ Cardinality(Bytes(start, n)) = n
           /\ start \in Bytes(start, n)
<1>1. start \in Int /\ start + n - 1 \in Int /\ start <= start + n - 1  OBVIOUS
<1> QED  BY <1>1, FS_Interval DEF Bytes

\* Disjoint sets of bytes add up.
LEMMA DisjointSum ==
    ASSUME NEW F, NEW H, IsFiniteSet(F), IsFiniteSet(H), F \cap H = {}
    PROVE  Cardinality(F \cup H) = Cardinality(F) + Cardinality(H)
<1>1. Cardinality(F) \in Nat /\ Cardinality(H) \in Nat  BY FS_CardinalityType
<1>2. Cardinality(F \cap H) = 0  BY FS_EmptySet
<1>3. Cardinality(F \cup H) = Cardinality(F) + Cardinality(H) - Cardinality(F \cap H)
  BY FS_Union
<1> QED  BY <1>1, <1>2, <1>3

\* getmem and freemem keep the cached sum: what they add to it or take off it is
\* what becomes free or held.
LEMMA TotalNext == Inv /\ Inv' /\ CachedTotal /\ [MemNext]_memvars => CachedTotal'
<1> SUFFICES ASSUME Inv, Inv', CachedTotal, [MemNext]_memvars  PROVE CachedTotal'  OBVIOUS
<1>1. Partition /\ Partition'  BY InvPartition, PTL
<1>2. /\ IsFiniteSet(FreeBytes) /\ Cardinality(FreeBytes) \in Nat
      /\ IsFiniteSet(FreeBytes') /\ Cardinality(FreeBytes') \in Nat
  <2>1. IsFiniteSet(FreeBytes) /\ Cardinality(FreeBytes) \in Nat
    BY <1>1, FreeBytesFinite
  <2>2. (IsFiniteSet(FreeBytes) /\ Cardinality(FreeBytes) \in Nat)'
    BY <1>1, FreeBytesFinite, PTL
  <2> QED  BY <2>1, <2>2
<1>3. CASE UNCHANGED <<free, mlength>>  BY <1>3 DEF CachedTotal, FreeBytes
<1>4. ASSUME NEW bytes \in Nat \ {0}, NEW by \in {"getmem", "kmalloc"}, getmem(bytes, by)
      PROVE  CachedTotal'
  <2> DEFINE n == ROUNDMB(bytes)
  <2>1. n \in Nat \ {0} /\ Aligned(n)  BY RoundUp
  <2>2. CASE UNCHANGED <<free, mlength, live>>  BY <1>3, <2>2
  <2>3. ASSUME NEW i \in DOMAIN free, IsFirstFit(i, n),
               IF TakeWhole(i, n)
               THEN free' = Unlinked(free, i) /\ mlength' = mlength - free[i].len
               ELSE free' = Split(i, n) /\ mlength' = mlength - n,
               live' = live \cup {[addr |-> free[i].addr, bytes |-> bytes, by |-> by]}
        PROVE  CachedTotal'
    <3> DEFINE r == [addr |-> free[i].addr, bytes |-> bytes, by |-> by]
    <3>1. mlength' = mlength - n
      BY <2>1, <2>3, TakenWholeIsExact DEF IsFirstFit
    <3>2. free[i].addr \in Nat /\ free[i].len \in Nat \ {0}
      BY Types DEF Inv, ListSound
    <3>3. HeldBytes(r) = Bytes(free[i].addr, n)  BY DEF HeldBytes
    <3>4. free[i].addr \in HeldBytes(r) /\ free[i].addr \in FreeBytes
      BY <2>1, <3>2, <3>3, BlockSize DEF FreeBytes
    <3>5. IsFiniteSet(HeldBytes(r)) /\ Cardinality(HeldBytes(r)) = n
      BY <2>1, <3>2, <3>3, BlockSize
    <3> HIDE DEF r, n
    <3>6. r \notin live /\ live' = live \cup {r}
      <4>1. r \notin live  BY <1>1, <3>4 DEF Partition
      <4> QED  BY <2>3, <4>1 DEF r
    <3>7. Cardinality(FreeBytes) = Cardinality(FreeBytes') + n
      <4> DEFINE A == Bytes(heap_lo, heap_hi - heap_lo)
      <4>1. \A c \in live : /\ FreeBytes' \cap HeldBytes(c) = {}
                           /\ FreeBytes \cap HeldBytes(c) = {}
                           /\ HeldBytes(r) \cap HeldBytes(c) = {}
        BY <1>1, <3>6 DEF Partition
      <4>2. FreeBytes' \cap HeldBytes(r) = {}  BY <1>1, <3>6 DEF Partition
      <4>3. FreeBytes \cup UNION {HeldBytes(c) : c \in live} = A  BY <1>1 DEF Partition
      <4>4. FreeBytes' \cup HeldBytes(r) \cup UNION {HeldBytes(c) : c \in live} = A
        <5>1. FreeBytes' \cup UNION {HeldBytes(c) : c \in live'} = A  BY <1>1 DEF Partition
        <5> QED  BY <3>6, <5>1
      <4> HIDE DEF A
      <4>5. FreeBytes = FreeBytes' \cup HeldBytes(r)  BY <4>1, <4>3, <4>4
      <4> QED  BY <1>2, <3>5, <4>2, <4>5, DisjointSum
    <3> QED  BY <1>2, <2>1, <3>1, <3>7 DEF CachedTotal, Inv, MemTypes, n
  <2> QED  BY <1>4, <2>2, <2>3 DEF getmem
<1>5. ASSUME NEW b \in live, freemem(b)  PROVE CachedTotal'
  <2> DEFINE n == ROUNDMB(b.bytes)
  <2>1. CASE Refuse(b.addr, n)  BY <1>3, <2>1 DEF Refuse
  <2>2. CASE Accept(b.addr, n, live \ {b})
    <3>1. mlength' = mlength + n /\ live' = live \ {b}  BY <2>2 DEF Accept
    <3>2. b.addr \in Nat /\ n \in Nat \ {0}  BY Types DEF Inv
    <3>3. IsFiniteSet(HeldBytes(b)) /\ Cardinality(HeldBytes(b)) = n
      BY <3>2, BlockSize DEF HeldBytes
    <3> HIDE DEF n
    <3>4. Cardinality(FreeBytes') = Cardinality(FreeBytes) + n
      <4> DEFINE A == Bytes(heap_lo, heap_hi - heap_lo)
                 L == live \ {b}
      <4>1. \A c \in L : /\ FreeBytes \cap HeldBytes(c) = {}
                        /\ FreeBytes' \cap HeldBytes(c) = {}
                        /\ HeldBytes(b) \cap HeldBytes(c) = {}
        BY <1>1, <3>1 DEF Partition
      <4>2. FreeBytes \cap HeldBytes(b) = {}  BY <1>1 DEF Partition
      <4>3. FreeBytes' \cup UNION {HeldBytes(c) : c \in L} = A
        BY <1>1, <3>1 DEF Partition
      <4>4. FreeBytes \cup HeldBytes(b) \cup UNION {HeldBytes(c) : c \in L} = A
        <5>1. FreeBytes \cup UNION {HeldBytes(c) : c \in live} = A  BY <1>1 DEF Partition
        <5> QED  BY <5>1
      <4> HIDE DEF A, L
      <4>5. FreeBytes' = FreeBytes \cup HeldBytes(b)  BY <4>1, <4>3, <4>4
      <4> QED  BY <1>2, <3>3, <4>2, <4>5, DisjointSum
    <3> QED  BY <1>2, <3>1, <3>2, <3>4 DEF CachedTotal, Inv, MemTypes
  <2> QED  BY <1>5, <2>1, <2>2 DEF freemem, Free
<1>6. ASSUME NEW start \in heap_lo .. heap_hi, NEW bytes \in Requests,
             freemem_again(start, bytes)
      PROVE  CachedTotal'
  <2>1. Refuse(start, ROUNDMB(bytes))  BY <1>6, AgainRefused
  <2> QED  BY <1>3, <2>1 DEF Refuse
<1>7. CASE UNCHANGED memvars  BY <1>3, <1>7 DEF memvars
<1>8. ASSUME NEW bytes \in Requests, getmem(bytes, "getmem") \/ kmalloc(bytes)
      PROVE  CachedTotal'
  <2>1. bytes \in Nat \ {0} /\ bytes + KM_HEADER_BYTES \in Nat \ {0}  OBVIOUS
  <2> QED  BY <1>4, <1>8, <2>1 DEF kmalloc
<1> QED  BY <1>5, <1>6, <1>7, <1>8 DEF MemNext, kfree

-----------------------------------------------------------------------------
\* The invariant holds in every state of the heap.
THEOREM MemoryInvariant == MemSpec => []Inv
BY InitInv, NextInv, PTL DEF MemSpec

\* On every arena the free list of getmem and freemem stays in the arena, aligned,
\* in address order and fully merged.
THEOREM MemoryListSound == MemSpec => []ListSound
<1>1. Inv => ListSound  BY DEF Inv
<1> QED  BY <1>1, MemoryInvariant, PTL

\* The free and the held blocks partition the arena: getmem never hands a byte out
\* twice and freemem never loses one.
THEOREM MemoryPartition == MemSpec => []Partition
BY InvPartition, MemoryInvariant, PTL

\* mem_free_bytes() is the number of free bytes after any sequence of calls: the
\* cached sum, which is only ever added to and subtracted from, never drifts.
THEOREM MemoryCachedTotal == MemSpec => []CachedTotal
<1>1. mem_init => CachedTotal
  <2> SUFFICES ASSUME mem_init  PROVE CachedTotal  OBVIOUS
  <2>1. Inv  BY InitInv
  <2>2. FreeBytes = Bytes(heap_lo, heap_hi - heap_lo)
    <3>1. live = {}  BY DEF mem_init
    <3>2. UNION {HeldBytes(b) : b \in live} = {}  BY <3>1
    <3>3. FreeBytes \cup UNION {HeldBytes(b) : b \in live} = Bytes(heap_lo, heap_hi - heap_lo)
      BY <2>1, InvPartition DEF Partition
    <3> QED  BY <3>2, <3>3
  <2>3. heap_hi - heap_lo \in Nat \ {0} /\ heap_lo \in Nat  BY Arena
  <2> QED  BY <2>2, <2>3, BlockSize DEF CachedTotal, mem_init
<1>2. Inv /\ Inv' /\ CachedTotal /\ [MemNext]_memvars => CachedTotal'  BY TotalNext
<1> QED  BY <1>1, <1>2, MemoryInvariant, PTL DEF MemSpec

\* freemem takes back every block that is held and refuses whatever is free.
THEOREM MemoryFreesRight == MemSpec => FreesRight
<1> DEFINE A == /\ \A b \in live : freemem(b) => ret' = "ok"
                /\ \A start \in heap_lo .. heap_hi, bytes \in Requests :
                      freemem_again(start, bytes) => ret' = "refused"
<1>1. Inv /\ [MemNext]_memvars => [A]_memvars
  <2> SUFFICES ASSUME Inv  PROVE A  OBVIOUS
  <2>1. ASSUME NEW b \in live, freemem(b)  PROVE ret' = "ok"
    <3>1. Acceptable(b.addr, ROUNDMB(b.bytes))  BY HeldIsAccepted
    <3> QED  BY <2>1, <3>1 DEF freemem, Free, Refuse, Accept
  <2>2. ASSUME NEW start \in heap_lo .. heap_hi, NEW bytes \in Requests,
               freemem_again(start, bytes)
        PROVE  ret' = "refused"
    BY <2>2, AgainRefused DEF Refuse
  <2> QED  BY <2>1, <2>2
<1>2. MemSpec => [][A]_memvars  BY <1>1, MemoryInvariant, PTL DEF MemSpec
<1> QED  BY <1>2 DEF FreesRight
=============================================================================
