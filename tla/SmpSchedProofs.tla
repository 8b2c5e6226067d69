--------------------------- MODULE SmpSchedProofs ---------------------------
(***************************************************************************)
(* The symmetric scheduler never runs a process on two cores, for any      *)
(* number of cores and any set of processes.  The argument: a core holds   *)
(* proc_sched_lock exactly while the process on it is between a ctxsw and  *)
(* the release by the side that resumed (or in one of the other places of  *)
(* Holding), so at most one core switches at a time; a process that is on  *)
(* no core waits at the return of its ctxsw; and the list holds READY      *)
(* processes only, none of which is on a core.                             *)
(***************************************************************************)
EXTENDS SmpSched, FiniteSetTheorems, SequenceTheorems, TLAPS

\* Places in which the process on a core holds proc_sched_lock.
Holding == {"resumed", "tramp", "tramp_unlock", "exit_pop", "ready_held"}

\* Types, and the two views of the process on a core agree.
Types2 ==
    /\ TypeOK
    /\ ret \in [Pid -> {"none", "user", "ready", "exit_pid"}]
    /\ exit_core \in [Proc -> Core] /\ exit_me \in [Proc -> Pid]
    /\ on = curr

\* Which processes can be where.
RoleOf(p) ==
    /\ at[p] = "block" => p = Net
    /\ at[p] = "sleep" => p \in Sleepers
    /\ at[p] \in {"exit_pid", "exit", "exit_pop", "gone"} => p \in Exits
    /\ at[p] \in {"ready", "ready_held"} => p \in Readiers
    /\ at[p] \in {"tramp", "tramp_unlock"} => p \in Fresh
    /\ at[p] \in {"loop", "poll", "wfe"} => p \in IdleProc
    /\ at[p] \in {"tick", "net_wake", "preempt"} => TimerOn /\ on[0] = p /\ ret[p] # "none"
    /\ at[p] = "irq_end" => ret[p] # "none"
    /\ ret[p] # "none" => TimerOn
    /\ ret[p] = "ready" => p \in Readiers
    /\ ret[p] = "exit_pid" => p \in Exits
    /\ at[p] = "net_wake" => state[Net] = "WAIT"
    /\ at[p] = "exit_pid" /\ ~TimerOn => on[exit_core[p]] = p
    /\ at[p] = "exit" => exit_me[p] = p
    /\ state[p] = "SLEEP" => p \in Sleepers

Roles == \A p \in Pid : RoleOf(p)

\* The states of the processes that are on a core and of those that are not.
States ==
    /\ \A c \in Core :
        /\ on[c] \in IdleProc => on[c] = Idle(c)
        /\ at[on[c]] # "gone"
        /\ state[on[c]] = IF at[on[c]] = "sleep" THEN "SLEEP"
                          ELSE IF at[on[c]] = "exit_pop" THEN "FREE" ELSE "CURR"
    /\ \A p \in Pid : ~OnCore(p) =>
        /\ at[p] \in {"resumed", "tramp", "gone"}
        /\ p \in IdleProc => at[p] = "resumed"
        /\ p \in Proc => state[p] # "CURR"
        /\ state[p] = "FREE" <=> at[p] = "gone"
    /\ \A p \in IdleProc : state[p] = "CURR"

\* A core holds the lock exactly in these places, and only one does.
Locked ==
    /\ \A c \in Core : c \in lock <=> at[on[c]] \in Holding
    /\ \A c, d \in lock : c = d

\* The inductive invariant.
IInv == Types2 /\ Roles /\ States /\ Locked /\ OneCore /\ ReadyExact

\* What the scheduler promises.
CoresOK == TypeOK /\ OneCore /\ ReadyExact /\ NoSelfSpin /\ ExitFreesSelf
-----------------------------------------------------------------------------


\* What the constants say of one another.
LEMMA Constants ==
    ASSUME ConstantsOK
    PROVE  /\ 0 \in Core
           /\ \A c \in Core : Idle(c) \in IdleProc /\ Idle(c) \in Pid /\ Idle(c) \notin Proc
           /\ \A c, d \in Core : Idle(c) = Idle(d) => c = d
           /\ \A p \in Pid : p \in IdleProc <=> p \notin Proc
           /\ Proc \subseteq Pid /\ IdleProc \subseteq Pid
           /\ Net \in Proc /\ Net \in Pid /\ Fresh \subseteq Proc /\ Exits \subseteq Proc
           /\ Sleepers \subseteq Proc /\ Readiers \subseteq Proc /\ Susp \subseteq Proc /\ Net \notin Susp
BY DEF ConstantsOK, Core, Idle, IdleProc, Pid

\* The type of what a step reads.
LEMMA Reads ==
    ASSUME ConstantsOK, IInv
    PROVE  \A c \in Core : /\ on[c] \in Pid /\ curr[c] = on[c]
                           /\ ret[on[c]] \in {"none", "user", "ready", "exit_pid"}
                           /\ state[on[c]] \notin {"READY", "WAIT"}
BY Constants DEF IInv, Types2, TypeOK, States

-----------------------------------------------------------------------------
\* Lists without repetition.
Elems(s) == {s[i] : i \in DOMAIN s}
Distinct(s) == \A i, j \in DOMAIN s : s[i] = s[j] => i = j

\* Taking the head off a list leaves the other elements, each once.
LEMMA TailElems ==
    ASSUME NEW S, NEW s \in Seq(S), s # <<>>, Distinct(s)
    PROVE  /\ Head(s) \in S /\ Head(s) \in Elems(s)
           /\ Tail(s) \in Seq(S) /\ Distinct(Tail(s))
           /\ \A e : e \in Elems(Tail(s)) <=> e \in Elems(s) /\ e # Head(s)
<1>1. /\ Head(s) \in S /\ Tail(s) \in Seq(S) /\ Len(Tail(s)) = Len(s) - 1
      /\ \A i \in 1 .. Len(Tail(s)) : Tail(s)[i] = s[i + 1]
    BY HeadTailProperties
<1>2. /\ DOMAIN s = 1 .. Len(s) /\ Len(s) \in Nat /\ Len(s) >= 1 /\ Head(s) = s[1]
      /\ DOMAIN Tail(s) = 1 .. (Len(s) - 1)
    BY <1>1
<1>3. Head(s) \in Elems(s)
    BY <1>2 DEF Elems
<1>4. Distinct(Tail(s))
    BY <1>1, <1>2 DEF Distinct
<1>5. ASSUME NEW e
      PROVE  e \in Elems(Tail(s)) <=> e \in Elems(s) /\ e # Head(s)
  <2>1. ASSUME e \in Elems(Tail(s)) PROVE e \in Elems(s) /\ e # Head(s)
    BY <1>1, <1>2, <2>1 DEF Elems, Distinct
  <2>2. ASSUME e \in Elems(s), e # Head(s) PROVE e \in Elems(Tail(s))
    <3>1. PICK i \in 1 .. Len(s) : s[i] = e
        BY <1>2, <2>2 DEF Elems
    <3>2. i - 1 \in 1 .. (Len(s) - 1) /\ Tail(s)[i - 1] = e
        BY <1>1, <1>2, <2>2, <3>1
    <3> QED  BY <1>2, <3>2 DEF Elems
  <2> QED  BY <2>1, <2>2
<1> QED  BY <1>1, <1>3, <1>4, <1>5

\* Appending a new element adds just that element.
LEMMA AppendElems ==
    ASSUME NEW S, NEW s \in Seq(S), NEW x \in S, Distinct(s), x \notin Elems(s)
    PROVE  /\ Append(s, x) \in Seq(S) /\ Distinct(Append(s, x))
           /\ \A e : e \in Elems(Append(s, x)) <=> e \in Elems(s) \/ e = x
<1>1. /\ Append(s, x) \in Seq(S) /\ Len(Append(s, x)) = Len(s) + 1
      /\ \A i \in 1 .. Len(s) : Append(s, x)[i] = s[i]
      /\ Append(s, x)[Len(s) + 1] = x
    BY AppendProperties
<1>2. /\ DOMAIN s = 1 .. Len(s) /\ Len(s) \in Nat
      /\ DOMAIN Append(s, x) = 1 .. (Len(s) + 1)
    BY <1>1
<1>3. Distinct(Append(s, x))
    BY <1>1, <1>2 DEF Distinct, Elems
<1>4. ASSUME NEW e
      PROVE  e \in Elems(Append(s, x)) <=> e \in Elems(s) \/ e = x
  <2>1. ASSUME e \in Elems(Append(s, x)) PROVE e \in Elems(s) \/ e = x
    BY <1>1, <1>2, <2>1 DEF Elems
  <2>2. ASSUME e \in Elems(s) PROVE e \in Elems(Append(s, x))
    BY <1>1, <1>2, <2>2 DEF Elems
  <2>3. x \in Elems(Append(s, x))
    BY <1>1, <1>2 DEF Elems
  <2> QED  BY <2>1, <2>2, <2>3
<1> QED  BY <1>1, <1>3, <1>4

\* Two lists with nothing in common make one without repetition.
LEMMA ConcatElems ==
    ASSUME NEW S, NEW s \in Seq(S), NEW t \in Seq(S), Distinct(s), Distinct(t),
           \A e \in Elems(t) : e \notin Elems(s)
    PROVE  /\ s \o t \in Seq(S) /\ Distinct(s \o t)
           /\ \A e : e \in Elems(s \o t) <=> e \in Elems(s) \/ e \in Elems(t)
<1>1. /\ s \o t \in Seq(S) /\ Len(s \o t) = Len(s) + Len(t)
      /\ \A i \in 1 .. Len(s) + Len(t) : (s \o t)[i] = IF i <= Len(s) THEN s[i] ELSE t[i - Len(s)]
    BY ConcatProperties
<1>2. /\ DOMAIN s = 1 .. Len(s) /\ Len(s) \in Nat /\ DOMAIN t = 1 .. Len(t) /\ Len(t) \in Nat
      /\ DOMAIN (s \o t) = 1 .. (Len(s) + Len(t))
    BY <1>1
<1>3. \A i \in 1 .. Len(s) : s[i] \in Elems(s)
    BY <1>2 DEF Elems
<1>4. \A i \in 1 .. Len(t) : t[i] \in Elems(t)
    BY <1>2 DEF Elems
<1> DEFINE u == s \o t
<1>5. ASSUME NEW i \in 1 .. (Len(s) + Len(t)), NEW j \in 1 .. (Len(s) + Len(t)), u[i] = u[j]
      PROVE  i = j
  <2>1. CASE i <= Len(s) /\ j <= Len(s)
    BY <1>1, <1>2, <1>5, <2>1 DEF Distinct
  <2>2. CASE i > Len(s) /\ j > Len(s)
    <3>1. i - Len(s) \in 1 .. Len(t) /\ j - Len(s) \in 1 .. Len(t) /\ t[i - Len(s)] = t[j - Len(s)]
        BY <1>1, <1>2, <1>5, <2>2
    <3> QED  BY <1>2, <3>1 DEF Distinct
  <2>3. CASE i <= Len(s) /\ j > Len(s)
    <3>1. i \in 1 .. Len(s) /\ j - Len(s) \in 1 .. Len(t) /\ s[i] = t[j - Len(s)]
        BY <1>1, <1>2, <1>5, <2>3
    <3> QED  BY <1>3, <1>4, <3>1
  <2>4. CASE i > Len(s) /\ j <= Len(s)
    <3>1. j \in 1 .. Len(s) /\ i - Len(s) \in 1 .. Len(t) /\ s[j] = t[i - Len(s)]
        BY <1>1, <1>2, <1>5, <2>4
    <3> QED  BY <1>3, <1>4, <3>1
  <2> QED  BY <1>2, <2>1, <2>2, <2>3, <2>4
<1>6. ASSUME NEW e PROVE e \in Elems(u) <=> e \in Elems(s) \/ e \in Elems(t)
  <2>1. ASSUME e \in Elems(u) PROVE e \in Elems(s) \/ e \in Elems(t)
    <3>1. PICK i \in 1 .. (Len(s) + Len(t)) : u[i] = e
        BY <1>2, <2>1 DEF Elems
    <3>2. CASE i <= Len(s)
        BY <1>1, <1>2, <1>3, <3>1, <3>2
    <3>3. CASE i > Len(s)
      <4>1. i - Len(s) \in 1 .. Len(t) /\ t[i - Len(s)] = e
        BY <1>1, <1>2, <3>1, <3>3
      <4> QED  BY <1>4, <4>1
    <3> QED  BY <1>2, <3>2, <3>3
  <2>2. ASSUME e \in Elems(s) PROVE e \in Elems(u)
    <3>1. PICK i \in 1 .. Len(s) : s[i] = e
        BY <1>2, <2>2 DEF Elems
    <3>2. i \in DOMAIN u /\ u[i] = e
        BY <1>1, <1>2, <3>1
    <3> QED  BY <3>2 DEF Elems
  <2>3. ASSUME e \in Elems(t) PROVE e \in Elems(u)
    <3>1. PICK i \in 1 .. Len(t) : t[i] = e
        BY <1>2, <2>3 DEF Elems
    <3>2. i + Len(s) \in DOMAIN u /\ i + Len(s) - Len(s) = i /\ ~(i + Len(s) <= Len(s))
        BY <1>2
    <3>3. u[i + Len(s)] = e
        BY <1>1, <1>2, <3>1, <3>2
    <3> QED  BY <3>2, <3>3 DEF Elems
  <2> QED  BY <2>1, <2>2, <2>3
<1>7. Distinct(u)
    BY <1>2, <1>5 DEF Distinct
<1> QED  BY <1>1, <1>6, <1>7

\* ReadyExact in terms of the elements of the list.
LEMMA ReadyForm ==
    ReadyExact <=> /\ Distinct(ready)
                   /\ \A p \in Proc : p \in Elems(ready) <=> state[p] = "READY"
BY DEF ReadyExact, Distinct, Elems

\* The same after a step.
LEMMA ReadyFormNext ==
    ReadyExact' <=> /\ Distinct(ready')
                    /\ \A p \in Proc : p \in Elems(ready') <=> state'[p] = "READY"
BY DEF ReadyExact, Distinct, Elems

\* The head of the list can be switched to.
LEMMA HeadReady ==
    ASSUME ConstantsOK, IInv, ready # <<>>
    PROVE  /\ Head(ready) \in Proc /\ state[Head(ready)] = "READY" /\ ~OnCore(Head(ready))
           /\ Tail(ready) \in Seq(Proc) /\ Distinct(Tail(ready))
           /\ \A p \in Proc : p \in Elems(Tail(ready)) <=>
                                 state[p] = "READY" /\ p # Head(ready)
<1>1. Distinct(ready) /\ \A p \in Proc : p \in Elems(ready) <=> state[p] = "READY"
    BY ReadyForm DEF IInv
<1>2. ready \in Seq(Proc)
    BY DEF IInv, Types2, TypeOK
<1>3. /\ Head(ready) \in Proc /\ Head(ready) \in Elems(ready)
      /\ Tail(ready) \in Seq(Proc) /\ Distinct(Tail(ready))
      /\ \A e : e \in Elems(Tail(ready)) <=> e \in Elems(ready) /\ e # Head(ready)
    BY <1>1, <1>2, TailElems
<1>4. ~OnCore(Head(ready))
    BY <1>1, <1>3, Reads DEF OnCore
<1> QED  BY <1>1, <1>3, <1>4

\* What Chosen and Rest give to a process that leaves its core.
LEMMA ChosenReady ==
    ASSUME ConstantsOK, IInv, NEW c \in Core, on[c] \in Proc
    PROVE  /\ Chosen(c) \in Pid /\ ~OnCore(Chosen(c))
           /\ Chosen(c) \in Proc => state[Chosen(c)] = "READY"
           /\ Chosen(c) \in IdleProc => Chosen(c) = Idle(c)
           /\ Rest \in Seq(Proc) /\ Distinct(Rest)
           /\ \A p \in Proc : p \in Elems(Rest) <=> state[p] = "READY" /\ p # Chosen(c)
<1>1. CASE ready # <<>>
    BY <1>1, HeadReady, Constants DEF Chosen, Rest
<1>2. CASE ready = <<>>
  <2>1. Elems(ready) = {} /\ Distinct(ready)
    BY <1>2 DEF Elems, Distinct
  <2>2. \A p \in Proc : state[p] # "READY"
    BY <2>1, ReadyForm DEF IInv
  <2>3. ~OnCore(Idle(c))
    BY Constants DEF IInv, States, OnCore
  <2> QED  BY <1>2, <2>1, <2>2, <2>3, Constants DEF Chosen, Rest
<1> QED  BY <1>1, <1>2

-----------------------------------------------------------------------------
\* Core c goes from its process, which it leaves in state st and at `place`, to
\* new: the lock was free or its own, new is on no core, and the process it
\* leaves is not runnable until it is listed again.
Switches(c, new, place, st) ==
    /\ SwitchTo(c, new, place) /\ UNCHANGED <<ret, exitVars, event>>
    /\ lock \subseteq {c}
    /\ new \in Pid /\ ~OnCore(new)
    /\ new \in Proc => state[new] = "READY"
    /\ new \in IdleProc => new = Idle(c)
    /\ place \in {"resumed", "gone"} /\ st \in {"READY", "CURR", "WAIT", "SLEEP", "FREE"}
    /\ st = "FREE" <=> place = "gone"
    /\ on[c] \in Proc <=> st # "CURR"
    /\ st = "SLEEP" => on[c] \in Sleepers
    /\ place = "gone" => on[c] \in Exits
    /\ state' \in [Pid -> {"FREE", "READY", "CURR", "WAIT", "SLEEP"}]
    /\ \A p \in Pid : state'[p] = IF p = new THEN "CURR"
                                  ELSE IF p = on[c] THEN st ELSE state[p]
    /\ ready' \in Seq(Proc) /\ Distinct(ready')
    /\ \A p \in Proc : p \in Elems(ready') <=> state'[p] = "READY"

\* Such a switch preserves the invariant.
LEMMA SwitchInv ==
    ASSUME ConstantsOK, IInv, NEW c \in Core, NEW new, NEW place, NEW st, Switches(c, new, place, st)
    PROVE  IInv'
<1>a. /\ on[c] \in Pid /\ \A k \in Core : on[k] \in Pid
      /\ \A k \in Core : on'[k] = IF k = c THEN new ELSE on[k]
      /\ \A p \in Pid : at'[p] = IF p = on[c] THEN place ELSE at[p]
      /\ lock' = lock \cup {c} /\ lock' = {c} /\ event' = event
      /\ ret' = ret /\ exit_core' = exit_core /\ exit_me' = exit_me
    BY DEF Switches, SwitchTo, IInv, Types2, TypeOK, exitVars
<1>s. /\ new \in Pid /\ ~OnCore(new)
      /\ new \in Proc => state[new] = "READY"
      /\ new \in IdleProc => new = Idle(c)
      /\ place \in {"resumed", "gone"}
      /\ st = "FREE" <=> place = "gone"
      /\ on[c] \in Proc <=> st # "CURR"
      /\ st = "SLEEP" => on[c] \in Sleepers
      /\ place = "gone" => on[c] \in Exits
      /\ \A p \in Pid : state'[p] = IF p = new THEN "CURR"
                                    ELSE IF p = on[c] THEN st ELSE state[p]
    BY DEF Switches
<1>t. /\ state' \in [Pid -> {"FREE", "READY", "CURR", "WAIT", "SLEEP"}]
      /\ ready' \in Seq(Proc) /\ lock \subseteq {c}
    BY DEF Switches
<1>b. new # on[c] /\ at[new] \in {"resumed", "tramp"}
    BY <1>s, Constants DEF OnCore, IInv, States
<1>1. Types2'
  <2>1. on' = curr' /\ on' \in [Core -> Pid] /\ lock' \subseteq Core
    BY <1>s, <1>a DEF IInv, Types2, TypeOK, Switches, SwitchTo
  <2>2. at' \in [Pid -> Spinning \cup Unmasked
                    \cup {"resumed", "tramp", "exit_pop", "irq_end", "preempt", "wfe", "gone"}]
    BY <1>s, <1>a DEF IInv, Types2, TypeOK, Switches, SwitchTo
  <2> QED  BY <1>t, <1>a, <2>1, <2>2 DEF IInv, Types2, TypeOK
<1>2. Roles'
  <2>1. ASSUME NEW p \in Pid, p # on[c]
        PROVE  /\ at'[p] = at[p] /\ on'[0] = p <=> on[0] = p \/ (c = 0 /\ p = new)
               /\ at[p] = "exit_pid" /\ ~TimerOn => exit_core[p] \in Core /\ on'[exit_core[p]] = p
               /\ p # new => state'[p] = state[p]
    BY <1>s, <1>a, <2>1, Constants DEF IInv, Roles, RoleOf, Types2
  <2>2. state[Net] = "WAIT" => state'[Net] = "WAIT"
    BY <1>s, Constants, Reads
  <2>5. ASSUME NEW p \in Pid, p # on[c], p # new PROVE RoleOf(p)'
    BY <1>s, <1>a, <2>1, <2>2, <2>5 DEF IInv, Roles, RoleOf
  <2>6. RoleOf(new)'
    BY <1>s, <1>a, <1>b, <2>1, <2>2, Constants DEF IInv, Roles, RoleOf
  <2>7. ASSUME NEW p \in Pid, p = on[c] PROVE RoleOf(p)'
    BY <1>s, <2>7, <1>a, <1>b, Constants DEF IInv, Roles, RoleOf
  <2> QED  BY <2>5, <2>6, <2>7 DEF Roles
<1>o. OneCore'
    BY <1>s, <1>a DEF IInv, OneCore, OnCore
<1>3. States'
  <2>1. ASSUME NEW k \in Core
        PROVE  /\ on'[k] \in IdleProc => on'[k] = Idle(k)
               /\ at'[on'[k]] # "gone"
               /\ state'[on'[k]] = IF at'[on'[k]] = "sleep" THEN "SLEEP"
                                   ELSE IF at'[on'[k]] = "exit_pop" THEN "FREE" ELSE "CURR"
    BY <1>s, <1>a, <1>b DEF IInv, States, OneCore
  <2>2. ASSUME NEW p \in Pid, ~(\E k \in Core : on'[k] = p)
        PROVE  /\ at'[p] \in {"resumed", "tramp", "gone"}
               /\ p \in IdleProc => at'[p] = "resumed"
               /\ p \in Proc => state'[p] # "CURR"
               /\ state'[p] = "FREE" <=> at'[p] = "gone"
    <3>1. p = on[c] \/ ~OnCore(p)
        BY <1>s, <1>a, <2>2 DEF OnCore
    <3>2. p # new
        BY <1>s, <1>a, <2>2
    <3> QED  BY <1>s, <1>a, <3>1, <3>2, Constants DEF IInv, States
  <2>3. \A p \in IdleProc : state'[p] = "CURR"
    BY <1>s, <1>a, Constants DEF IInv, States
  <2> QED  BY <2>1, <2>2, <2>3 DEF States, OnCore
<1>4. Locked'
  <2>1. ASSUME NEW k \in Core, k # c PROVE at'[on'[k]] \notin Holding
    BY <1>t, <1>s, <1>a, <2>1 DEF IInv, Locked, OneCore
  <2>2. at'[on'[c]] \in Holding
    BY <1>s, <1>a, <1>b DEF Holding
  <2> QED  BY <1>s, <1>a, <2>1, <2>2 DEF Locked
<1>5. ReadyExact'
    BY ReadyFormNext DEF Switches
<1> QED  BY <1>1, <1>2, <1>3, <1>4, <1>5, <1>o DEF IInv

-----------------------------------------------------------------------------
\* One lemma per action that does not switch.

\* call_resched preserves the invariant.
LEMMA CallResched ==
    ASSUME ConstantsOK, IInv, NEW c \in Core, call_resched(c)
    PROVE  IInv'
<1>a. /\ at[on[c]] = "user"
      /\ \A p \in Pid : at'[p] = IF p = on[c] THEN "resched" ELSE at[p]
      /\ \A d \in Core : on[d] \in Pid
    BY Constants, Reads DEF call_resched, Here, Go, IInv, Types2, TypeOK
<1>u. /\ state' = state /\ ready' = ready /\ curr' = curr /\ on' = on
      /\ ret' = ret /\ lock' = lock /\ exit_core' = exit_core /\ exit_me' = exit_me /\ event' = event
    BY DEF call_resched, exitVars
<1>1. Types2'
    BY <1>a, <1>u, Constants DEF IInv, Types2, TypeOK, call_resched, Go, Spinning, Unmasked
<1>2. Roles'
    BY <1>a, <1>u, Constants, Reads DEF IInv, Roles, RoleOf, States, OneCore
<1>3. States'
    BY <1>a, <1>u, Constants DEF IInv, States, OneCore, OnCore, Roles, RoleOf
<1>4. Locked'
    BY <1>a, <1>u, Constants DEF IInv, Locked, Holding, OneCore, CanLock
<1>5. OneCore'
    BY <1>u DEF IInv, OneCore
<1>6. ReadyExact'
    BY <1>u DEF IInv, ReadyExact
<1> QED  BY <1>1, <1>2, <1>3, <1>4, <1>5, <1>6 DEF IInv

\* call_block preserves the invariant.
LEMMA CallBlock ==
    ASSUME ConstantsOK, IInv, NEW c \in Core, call_block(c)
    PROVE  IInv'
<1>a. /\ at[on[c]] = "user" /\ on[c] = Net
      /\ \A p \in Pid : at'[p] = IF p = on[c] THEN "block" ELSE at[p]
      /\ \A d \in Core : on[d] \in Pid
    BY Constants, Reads DEF call_block, Here, Go, IInv, Types2, TypeOK
<1>u. /\ state' = state /\ ready' = ready /\ curr' = curr /\ on' = on
      /\ ret' = ret /\ lock' = lock /\ exit_core' = exit_core /\ exit_me' = exit_me /\ event' = event
    BY DEF call_block, exitVars
<1>1. Types2'
    BY <1>a, <1>u, Constants DEF IInv, Types2, TypeOK, call_block, Go, Spinning, Unmasked
<1>2. Roles'
    BY <1>a, <1>u, Constants, Reads DEF IInv, Roles, RoleOf, States, OneCore
<1>3. States'
    BY <1>a, <1>u, Constants DEF IInv, States, OneCore, OnCore, Roles, RoleOf
<1>4. Locked'
    BY <1>a, <1>u, Constants DEF IInv, Locked, Holding, OneCore, CanLock
<1>5. OneCore'
    BY <1>u DEF IInv, OneCore
<1>6. ReadyExact'
    BY <1>u DEF IInv, ReadyExact
<1> QED  BY <1>1, <1>2, <1>3, <1>4, <1>5, <1>6 DEF IInv

\* call_sleep preserves the invariant.
LEMMA CallSleep ==
    ASSUME ConstantsOK, IInv, NEW c \in Core, call_sleep(c)
    PROVE  IInv'
<1>a. /\ at[on[c]] = "user" /\ on[c] \in Sleepers
      /\ \A p \in Pid : at'[p] = IF p = on[c] THEN "sleep" ELSE at[p]
      /\ \A d \in Core : on[d] \in Pid
      /\ \A p \in Pid : state'[p] = IF p = on[c] THEN "SLEEP" ELSE state[p]
    BY Constants, Reads DEF call_sleep, Here, Go, IInv, Types2, TypeOK
<1>u. /\ ready' = ready /\ curr' = curr /\ on' = on /\ ret' = ret
      /\ lock' = lock /\ exit_core' = exit_core /\ exit_me' = exit_me /\ event' = event
    BY DEF call_sleep, exitVars
<1>1. Types2'
    BY <1>a, <1>u, Constants DEF IInv, Types2, TypeOK, call_sleep, Go, Spinning, Unmasked
<1>2. Roles'
    BY <1>a, <1>u, Constants, Reads DEF IInv, Roles, RoleOf, States, OneCore
<1>3. States'
    BY <1>a, <1>u, Constants DEF IInv, States, OneCore, OnCore, Roles, RoleOf
<1>4. Locked'
    BY <1>a, <1>u, Constants DEF IInv, Locked, Holding, OneCore, CanLock
<1>5. OneCore'
    BY <1>u DEF IInv, OneCore
<1>6. ReadyExact'
    BY <1>a, <1>u, Constants, Reads DEF IInv, ReadyExact
<1> QED  BY <1>1, <1>2, <1>3, <1>4, <1>5, <1>6 DEF IInv

\* exit_begin preserves the invariant.
LEMMA ExitBegin ==
    ASSUME ConstantsOK, IInv, NEW c \in Core, exit_begin(c)
    PROVE  IInv'
<1>a. /\ at[on[c]] = "user" /\ on[c] \in Exits
      /\ \A p \in Pid : at'[p] = IF p = on[c] THEN "exit_pid" ELSE at[p]
      /\ \A d \in Core : on[d] \in Pid
      /\ \A p \in Proc : exit_core'[p] = IF p = on[c] THEN c ELSE exit_core[p]
    BY Constants, Reads DEF exit_begin, Here, Go, IInv, Types2, TypeOK
<1>u. /\ state' = state /\ ready' = ready /\ curr' = curr /\ on' = on
      /\ ret' = ret /\ lock' = lock /\ exit_me' = exit_me /\ event' = event
    BY DEF exit_begin, exitVars
<1>1. Types2'
    BY <1>a, <1>u, Constants DEF IInv, Types2, TypeOK, exit_begin, Go, Spinning, Unmasked
<1>2. Roles'
    BY <1>a, <1>u, Constants, Reads DEF IInv, Roles, RoleOf, States, OneCore
<1>3. States'
    BY <1>a, <1>u, Constants DEF IInv, States, OneCore, OnCore, Roles, RoleOf
<1>4. Locked'
    BY <1>a, <1>u, Constants DEF IInv, Locked, Holding, OneCore, CanLock
<1>5. OneCore'
    BY <1>u DEF IInv, OneCore
<1>6. ReadyExact'
    BY <1>u DEF IInv, ReadyExact
<1> QED  BY <1>1, <1>2, <1>3, <1>4, <1>5, <1>6 DEF IInv

\* exit_pid preserves the invariant.
LEMMA ExitPid ==
    ASSUME ConstantsOK, IInv, NEW c \in Core, exit_pid(c), ~raced'
    PROVE  IInv'
<1>a. /\ at[on[c]] = "exit_pid"
      /\ \A p \in Pid : at'[p] = IF p = on[c] THEN "exit" ELSE at[p]
      /\ \A d \in Core : on[d] \in Pid
      /\ on[c] \in Exits /\ curr[exit_core[on[c]]] = on[c]
      /\ \A p \in Proc : exit_me'[p] = IF p = on[c] THEN on[c] ELSE exit_me[p]
  <2>1. at[on[c]] = "exit_pid" /\ at' = [at EXCEPT ![on[c]] = "exit"] /\ curr[exit_core[on[c]]] = on[c]
    BY DEF exit_pid, Here, Go
  <2>2. on[c] \in Pid /\ on[c] \in Exits /\ \A d \in Core : on[d] \in Pid
    BY <2>1, Constants, Reads DEF IInv, Roles, RoleOf
  <2>3. exit_me' = [exit_me EXCEPT ![on[c]] = on[c]]
    BY <2>1 DEF exit_pid
  <2> QED  BY <2>1, <2>2, <2>3 DEF IInv, Types2, TypeOK
<1>u. /\ state' = state /\ ready' = ready /\ curr' = curr /\ on' = on
      /\ ret' = ret /\ lock' = lock /\ exit_core' = exit_core /\ event' = event
    BY DEF exit_pid, exitVars
<1>1. Types2'
    BY <1>a, <1>u, Constants
       DEF IInv, Types2, TypeOK, exit_pid, Go, Spinning, Unmasked, Roles, RoleOf
<1>2. Roles'
    BY <1>a, <1>u, Constants, Reads DEF IInv, Roles, RoleOf, States, OneCore
<1>3. States'
    BY <1>a, <1>u, Constants DEF IInv, States, OneCore, OnCore, Roles, RoleOf
<1>4. Locked'
    BY <1>a, <1>u, Constants DEF IInv, Locked, Holding, OneCore, CanLock
<1>5. OneCore'
    BY <1>u DEF IInv, OneCore
<1>6. ReadyExact'
    BY <1>u DEF IInv, ReadyExact
<1> QED  BY <1>1, <1>2, <1>3, <1>4, <1>5, <1>6 DEF IInv

\* exit_free preserves the invariant.
LEMMA ExitFree ==
    ASSUME ConstantsOK, IInv, NEW c \in Core, exit_free(c)
    PROVE  IInv'
<1>a. /\ at[on[c]] = "exit" /\ CanLock(c) /\ on[c] \in Exits
      /\ \A p \in Pid : at'[p] = IF p = on[c] THEN "exit_pop" ELSE at[p]
      /\ \A d \in Core : on[d] \in Pid
      /\ lock' = lock \cup {c}
      /\ \A p \in Pid : state'[p] = IF p = on[c] THEN "FREE" ELSE state[p]
    BY Constants, Reads DEF exit_free, Here, Go, IInv, Types2, TypeOK, Roles, RoleOf
<1>u. /\ ready' = ready /\ curr' = curr /\ on' = on /\ ret' = ret
      /\ exit_core' = exit_core /\ exit_me' = exit_me
    BY DEF exit_free, exitVars
<1>1. Types2'
    BY <1>a, <1>u, Constants
       DEF IInv, Types2, TypeOK, exit_free, Go, Spinning, Unmasked, Roles, RoleOf
<1>2. Roles'
    BY <1>a, <1>u, Constants, Reads DEF IInv, Roles, RoleOf, States, OneCore
<1>3. States'
    BY <1>a, <1>u, Constants DEF IInv, States, OneCore, OnCore, Roles, RoleOf
<1>4. Locked'
    BY <1>a, <1>u, Constants DEF IInv, Locked, Holding, OneCore, CanLock
<1>5. OneCore'
    BY <1>u DEF IInv, OneCore
<1>6. ReadyExact'
    BY <1>a, <1>u, Constants, Reads DEF IInv, ReadyExact
<1> QED  BY <1>1, <1>2, <1>3, <1>4, <1>5, <1>6 DEF IInv

\* tramp preserves the invariant.
LEMMA Tramp ==
    ASSUME ConstantsOK, IInv, NEW c \in Core, tramp(c)
    PROVE  IInv'
<1>a. /\ at[on[c]] = "tramp"
      /\ \A p \in Pid : at'[p] = IF p = on[c] THEN "tramp_unlock" ELSE at[p]
      /\ \A d \in Core : on[d] \in Pid
    BY Constants, Reads DEF tramp, Here, Go, IInv, Types2, TypeOK
<1>u. /\ state' = state /\ ready' = ready /\ curr' = curr /\ on' = on
      /\ ret' = ret /\ lock' = lock /\ exit_core' = exit_core /\ exit_me' = exit_me /\ event' = event
    BY DEF tramp, exitVars
<1>1. Types2'
    BY <1>a, <1>u, Constants DEF IInv, Types2, TypeOK, tramp, Go, Spinning, Unmasked
<1>2. Roles'
    BY <1>a, <1>u, Constants, Reads DEF IInv, Roles, RoleOf, States, OneCore
<1>3. States'
    BY <1>a, <1>u, Constants DEF IInv, States, OneCore, OnCore, Roles, RoleOf
<1>4. Locked'
    BY <1>a, <1>u, Constants DEF IInv, Locked, Holding, OneCore, CanLock
<1>5. OneCore'
    BY <1>u DEF IInv, OneCore
<1>6. ReadyExact'
    BY <1>u DEF IInv, ReadyExact
<1> QED  BY <1>1, <1>2, <1>3, <1>4, <1>5, <1>6 DEF IInv

\* call_ready preserves the invariant.
LEMMA CallReady ==
    ASSUME ConstantsOK, IInv, NEW c \in Core, call_ready(c)
    PROVE  IInv'
<1>a. /\ at[on[c]] = "user" /\ on[c] \in Readiers
      /\ \A p \in Pid : at'[p] = IF p = on[c] THEN "ready" ELSE at[p]
      /\ \A d \in Core : on[d] \in Pid
    BY Constants, Reads DEF call_ready, Here, Go, IInv, Types2, TypeOK
<1>u. /\ state' = state /\ ready' = ready /\ curr' = curr /\ on' = on
      /\ ret' = ret /\ lock' = lock /\ exit_core' = exit_core /\ exit_me' = exit_me /\ event' = event
    BY DEF call_ready, exitVars
<1>1. Types2'
    BY <1>a, <1>u, Constants DEF IInv, Types2, TypeOK, call_ready, Go, Spinning, Unmasked
<1>2. Roles'
    BY <1>a, <1>u, Constants, Reads DEF IInv, Roles, RoleOf, States, OneCore
<1>3. States'
    BY <1>a, <1>u, Constants DEF IInv, States, OneCore, OnCore, Roles, RoleOf
<1>4. Locked'
    BY <1>a, <1>u, Constants DEF IInv, Locked, Holding, OneCore, CanLock
<1>5. OneCore'
    BY <1>u DEF IInv, OneCore
<1>6. ReadyExact'
    BY <1>u DEF IInv, ReadyExact
<1> QED  BY <1>1, <1>2, <1>3, <1>4, <1>5, <1>6 DEF IInv

\* ready_enter preserves the invariant.
LEMMA ReadyEnter ==
    ASSUME ConstantsOK, IInv, NEW c \in Core, ready_enter(c)
    PROVE  IInv'
<1>a. /\ at[on[c]] = "ready" /\ CanLock(c)
      /\ \A p \in Pid : at'[p] = IF p = on[c] THEN "ready_held" ELSE at[p]
      /\ \A d \in Core : on[d] \in Pid
      /\ lock' = lock \cup {c}
    BY Constants, Reads DEF ready_enter, Here, Go, IInv, Types2, TypeOK
<1>u. /\ state' = state /\ ready' = ready /\ curr' = curr /\ on' = on
      /\ ret' = ret /\ exit_core' = exit_core /\ exit_me' = exit_me /\ event' = event
    BY DEF ready_enter, exitVars
<1>1. Types2'
    BY <1>a, <1>u, Constants DEF IInv, Types2, TypeOK, ready_enter, Go, Spinning, Unmasked
<1>2. Roles'
    BY <1>a, <1>u, Constants, Reads DEF IInv, Roles, RoleOf, States, OneCore
<1>3. States'
    BY <1>a, <1>u, Constants DEF IInv, States, OneCore, OnCore, Roles, RoleOf
<1>4. Locked'
    BY <1>a, <1>u, Constants DEF IInv, Locked, Holding, OneCore, CanLock
<1>5. OneCore'
    BY <1>u DEF IInv, OneCore
<1>6. ReadyExact'
    BY <1>u DEF IInv, ReadyExact
<1> QED  BY <1>1, <1>2, <1>3, <1>4, <1>5, <1>6 DEF IInv

\* resumed preserves the invariant.
LEMMA Resumed ==
    ASSUME ConstantsOK, IInv, NEW c \in Core, resumed(c)
    PROVE  IInv'
<1>a. /\ at[on[c]] = "resumed"
      /\ \A p \in Pid : at'[p] = IF p = on[c]
                                 THEN (IF on[c] \in IdleProc \ {Idle(0)} THEN "loop"
                                       ELSE IF ret[on[c]] # "none" THEN "irq_end" ELSE "user")
                                 ELSE at[p]
      /\ \A d \in Core : on[d] \in Pid
      /\ lock' = lock \ {c}
    BY Constants, Reads DEF resumed, Here, Go, IInv, Types2, TypeOK, Resume
<1>u. /\ state' = state /\ ready' = ready /\ curr' = curr /\ on' = on
      /\ ret' = ret /\ exit_core' = exit_core /\ exit_me' = exit_me /\ event' = event
    BY DEF resumed, exitVars
<1>1. Types2'
    BY <1>a, <1>u, Constants DEF IInv, Types2, TypeOK, resumed, Go, Spinning, Unmasked, Resume
<1>2. Roles'
    BY <1>a, <1>u, Constants, Reads DEF IInv, Roles, RoleOf, States, OneCore
<1>3. States'
    BY <1>a, <1>u, Constants DEF IInv, States, OneCore, OnCore, Roles, RoleOf
<1>4. Locked'
    BY <1>a, <1>u, Constants DEF IInv, Locked, Holding, OneCore, CanLock
<1>5. OneCore'
    BY <1>u DEF IInv, OneCore
<1>6. ReadyExact'
    BY <1>u DEF IInv, ReadyExact
<1> QED  BY <1>1, <1>2, <1>3, <1>4, <1>5, <1>6 DEF IInv

\* smpsched_after_switch preserves the invariant.
LEMMA AfterSwitch ==
    ASSUME ConstantsOK, IInv, NEW c \in Core, smpsched_after_switch(c)
    PROVE  IInv'
<1>a. /\ at[on[c]] = "tramp_unlock"
      /\ \A p \in Pid : at'[p] = IF p = on[c] THEN "user" ELSE at[p]
      /\ \A d \in Core : on[d] \in Pid
      /\ lock' = lock \ {c}
    BY Constants, Reads DEF smpsched_after_switch, Here, Go, IInv, Types2, TypeOK
<1>u. /\ state' = state /\ ready' = ready /\ curr' = curr /\ on' = on
      /\ ret' = ret /\ exit_core' = exit_core /\ exit_me' = exit_me /\ event' = event
    BY DEF smpsched_after_switch, exitVars
<1>1. Types2'
    BY <1>a, <1>u, Constants
       DEF IInv, Types2, TypeOK, smpsched_after_switch, Go, Spinning, Unmasked
<1>2. Roles'
    BY <1>a, <1>u, Constants, Reads DEF IInv, Roles, RoleOf, States, OneCore
<1>3. States'
    BY <1>a, <1>u, Constants DEF IInv, States, OneCore, OnCore, Roles, RoleOf
<1>4. Locked'
    BY <1>a, <1>u, Constants DEF IInv, Locked, Holding, OneCore, CanLock
<1>5. OneCore'
    BY <1>u DEF IInv, OneCore
<1>6. ReadyExact'
    BY <1>u DEF IInv, ReadyExact
<1> QED  BY <1>1, <1>2, <1>3, <1>4, <1>5, <1>6 DEF IInv

\* Stay preserves the invariant.
LEMMA StayInv ==
    ASSUME ConstantsOK, IInv, NEW c \in Core, Stay(c),
           at[on[c]] \in {"resched", "poll", "loop"}, UNCHANGED <<state, ready, ret, exitVars, event>>
    PROVE  IInv'
<1>a. /\ at[on[c]] \notin Holding \cup {"sleep"}
      /\ \A p \in Pid : at'[p] = IF p = on[c]
                                 THEN (IF on[c] \in IdleProc \ {Idle(0)} THEN "wfe"
                                       ELSE IF ret[on[c]] # "none" THEN "irq_end" ELSE "user")
                                 ELSE at[p]
      /\ \A d \in Core : on[d] \in Pid
    BY Constants, Reads DEF Stay, Here, Go, IInv, Types2, TypeOK, Resume, Stay, Holding
<1>u. /\ state' = state /\ ready' = ready /\ curr' = curr /\ on' = on
      /\ ret' = ret /\ lock' = lock /\ exit_core' = exit_core /\ exit_me' = exit_me /\ event' = event
    BY DEF Stay, exitVars, Stay
<1>1. Types2'
    BY <1>a, <1>u, Constants
       DEF IInv, Types2, TypeOK, Stay, Go, Spinning, Unmasked, Resume, Stay, Holding
<1>2. Roles'
    BY <1>a, <1>u, Constants, Reads DEF IInv, Roles, RoleOf, States, OneCore
<1>3. States'
    BY <1>a, <1>u, Constants DEF IInv, States, OneCore, OnCore, Roles, RoleOf
<1>4. Locked'
    BY <1>a, <1>u, Constants DEF IInv, Locked, Holding, OneCore, CanLock
<1>5. OneCore'
    BY <1>u DEF IInv, OneCore
<1>6. ReadyExact'
    BY <1>u DEF IInv, ReadyExact
<1> QED  BY <1>1, <1>2, <1>3, <1>4, <1>5, <1>6 DEF IInv

\* timer_irq preserves the invariant.
LEMMA TimerIrq ==
    ASSUME ConstantsOK, IInv, timer_irq, ~raced'
    PROVE  IInv'
<1>a. /\ TimerOn /\ at[on[0]] \in {"user", "ready", "exit_pid"} /\ ret[on[0]] = "none" /\ 0 \in Core
      /\ \A p \in Pid : at'[p] = IF p = on[0] THEN "tick" ELSE at[p]
      /\ \A d \in Core : on[d] \in Pid
      /\ \A p \in Pid : ret'[p] = IF p = on[0] THEN at[p] ELSE ret[p]
  <2>1. 0 \notin lock /\ at[on[0]] \in Unmasked /\ ret[on[0]] = "none" /\ 0 \in Core
    BY Constants DEF timer_irq
  <2>2. at[on[0]] \notin Holding
    BY <2>1 DEF IInv, Locked
  <2> QED  BY <2>1, <2>2, Constants, Reads DEF timer_irq, Go, IInv, Types2, TypeOK, Unmasked, Holding
<1>u. /\ state' = state /\ ready' = ready /\ curr' = curr /\ on' = on
      /\ lock' = lock /\ exit_core' = exit_core /\ exit_me' = exit_me /\ event' = event
    BY DEF timer_irq, exitVars
<1>1. Types2'
    BY <1>a, <1>u, Constants
       DEF IInv, Types2, TypeOK, timer_irq, Go, Spinning, Unmasked, Unmasked, States, Roles,
           RoleOf
<1>2. Roles'
    BY <1>a, <1>u, Constants, Reads DEF IInv, Roles, RoleOf, States, OneCore
<1>3. States'
    BY <1>a, <1>u, Constants DEF IInv, States, OneCore, OnCore, Roles, RoleOf
<1>4. Locked'
    BY <1>a, <1>u, Constants DEF IInv, Locked, Holding, OneCore, CanLock
<1>5. OneCore'
    BY <1>u DEF IInv, OneCore
<1>6. ReadyExact'
    BY <1>u DEF IInv, ReadyExact
<1> QED  BY <1>1, <1>2, <1>3, <1>4, <1>5, <1>6 DEF IInv

\* proc_preempt preserves the invariant.
LEMMA Preempt ==
    ASSUME ConstantsOK, IInv, proc_preempt
    PROVE  IInv'
<1>a. /\ at[on[0]] = "preempt"
      /\ \E g \in {"poll", "resched", "irq_end"} :
            /\ g = "poll" <=> on[0] \in IdleProc
            /\ \A p \in Pid : at'[p] = IF p = on[0] THEN g ELSE at[p]
            /\ at' = [at EXCEPT ![on[0]] = g]
      /\ \A d \in Core : on[d] \in Pid
    BY Constants, Reads DEF proc_preempt, Here, Go, IInv, Types2, TypeOK
<1>u. /\ state' = state /\ ready' = ready /\ curr' = curr /\ on' = on
      /\ ret' = ret /\ lock' = lock /\ exit_core' = exit_core /\ exit_me' = exit_me /\ event' = event
    BY DEF proc_preempt, exitVars
<1>1. Types2'
    BY <1>a, <1>u, Constants DEF IInv, Types2, TypeOK, proc_preempt, Go, Spinning, Unmasked
<1>2. Roles'
    BY <1>a, <1>u, Constants, Reads DEF IInv, Roles, RoleOf, States, OneCore
<1>3. States'
    BY <1>a, <1>u, Constants DEF IInv, States, OneCore, OnCore, Roles, RoleOf
<1>4. Locked'
    BY <1>a, <1>u, Constants DEF IInv, Locked, Holding, OneCore, CanLock
<1>5. OneCore'
    BY <1>u DEF IInv, OneCore
<1>6. ReadyExact'
    BY <1>u DEF IInv, ReadyExact
<1> QED  BY <1>1, <1>2, <1>3, <1>4, <1>5, <1>6 DEF IInv

\* call_poll preserves the invariant.
LEMMA CallPoll ==
    ASSUME ConstantsOK, IInv, call_poll
    PROVE  IInv'
<1>a. /\ at[on[0]] = "user" /\ on[0] = Idle(0)
      /\ \A p \in Pid : at'[p] = IF p = on[0] THEN "poll" ELSE at[p]
      /\ \A d \in Core : on[d] \in Pid
    BY Constants, Reads DEF call_poll, Here, Go, IInv, Types2, TypeOK
<1>u. /\ state' = state /\ ready' = ready /\ curr' = curr /\ on' = on
      /\ ret' = ret /\ lock' = lock /\ exit_core' = exit_core /\ exit_me' = exit_me /\ event' = event
    BY DEF call_poll, exitVars
<1>1. Types2'
    BY <1>a, <1>u, Constants DEF IInv, Types2, TypeOK, call_poll, Go, Spinning, Unmasked
<1>2. Roles'
    BY <1>a, <1>u, Constants, Reads DEF IInv, Roles, RoleOf, States, OneCore
<1>3. States'
    BY <1>a, <1>u, Constants DEF IInv, States, OneCore, OnCore, Roles, RoleOf
<1>4. Locked'
    BY <1>a, <1>u, Constants DEF IInv, Locked, Holding, OneCore, CanLock
<1>5. OneCore'
    BY <1>u DEF IInv, OneCore
<1>6. ReadyExact'
    BY <1>u DEF IInv, ReadyExact
<1> QED  BY <1>1, <1>2, <1>3, <1>4, <1>5, <1>6 DEF IInv

\* wfe preserves the invariant.
LEMMA Wfe ==
    ASSUME ConstantsOK, IInv, NEW c \in Core, wfe(c)
    PROVE  IInv'
<1>a. /\ at[on[c]] = "wfe"
      /\ \A p \in Pid : at'[p] = IF p = on[c] THEN "loop" ELSE at[p]
      /\ \A d \in Core : on[d] \in Pid
      /\ event' \subseteq Core
    BY Constants, Reads DEF wfe, Here, Go, IInv, Types2, TypeOK
<1>u. /\ state' = state /\ ready' = ready /\ curr' = curr /\ on' = on
      /\ ret' = ret /\ lock' = lock /\ exit_core' = exit_core /\ exit_me' = exit_me
    BY DEF wfe, exitVars
<1>1. Types2'
    BY <1>a, <1>u, Constants DEF IInv, Types2, TypeOK, wfe, Go, Spinning, Unmasked
<1>2. Roles'
    BY <1>a, <1>u, Constants, Reads DEF IInv, Roles, RoleOf, States, OneCore
<1>3. States'
    BY <1>a, <1>u, Constants DEF IInv, States, OneCore, OnCore, Roles, RoleOf
<1>4. Locked'
    BY <1>a, <1>u, Constants DEF IInv, Locked, Holding, OneCore, CanLock
<1>5. OneCore'
    BY <1>u DEF IInv, OneCore
<1>6. ReadyExact'
    BY <1>u DEF IInv, ReadyExact
<1> QED  BY <1>1, <1>2, <1>3, <1>4, <1>5, <1>6 DEF IInv

\* irq_end preserves the invariant.
LEMMA IrqEnd ==
    ASSUME ConstantsOK, IInv, NEW c \in Core, irq_end(c)
    PROVE  IInv'
<1>a. /\ at[on[c]] = "irq_end" /\ ret[on[c]] \in {"user", "ready", "exit_pid"}
      /\ \A p \in Pid : at'[p] = IF p = on[c] THEN ret[p] ELSE at[p]
      /\ \A d \in Core : on[d] \in Pid
      /\ \A p \in Pid : ret'[p] = IF p = on[c] THEN "none" ELSE ret[p]
    BY Constants, Reads DEF irq_end, Here, Go, IInv, Types2, TypeOK, Roles, RoleOf
<1>u. /\ state' = state /\ ready' = ready /\ curr' = curr /\ on' = on
      /\ lock' = lock /\ exit_core' = exit_core /\ exit_me' = exit_me /\ event' = event
    BY DEF irq_end, exitVars
<1>1. Types2'
    BY <1>a, <1>u, Constants
       DEF IInv, Types2, TypeOK, irq_end, Go, Spinning, Unmasked, Roles, RoleOf
<1>2. Roles'
    BY <1>a, <1>u, Constants, Reads DEF IInv, Roles, RoleOf, States, OneCore
<1>3. States'
    BY <1>a, <1>u, Constants DEF IInv, States, OneCore, OnCore, Roles, RoleOf
<1>4. Locked'
    BY <1>a, <1>u, Constants DEF IInv, Locked, Holding, OneCore, CanLock
<1>5. OneCore'
    BY <1>u DEF IInv, OneCore
<1>6. ReadyExact'
    BY <1>u DEF IInv, ReadyExact
<1> QED  BY <1>1, <1>2, <1>3, <1>4, <1>5, <1>6 DEF IInv

-----------------------------------------------------------------------------
\* proc_ready lists a process that nobody has readied.
LEMMA ProcReady ==
    ASSUME ConstantsOK, IInv, NEW c \in Core, proc_ready(c)
    PROVE  IInv'
<1>p. PICK r \in Susp : /\ state[r] = "WAIT"
                        /\ state' = [state EXCEPT ![r] = "READY"]
                        /\ ready' = Append(ready, r)
    BY DEF proc_ready
<1>a. /\ at[on[c]] = "ready_held" /\ on[c] \in Readiers /\ r # Net
      /\ r \in Proc /\ r \in Pid /\ ~OnCore(r)
      /\ \A p \in Pid : at'[p] = IF p = on[c] THEN "user" ELSE at[p]
      /\ \A p \in Pid : state'[p] = IF p = r THEN "READY" ELSE state[p]
      /\ \A d \in Core : on[d] \in Pid
      /\ lock' = lock \ {c}
    BY <1>p, Constants, Reads
    DEF proc_ready, Here, Go, IInv, Types2, TypeOK, Roles, RoleOf, OnCore
<1>u. /\ curr' = curr /\ on' = on /\ ret' = ret
      /\ exit_core' = exit_core /\ exit_me' = exit_me /\ event' = Core
    BY DEF proc_ready, exitVars
<1>e. /\ ready \in Seq(Proc) /\ Distinct(ready) /\ r \notin Elems(ready)
      /\ \A p \in Proc : p \in Elems(ready) <=> state[p] = "READY"
    BY <1>p, <1>a, ReadyForm DEF IInv, Types2, TypeOK
<1>l. /\ ready' \in Seq(Proc) /\ Distinct(ready')
      /\ \A e : e \in Elems(ready') <=> e \in Elems(ready) \/ e = r
    BY <1>p, <1>a, <1>e, AppendElems
<1>1. Types2'
    BY <1>p, <1>a, <1>u, <1>l DEF IInv, Types2, TypeOK, proc_ready, Go, Unmasked
<1>2. Roles'
    BY <1>a, <1>u, Constants, Reads DEF IInv, Roles, RoleOf, States, OneCore
<1>3. States'
    BY <1>p, <1>a, <1>u, Constants DEF IInv, States, OneCore, OnCore
<1>4. Locked'
    BY <1>a, <1>u DEF IInv, Locked, Holding, OneCore
<1>5. OneCore'
    BY <1>u DEF IInv, OneCore
<1>6. ReadyExact'
    BY <1>a, <1>e, <1>l, Constants, ReadyFormNext
<1> QED  BY <1>1, <1>2, <1>3, <1>4, <1>5, <1>6 DEF IInv

\* The tick lists the sleepers that are due, each once; they are on no core.
LEMMA TimerTick ==
    ASSUME ConstantsOK, IInv, proc_timer_tick, ~raced'
    PROVE  IInv'
<1>p. PICK S \in SUBSET {p \in Proc : state[p] = "SLEEP"} :
          /\ state' = [p \in Pid |-> IF p \in S THEN "READY" ELSE state[p]]
          /\ \E q \in [1 .. Cardinality(S) -> S] :
               (\A p \in S : \E i \in DOMAIN q : q[i] = p) /\ ready' = ready \o q
          /\ \A p \in S : ~OnCore(p)
    BY DEF proc_timer_tick
<1>a. /\ TimerOn /\ at[on[0]] = "tick" /\ 0 \in Core /\ ret[on[0]] # "none"
      /\ \A p \in Pid : at'[p] = IF p = on[0]
                                 THEN (IF state[Net] = "WAIT" THEN "net_wake" ELSE "preempt")
                                 ELSE at[p]
      /\ \A d \in Core : on[d] \in Pid
    BY Constants, Reads DEF proc_timer_tick, Here, Go, IInv, Types2, TypeOK, Roles, RoleOf
<1>s. /\ S \subseteq Proc /\ \A p \in S : state[p] = "SLEEP" /\ p \in Pid
      /\ \A p \in Pid : state'[p] = IF p \in S THEN "READY" ELSE state[p]
      /\ state' \in [Pid -> {"FREE", "READY", "CURR", "WAIT", "SLEEP"}]
    BY <1>p, Constants DEF IInv, Types2, TypeOK
<1>q. PICK q \in Seq(S) : Distinct(q) /\ Elems(q) = S /\ ready' = ready \o q
  <2>1. PICK q \in [1 .. Cardinality(S) -> S] :
               (\A p \in S : \E i \in DOMAIN q : q[i] = p) /\ ready' = ready \o q
    BY <1>p
  <2>2. IsFiniteSet(S)
    BY <1>s, FS_Subset DEF ConstantsOK
  <2> DEFINE k == Cardinality(S)
  <2>3. k \in Nat /\ IsFiniteSet(1 .. k) /\ Cardinality(1 .. k) = k
    BY <2>2, FS_CardinalityType, FS_Interval
  <2>4. q \in Surjection(1 .. k, S)
    BY <2>1 DEF Surjection
  <2>5. q \in Injection(1 .. k, S)
    BY <2>2, <2>3, <2>4, FS_SurjSameCardinalityImpliesInj
  <2>6. \A i, j \in 1 .. k : q[i] = q[j] => i = j
    BY <2>5 DEF Injection, IsInjective
  <2> HIDE DEF k
  <2>7. q \in Seq(S) /\ DOMAIN q = 1 .. k
    <3>1. \A m \in Nat : \A f \in [1 .. m -> S] : f \in Seq(S) /\ DOMAIN f = 1 .. m
        OBVIOUS
    <3> QED  BY <2>1, <2>3, <3>1 DEF k
  <2>8. Distinct(q) /\ Elems(q) = S
    <3>1. \A i \in 1 .. k : q[i] \in S
        BY <2>1 DEF k
    <3>2. Distinct(q)
        BY <2>6, <2>7 DEF Distinct
    <3> QED  BY <2>1, <2>7, <3>1, <3>2 DEF Elems
  <2> QED  BY <2>1, <2>7, <2>8
<1>e. /\ ready \in Seq(Proc) /\ Distinct(ready)
      /\ \A p \in Proc : p \in Elems(ready) <=> state[p] = "READY"
    BY ReadyForm DEF IInv, Types2, TypeOK
<1>l. /\ ready' \in Seq(Proc) /\ Distinct(ready')
      /\ \A p : p \in Elems(ready') <=> p \in Elems(ready) \/ p \in S
  <2>1. q \in Seq(Proc)
    BY <1>s
  <2>2. \A p \in Elems(q) : p \notin Elems(ready)
    BY <1>e, <1>q, <1>s
  <2> QED  BY <1>e, <1>q, <2>1, <2>2, ConcatElems
<1>u. /\ curr' = curr /\ on' = on /\ ret' = ret /\ lock' = lock
      /\ exit_core' = exit_core /\ exit_me' = exit_me /\ event' = event
    BY DEF proc_timer_tick, exitVars
<1>n. state[Net] = "WAIT" => state'[Net] = "WAIT"
    BY <1>s, Constants
<1>1. Types2'
    BY <1>a, <1>u, <1>s, <1>l DEF IInv, Types2, TypeOK, proc_timer_tick, Go, Spinning
<1>2. Roles'
    BY <1>a, <1>u, <1>s, <1>n, Constants DEF IInv, Roles, RoleOf, OneCore
<1>3. States'
  <2>1. \A c \in Core : on[c] \notin S
    BY <1>p DEF OnCore
  <2> QED  BY <1>a, <1>u, <1>s, <2>1, Constants DEF IInv, States, OneCore, OnCore
<1>4. Locked'
    BY <1>a, <1>u DEF IInv, Locked, Holding, OneCore
<1>5. OneCore'
    BY <1>u DEF IInv, OneCore
<1>6. ReadyExact'
    BY <1>s, <1>e, <1>l, Constants, ReadyFormNext
<1> QED  BY <1>1, <1>2, <1>3, <1>4, <1>5, <1>6 DEF IInv

\* net_wake readies the blocked network process.
LEMMA NetWake ==
    ASSUME ConstantsOK, IInv, net_wake
    PROVE  IInv'
<1>a. /\ at[on[0]] = "net_wake" /\ state[Net] = "WAIT" /\ 0 \in Core
      /\ ret[on[0]] # "none" /\ ~OnCore(Net)
      /\ \A p \in Pid : at'[p] = IF p = on[0] THEN "preempt" ELSE at[p]
      /\ \A p \in Pid : state'[p] = IF p = Net THEN "READY" ELSE state[p]
      /\ \A d \in Core : on[d] \in Pid
    BY Constants, Reads
    DEF net_wake, Here, Go, IInv, Types2, TypeOK, Roles, RoleOf, OnCore
<1>u. /\ curr' = curr /\ on' = on /\ ret' = ret /\ lock' = lock
      /\ exit_core' = exit_core /\ exit_me' = exit_me /\ event' = Core
    BY DEF net_wake, exitVars
<1>e. /\ ready \in Seq(Proc) /\ Distinct(ready) /\ Net \notin Elems(ready)
      /\ \A p \in Proc : p \in Elems(ready) <=> state[p] = "READY"
    BY <1>a, ReadyForm, Constants DEF IInv, Types2, TypeOK
<1>l. /\ ready' \in Seq(Proc) /\ Distinct(ready')
      /\ \A e : e \in Elems(ready') <=> e \in Elems(ready) \/ e = Net
    BY <1>e, AppendElems, Constants DEF net_wake
<1>o. \A p \in Pid : at[p] = "net_wake" => p = on[0]
    BY DEF IInv, Roles, RoleOf
<1>1. Types2'
    BY <1>a, <1>u, <1>l DEF IInv, Types2, TypeOK, net_wake, Go
<1>2. Roles'
    BY <1>a, <1>u, <1>o, Constants DEF IInv, Roles, RoleOf
<1>3. States'
    BY <1>a, <1>u, Constants DEF IInv, States, OneCore, OnCore
<1>4. Locked'
    BY <1>a, <1>u DEF IInv, Locked, Holding, OneCore
<1>5. OneCore'
    BY <1>u DEF IInv, OneCore
<1>6. ReadyExact'
    BY <1>a, <1>e, <1>l, Constants, ReadyFormNext
<1> QED  BY <1>1, <1>2, <1>3, <1>4, <1>5, <1>6 DEF IInv

-----------------------------------------------------------------------------
\* The steps that switch.
\* Where a switch begins no other core holds the lock.
LEMMA LockFree ==
    ASSUME ConstantsOK, IInv, NEW c \in Core, CanLock(c) \/ at[on[c]] = "exit_pop"
    PROVE  lock \subseteq {c}
BY DEF IInv, Locked, Holding, CanLock

\* proc_resched preserves the invariant, whether or not the caller is parked.
LEMMA Resched ==
    ASSUME ConstantsOK, IInv, NEW c \in Core, proc_resched(c)
    PROVE  IInv'
<1>1. CASE ready = <<>>
    BY <1>1, StayInv DEF proc_resched, Here
<1>2. CASE ready # <<>>
  <2> DEFINE new == Head(ready)
             st == IF Parks(on[c]) THEN "READY" ELSE state[on[c]]
  <2>1. /\ at[on[c]] = "resched" /\ CanLock(c)
        /\ ready' = Tail(ready) \o (IF Parks(on[c]) THEN <<on[c]>> ELSE <<>>)
        /\ state' = [state EXCEPT ![on[c]] = IF Parks(on[c]) THEN "READY" ELSE @,
                                  ![new] = "CURR"]
        /\ SwitchTo(c, new, "resumed") /\ UNCHANGED <<ret, exitVars, event>>
    BY <1>2, Reads DEF proc_resched, Here
  <2>2. /\ new \in Proc /\ new \in Pid /\ state[new] = "READY" /\ ~OnCore(new)
        /\ Tail(ready) \in Seq(Proc) /\ Distinct(Tail(ready))
        /\ \A p \in Proc : p \in Elems(Tail(ready)) <=> state[p] = "READY" /\ p # new
    BY <1>2, HeadReady, Constants
  <2>3. /\ on[c] \in Pid /\ on[c] # new /\ state[on[c]] = "CURR"
        /\ Parks(on[c]) <=> on[c] \in Proc
    BY <2>1, <2>2, Reads, Constants DEF Parks, OnCore, IInv, States
  <2>4. /\ state' \in [Pid -> {"FREE", "READY", "CURR", "WAIT", "SLEEP"}]
        /\ \A p \in Pid : state'[p] = IF p = new THEN "CURR"
                                      ELSE IF p = on[c] THEN st ELSE state[p]
    BY <2>1, <2>2, <2>3 DEF IInv, Types2, TypeOK
  <2>5. /\ ready' \in Seq(Proc) /\ Distinct(ready')
        /\ \A p \in Proc : p \in Elems(ready') <=> state'[p] = "READY"
    <3>1. CASE on[c] \in Proc
      <4>1. on[c] \notin Elems(Tail(ready))
        BY <2>2, <2>3, <3>1
      <4>2. ready' = Append(Tail(ready), on[c])
        BY <2>1, <2>2, <2>3, <3>1, AppendIsConcat
      <4>3. /\ Append(Tail(ready), on[c]) \in Seq(Proc) /\ Distinct(Append(Tail(ready), on[c]))
            /\ \A e : e \in Elems(Append(Tail(ready), on[c]))
                        <=> e \in Elems(Tail(ready)) \/ e = on[c]
        <5>1. Tail(ready) \in Seq(Proc) /\ Distinct(Tail(ready)) /\ on[c] \in Proc
            BY <2>2, <3>1
        <5> QED  BY ONLY <5>1, <4>1, AppendElems
      <4>4. ASSUME NEW p \in Proc
            PROVE  p \in Elems(ready') <=> state'[p] = "READY"
        BY <2>2, <2>3, <2>4, <3>1, <4>2, <4>3, Constants
      <4> QED  BY <4>2, <4>3, <4>4
    <3>2. CASE on[c] \notin Proc
      <4>1. ready' = Tail(ready)
        BY <2>1, <2>2, <2>3, <3>2, ConcatEmptySeq
      <4> QED  BY <2>2, <2>3, <2>4, <3>2, <4>1, Constants
    <3> QED  BY <3>1, <3>2
  <2>6. lock \subseteq {c}
    BY <2>1, LockFree
  <2>7. /\ st \in {"READY", "CURR"} /\ on[c] \in Proc => st # "CURR"
        /\ on[c] \in IdleProc => st = "CURR"
    BY <2>3, Constants
  <2>8. new \notin IdleProc
    BY <2>2, Constants
  <2>9. Switches(c, new, "resumed", st)
    BY <2>1, <2>2, <2>4, <2>5, <2>6, <2>7, <2>8, <2>3, Constants DEF Switches
  <2> QED  BY <2>9, SwitchInv
<1> QED  BY <1>1, <1>2

\* proc_block, proc_sleep_us and proc_exit leave the process in state st.
LEMMA Leave ==
    ASSUME ConstantsOK, IInv, NEW c \in Core, NEW place, NEW st, on[c] \in Proc,
           place \in {"resumed", "gone"}, st \in {"WAIT", "SLEEP", "FREE"},
           st = "FREE" <=> place = "gone",
           st = "SLEEP" => on[c] \in Sleepers,
           place = "gone" => on[c] \in Exits,
           CanLock(c) \/ at[on[c]] = "exit_pop",
           SwitchTo(c, Chosen(c), place), UNCHANGED <<ret, exitVars, event>>, ready' = Rest,
           state' = [[state EXCEPT ![on[c]] = st] EXCEPT ![Chosen(c)] = "CURR"]
    PROVE  IInv'
<1> DEFINE new == Chosen(c)
<1>1. /\ new \in Pid /\ ~OnCore(new)
      /\ new \in Proc => state[new] = "READY"
      /\ new \in IdleProc => new = Idle(c)
      /\ Rest \in Seq(Proc) /\ Distinct(Rest)
      /\ \A p \in Proc : p \in Elems(Rest) <=> state[p] = "READY" /\ p # new
    BY ChosenReady
<1>2. on[c] \in Pid /\ on[c] # new /\ state[on[c]] # "READY"
    BY <1>1, Reads DEF OnCore
<1>3. /\ state' \in [Pid -> {"FREE", "READY", "CURR", "WAIT", "SLEEP"}]
      /\ \A p \in Pid : state'[p] = IF p = new THEN "CURR"
                                    ELSE IF p = on[c] THEN st ELSE state[p]
    BY <1>1, <1>2 DEF IInv, Types2, TypeOK
<1>4. /\ ready' \in Seq(Proc) /\ Distinct(ready')
      /\ \A p \in Proc : p \in Elems(ready') <=> state'[p] = "READY"
    BY <1>1, <1>2, <1>3, Constants
<1>5. lock \subseteq {c} /\ on[c] \notin IdleProc
    BY LockFree, Constants, <1>2
<1>6. SwitchTo(c, new, place)
    OBVIOUS
<1>7. st \in {"READY", "CURR", "WAIT", "SLEEP", "FREE"} /\ st # "CURR"
    OBVIOUS
<1>8. Switches(c, new, place, st)
    BY <1>1, <1>3, <1>4, <1>5, <1>6, <1>7 DEF Switches
<1> QED  BY <1>8, SwitchInv

\* proc_block preserves the invariant.
LEMMA Block ==
    ASSUME ConstantsOK, IInv, NEW c \in Core, proc_block(c)
    PROVE  IInv'
<1>1. at[on[c]] = "block" /\ on[c] = Net /\ curr[c] = on[c]
    BY Reads DEF proc_block, Here, IInv, Roles, RoleOf
<1>2. state' = [[state EXCEPT ![on[c]] = "WAIT"] EXCEPT ![Chosen(c)] = "CURR"]
    BY <1>1 DEF proc_block
<1> QED  BY <1>1, <1>2, Leave, Constants DEF proc_block

\* proc_sleep_us preserves the invariant.
LEMMA Sleep ==
    ASSUME ConstantsOK, IInv, NEW c \in Core, proc_sleep_us(c)
    PROVE  IInv'
<1>1. at[on[c]] = "sleep" /\ on[c] \in Sleepers /\ state[on[c]] = "SLEEP"
    BY Reads DEF proc_sleep_us, Here, IInv, Roles, RoleOf, States
<1>2. state' = [[state EXCEPT ![on[c]] = "SLEEP"] EXCEPT ![Chosen(c)] = "CURR"]
  <2>1. [state EXCEPT ![on[c]] = "SLEEP"] = state
    BY <1>1, Reads DEF IInv, Types2, TypeOK
  <2> QED  BY <2>1 DEF proc_sleep_us
<1> QED  BY <1>1, <1>2, Leave, Constants DEF proc_sleep_us

\* The switch that ends proc_exit preserves the invariant.
LEMMA Exit ==
    ASSUME ConstantsOK, IInv, NEW c \in Core, proc_exit(c)
    PROVE  IInv'
<1>1. at[on[c]] = "exit_pop" /\ on[c] \in Exits /\ state[on[c]] = "FREE"
    BY Reads DEF proc_exit, Here, IInv, Roles, RoleOf, States
<1>2. state' = [[state EXCEPT ![on[c]] = "FREE"] EXCEPT ![Chosen(c)] = "CURR"]
  <2>1. [state EXCEPT ![on[c]] = "FREE"] = state
    BY <1>1, Reads DEF IInv, Types2, TypeOK
  <2> QED  BY <2>1 DEF proc_exit
<1> QED  BY <1>1, <1>2, Leave, Constants DEF proc_exit

\* smpsched_poll_once and smpsched_core_loop preserve the invariant.
LEMMA TakeInv ==
    ASSUME ConstantsOK, IInv, NEW c \in Core, NEW place, place \in {"poll", "loop"}, Take(c, place)
    PROVE  IInv'
<1>0. at[on[c]] = place /\ on[c] \in IdleProc /\ state[on[c]] = "CURR" /\ CanLock(c)
    BY Reads DEF Take, Here, IInv, Roles, RoleOf, States
<1>1. CASE ready = <<>>
    BY <1>0, <1>1, StayInv DEF Take, Rest
<1>2. CASE ready # <<>>
  <2> DEFINE new == Head(ready)
  <2>1. /\ ready' = Tail(ready) /\ state' = [state EXCEPT ![new] = "CURR"]
        /\ SwitchTo(c, new, "resumed") /\ UNCHANGED <<ret, exitVars, event>>
    BY <1>2 DEF Take, Rest
  <2>2. /\ new \in Proc /\ new \in Pid /\ state[new] = "READY" /\ ~OnCore(new)
        /\ Tail(ready) \in Seq(Proc) /\ Distinct(Tail(ready))
        /\ \A p \in Proc : p \in Elems(Tail(ready)) <=> state[p] = "READY" /\ p # new
    BY <1>2, HeadReady, Constants
  <2>3. /\ state' \in [Pid -> {"FREE", "READY", "CURR", "WAIT", "SLEEP"}]
        /\ \A p \in Pid : state'[p] = IF p = new THEN "CURR"
                                      ELSE IF p = on[c] THEN "CURR" ELSE state[p]
    BY <1>0, <2>1, <2>2 DEF IInv, Types2, TypeOK
  <2>4. \A p \in Proc : p \in Elems(ready') <=> state'[p] = "READY"
    BY <1>0, <2>1, <2>2, <2>3, Constants
  <2>5. lock \subseteq {c} /\ on[c] \notin Proc /\ new \notin IdleProc
    BY <1>0, <2>2, LockFree, Constants, Reads
  <2>6. ready' \in Seq(Proc) /\ Distinct(ready')
    BY <2>1, <2>2
  <2>7. Switches(c, new, "resumed", "CURR")
    BY <2>1, <2>2, <2>3, <2>4, <2>5, <2>6 DEF Switches
  <2> QED  BY <2>7, SwitchInv
<1> QED  BY <1>1, <1>2

-----------------------------------------------------------------------------
\* The invariant holds when /smpmode?on=1 has started the cores.
LEMMA InitInv ==
    ASSUME ConstantsOK, Init
    PROVE  IInv
<1>1. /\ Distinct(ready) /\ ready \in Seq(Proc)
      /\ \A p \in Proc : p \in Elems(ready) <=> p \notin Susp
  <2> DEFINE S == Proc \ Susp
             k == Cardinality(S)
  <2>1. IsFiniteSet(S) /\ k \in Nat
    BY FS_Subset, FS_CardinalityType DEF ConstantsOK
  <2>2. IsFiniteSet(1 .. k) /\ Cardinality(1 .. k) = k
    BY <2>1, FS_Interval
  <2>3. ready \in [1 .. k -> S] /\ \A p \in S : \E i \in 1 .. k : ready[i] = p
    BY DEF Init
  <2>4. ready \in Surjection(1 .. k, S)
    BY <2>3 DEF Surjection
  <2>5. ready \in Injection(1 .. k, S)
    BY <2>1, <2>2, <2>4, FS_SurjSameCardinalityImpliesInj
  <2>6. \A i, j \in 1 .. k : ready[i] = ready[j] => i = j
    BY <2>5 DEF Injection, IsInjective
  <2>7. ready \in Seq(Proc) /\ DOMAIN ready = 1 .. k
    <3>1. \A m \in Nat : \A f \in [1 .. m -> S] : f \in Seq(Proc) /\ DOMAIN f = 1 .. m
        OBVIOUS
    <3> HIDE DEF k
    <3> QED  BY <2>1, <2>3, <3>1
  <2>8. Distinct(ready)
    BY <2>6, <2>7 DEF Distinct
  <2>9. \A p \in Proc : p \in Elems(ready) <=> p \notin Susp
    BY <2>3, <2>7 DEF Elems
  <2> QED  BY <2>7, <2>8, <2>9
<1>2. /\ \A p \in Proc : state[p] = IF p \in Susp THEN "WAIT" ELSE "READY"
      /\ \A p \in IdleProc : state[p] = "CURR"
      /\ \A p \in Proc : at[p] = IF p \in Fresh THEN "tramp" ELSE "resumed"
      /\ \A p \in IdleProc : at[p] = IF p = Idle(0) THEN "user" ELSE "loop"
      /\ \A p \in Pid : ret[p] = "none"
      /\ \A c \in Core : on[c] = Idle(c)
      /\ lock = {}
    BY Constants DEF Init
<1>3. Types2
  <2>1. state \in [Pid -> {"FREE", "READY", "CURR", "WAIT", "SLEEP"}]
    BY DEF Init
  <2>2. at \in [Pid -> Spinning \cup Unmasked
                    \cup {"resumed", "tramp", "exit_pop", "irq_end", "preempt", "wfe", "gone"}]
    BY DEF Init, Spinning, Unmasked
  <2> QED  BY <1>1, <2>1, <2>2, Constants DEF Init, Types2, TypeOK
<1>4. Roles
    BY <1>2, Constants DEF Roles, RoleOf
<1>5. States
    BY <1>2, Constants DEF States, OnCore, IdleProc
<1>6. Locked
    BY <1>2, Constants DEF Locked, Holding
<1>7. OneCore
    BY <1>2, Constants DEF OneCore
<1>8. ReadyExact
    BY <1>1, <1>2, ReadyForm
<1> QED  BY <1>3, <1>4, <1>5, <1>6, <1>7, <1>8 DEF IInv

\* Only the interrupt, the tick and proc_exit can make a race.
LEMMA SameRaced ==
    ASSUME [Next]_vars, ~timer_irq, ~proc_timer_tick, \A c \in Core : ~exit_pid(c)
    PROVE  raced' = raced
<1>1. CASE UNCHANGED vars
    BY <1>1 DEF vars
<1>2. ASSUME NEW c \in Core, Call(c) PROVE raced' = raced
    BY <1>2 DEF Call, call_resched, call_block, call_sleep, exit_begin, call_ready
<1>3. ASSUME NEW c \in Core, Kernel(c) PROVE raced' = raced
  <2>2. CASE proc_resched(c) \/ proc_block(c) \/ proc_sleep_us(c) \/ exit_free(c) \/ proc_exit(c)
    BY <2>2 DEF proc_resched, proc_block, proc_sleep_us, exit_free, proc_exit
  <2>3. CASE resumed(c) \/ tramp(c) \/ smpsched_after_switch(c) \/ ready_enter(c) \/ proc_ready(c)
    BY <2>3 DEF resumed, tramp, smpsched_after_switch, ready_enter, proc_ready
  <2>4. CASE smpsched_core_loop(c) \/ wfe(c) \/ irq_end(c)
    BY <2>4 DEF smpsched_core_loop, Take, wfe, irq_end
  <2> QED  BY <1>3, <2>2, <2>3, <2>4 DEF Kernel
<1>4. CASE Kernel0
    BY <1>4 DEF Kernel0, net_wake, proc_preempt, call_poll, smpsched_poll_once, Take
<1> QED  BY <1>1, <1>2, <1>3, <1>4 DEF Next

\* A race stays one.
LEMMA RacedStays ==
    ASSUME [Next]_vars, raced \in BOOLEAN
    PROVE  raced' \in BOOLEAN /\ (raced => raced')
<1>1. CASE timer_irq
    BY <1>1 DEF timer_irq
<1>2. CASE proc_timer_tick
    BY <1>2 DEF proc_timer_tick
<1>3. ASSUME NEW c \in Core, exit_pid(c) PROVE raced' \in BOOLEAN /\ (raced => raced')
    BY <1>3 DEF exit_pid
<1> QED  BY <1>1, <1>2, <1>3, SameRaced

\* Every step of every core preserves the invariant.
LEMMA CoreStep ==
    ASSUME ConstantsOK, IInv, [Next]_vars, ~raced'
    PROVE  IInv'
<1>1. ASSUME NEW c \in Core, Call(c) PROVE IInv'
    BY <1>1, CallResched, CallBlock, CallSleep, ExitBegin, CallReady DEF Call
<1>2. ASSUME NEW c \in Core, Kernel(c) PROVE IInv'
  <2>1. CASE smpsched_core_loop(c)
    BY <2>1, TakeInv DEF smpsched_core_loop
  <2> QED
    BY <1>2, <2>1, Resched, Block, Sleep, ExitPid, ExitFree, Exit, Resumed, Tramp,
       AfterSwitch, ReadyEnter, ProcReady, Wfe, IrqEnd DEF Kernel
<1>3. CASE Kernel0
  <2>1. CASE smpsched_poll_once
    BY <2>1, TakeInv, Constants DEF smpsched_poll_once
  <2> QED  BY <1>3, <2>1, TimerTick, NetWake, Preempt, CallPoll DEF Kernel0
<1>4. CASE UNCHANGED vars
    BY <1>4 DEF vars, IInv, Types2, TypeOK, Roles, RoleOf, States, OnCore, Locked,
                OneCore, ReadyExact
<1> QED  BY <1>1, <1>2, <1>3, <1>4, TimerIrq DEF Next

\* The invariant, until a race with the timer.
SchedInv == raced \in BOOLEAN /\ (raced => TimerOn) /\ (~raced => IInv)

\* It survives every step, and only a timer interrupt makes a race.
LEMMA StepInv ==
    ASSUME ConstantsOK, SchedInv, [Next]_vars
    PROVE  SchedInv'
<1>1. raced' \in BOOLEAN /\ (raced => raced')
    BY RacedStays DEF SchedInv
<1>2. ~raced' => IInv'
    BY <1>1, CoreStep DEF SchedInv
<1>3. ASSUME ~raced, raced', ~TimerOn PROVE FALSE
  <2>1. IInv
    BY <1>3 DEF SchedInv
  <2>2. ~timer_irq /\ ~proc_timer_tick
    BY <1>3, <2>1, Constants DEF timer_irq, proc_timer_tick, Here, IInv, Roles, RoleOf, Types2, TypeOK
  <2>3. PICK c \in Core : exit_pid(c)
    BY <1>3, <2>2, SameRaced
  <2>4. curr[exit_core[on[c]]] = on[c]
    BY <1>3, <2>1, <2>3, Reads, Constants DEF exit_pid, Here, IInv, Roles, RoleOf, Types2
  <2> QED  BY <1>3, <2>3, <2>4 DEF exit_pid
<1> QED  BY <1>1, <1>2, <1>3 DEF SchedInv

\* It holds when /smpmode?on=1 has started the cores.
LEMMA StartInv ==
    ASSUME ConstantsOK, Init
    PROVE  SchedInv
BY InitInv DEF SchedInv, Init

\* The invariant implies what the scheduler promises.
LEMMA Sound ==
    ASSUME ConstantsOK, IInv
    PROVE  CoresOK
<1>1. NoSelfSpin
    BY DEF IInv, Locked, Holding, Spinning, NoSelfSpin
<1>2. ExitFreesSelf
    BY DEF IInv, States, OnCore, ExitFreesSelf
<1> QED  BY <1>1, <1>2 DEF IInv, Types2, CoresOK

\* For any number of cores and any processes, with and without the timer and with
\* either lock: no process runs on two cores at once, a process is on the ready list
\* exactly when it is READY, and once, no core spins for the lock it holds, and
\* proc_exit frees the slot of its caller (proc.c, smpsched.c, ctxsw.S), until the
\* timer interrupt meets core 0 holding the lock with IRQs on, moves a process
\* between the two reads of proc_exit, or readies a process on its way to sleep.
THEOREM SmpSchedSound ==
    ASSUME ConstantsOK
    PROVE  Spec => []((TimerOn /\ raced) \/ CoresOK)
<1>1. Init => SchedInv
    BY StartInv
<1>2. SchedInv /\ [Next]_vars => SchedInv'
    BY StepInv
<1>3. SchedInv => (TimerOn /\ raced) \/ CoresOK
    BY Sound DEF SchedInv
<1> QED  BY <1>1, <1>2, <1>3, PTL DEF Spec

=============================================================================
