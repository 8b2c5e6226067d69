--------------------------- MODULE SpinLockProofs ---------------------------
(***************************************************************************)
(* The two spin locks, for any number of cores and of rounds.  The ticket  *)
(* lock excludes and implements the first-come first-served lock at any    *)
(* ticket width that has more values than there are cores; the bakery lock *)
(* excludes and is never overtaken; and with either no increment of the    *)
(* self-test is lost.                                                      *)
(***************************************************************************)
EXTENDS SpinLock, FiniteSetTheorems, SequenceTheorems, TLAPS

-----------------------------------------------------------------------------
\* The numbers in use are the Cardinality(Outstanding) ones from now_serving
\* on, each held by one core; the holder's is now_serving itself.
Numbered ==
    /\ \A c, d \in Outstanding : me[c] = me[d] => c = d
    /\ \A c \in Outstanding : Dist(me[c]) < Cardinality(Outstanding)
    /\ \A j \in 0 .. Cardinality(Outstanding) - 1 : \E c \in Outstanding : Dist(me[c]) = j
    /\ Dist(next_ticket) = Cardinality(Outstanding)

\* The core in the critical section is the one being served, and the store of
\* spin_unlock writes back the value its load saw.
Serving ==
    \A c \in Core :
        /\ pc[c] \in Held => me[c] = now_serving
        /\ pc[c] = "rel_store" => tmp[c] = now_serving
        /\ pc[c] # "idle" => round[c] < PerCore

\* The increments stored so far, as pairs of a core and a round of it.
Incremented ==
    {p \in Core \X (1 .. PerCore) :
        \/ p[2] <= round[p[1]]
        \/ p[2] = round[p[1]] + 1 /\ pc[p[1]] \in {"rel_load", "rel_store"}}

TicketCount ==
    /\ st_counter = Cardinality(Incremented)
    /\ \A c \in Core : pc[c] = "cs_store" => tmp[c] = st_counter

IInv == TypeOK /\ Numbered /\ Serving

\* Cores are finitely many and fewer than the ticket values, so a core that
\* is still idle always finds its number unused.
LEMMA OutstandingBound ==
    /\ IsFiniteSet(Outstanding)
    /\ Cardinality(Outstanding) \in Nat
    /\ Cardinality(Outstanding) <= Cardinality(Core)
    /\ Cardinality(Core) \in Nat
  <1>1. Outstanding \in SUBSET Core
    BY DEF Outstanding
  <1> QED
    BY <1>1, CoreAssumption, FS_Subset, FS_CardinalityType

\* spin_init establishes the invariant.
LEMMA InitIInv == Init => IInv
  <1> SUFFICES ASSUME Init PROVE IInv
    OBVIOUS
  <1>1. Outstanding = {}
    BY DEF Init, Outstanding
  <1>2. Cardinality(Outstanding) = 0
    BY <1>1, FS_EmptySet
  <1>3. Modulus \in Nat /\ Modulus > 0
    BY ModulusAssumption, CoreAssumption, FS_CardinalityType
  <1>4. TypeOK
    BY <1>3, PerCoreAssumption DEF Init, TypeOK, Ticket, Places
  <1>5. Numbered
    BY <1>1, <1>2, <1>3 DEF Init, Numbered, Dist
  <1>6. Serving
    BY DEF Init, Serving, Held
  <1> QED
    BY <1>4, <1>5, <1>6 DEF IInv

\* Every step of a core preserves it.
LEMMA StepIInv == IInv /\ [Next]_vars => IInv'
  <1> SUFFICES ASSUME IInv, [Next]_vars PROVE IInv'
    OBVIOUS
  <1>0. /\ Modulus \in Nat
        /\ Modulus > Cardinality(Core)
        /\ IsFiniteSet(Outstanding)
        /\ Cardinality(Outstanding) \in Nat
        /\ Cardinality(Outstanding) <= Cardinality(Core)
        /\ Cardinality(Core) \in Nat
        /\ PerCore \in Nat
    BY ModulusAssumption, OutstandingBound, PerCoreAssumption
  <1> USE DEF IInv
  <1>1. ASSUME NEW c \in Core, fetch_add(c) PROVE IInv'
    <2> DEFINE k == Cardinality(Outstanding)
    <2>1. c \notin Outstanding /\ Outstanding' = Outstanding \cup {c}
      BY <1>1 DEF fetch_add, Goto, Outstanding, TypeOK
    <2>2. Cardinality(Outstanding') = k + 1
      BY <2>1, <1>0, FS_AddElement
    <2>3. k + 1 <= Cardinality(Core)
      <3>1. Outstanding' \in SUBSET Core
        BY <2>1 DEF Outstanding
      <3> QED
        BY <3>1, <2>2, CoreAssumption, FS_Subset
    <2>4. TypeOK'
      BY <1>0, <1>1 DEF fetch_add, Goto, TypeOK, Ticket, Inc, Places
    <2>5. \A d \in Outstanding : me[d] # next_ticket /\ me'[d] = me[d]
      BY <1>0, <1>1, <2>1 DEF fetch_add, Numbered, TypeOK, Outstanding
    <2>6. me'[c] = next_ticket /\ now_serving' = now_serving
      BY <1>1 DEF fetch_add, TypeOK
    <2>7. Numbered'
      <3>1. \A d, e \in Outstanding' : me'[d] = me'[e] => d = e
        BY <2>1, <2>5, <2>6 DEF Numbered
      <3>2. ASSUME NEW d \in Outstanding' PROVE Dist(me[d])' < k + 1
        <4>1. CASE d = c
          BY <4>1, <2>6, <1>0 DEF Numbered, Dist
        <4>2. CASE d \in Outstanding
          <5>1. Dist(me[d])' = Dist(me[d]) /\ Dist(me[d]) < k
            BY <4>2, <2>5, <2>6 DEF Numbered, Dist
          <5>2. Dist(me[d]) \in Int
            BY <4>2, <1>0 DEF Dist, TypeOK, Ticket, Outstanding
          <5> QED
            BY <5>1, <5>2, <1>0
        <4> QED
          BY <4>1, <4>2, <2>1
      <3>3. Dist(next_ticket)' = k + 1
        <4>1. next_ticket' = Inc(next_ticket)
          BY <1>1 DEF fetch_add
        <4>2. next_ticket \in Ticket /\ now_serving \in Ticket
          BY DEF TypeOK
        <4>3. Dist(next_ticket) = k
          BY DEF Numbered
        <4> QED
          BY <4>1, <4>2, <4>3, <2>6, <2>3, <1>0 DEF Dist, Inc, Ticket
      <3>4. ASSUME NEW j \in 0 .. k PROVE \E d \in Outstanding' : Dist(me[d])' = j
        <4>1. CASE j = k
          <5>1. Dist(me[c])' = k
            BY <2>6, <1>0 DEF Numbered, Dist
          <5> QED
            BY <4>1, <5>1, <2>1
        <4>2. CASE j # k
          <5>1. PICK d \in Outstanding : Dist(me[d]) = j
            BY <4>2, <1>0 DEF Numbered
          <5>2. Dist(me[d])' = Dist(me[d])
            BY <2>5, <2>6 DEF Dist
          <5> QED
            BY <5>1, <5>2, <2>1
        <4> QED
          BY <4>1, <4>2
      <3> QED
        BY <3>1, <3>2, <3>3, <3>4, <2>2, <1>0 DEF Numbered
    <2>8. Serving'
      BY <1>1 DEF fetch_add, Goto, Serving, Held, TypeOK
    <2> QED
      BY <2>4, <2>7, <2>8
  <1>2. ASSUME NEW c \in Core, spin_wait(c) PROVE IInv'
    <2>1. TypeOK'
      BY <1>2 DEF spin_wait, Goto, lockVars, TypeOK, Places
    <2>2. Outstanding' = Outstanding
      BY <1>2 DEF spin_wait, Goto, Outstanding, TypeOK
    <2>3. Numbered'
      BY <1>2, <2>2 DEF spin_wait, lockVars, Numbered, Dist
    <2>4. Serving'
      BY <1>2 DEF spin_wait, Goto, lockVars, Serving, Held, TypeOK
    <2> QED
      BY <2>1, <2>3, <2>4
  <1>3. ASSUME NEW c \in Core, st_load(c) PROVE IInv'
    <2>1. TypeOK'
      BY <1>3 DEF st_load, Goto, lockVars, TypeOK, Places
    <2>2. Outstanding' = Outstanding
      BY <1>3 DEF st_load, Goto, Outstanding, TypeOK
    <2>3. Numbered'
      BY <1>3, <2>2 DEF st_load, lockVars, Numbered, Dist
    <2>4. Serving'
      BY <1>3 DEF st_load, Goto, lockVars, Serving, Held, TypeOK
    <2> QED
      BY <2>1, <2>3, <2>4
  <1>4. ASSUME NEW c \in Core, st_store(c) PROVE IInv'
    <2>1. TypeOK'
      BY <1>4 DEF st_store, Goto, lockVars, TypeOK, Places
    <2>2. Outstanding' = Outstanding
      BY <1>4 DEF st_store, Goto, Outstanding, TypeOK
    <2>3. Numbered'
      BY <1>4, <2>2 DEF st_store, lockVars, Numbered, Dist
    <2>4. Serving'
      BY <1>4 DEF st_store, Goto, lockVars, Serving, Held, TypeOK
    <2> QED
      BY <2>1, <2>3, <2>4
  <1>5. ASSUME NEW c \in Core, unlock_load(c) PROVE IInv'
    <2>1. TypeOK'
      BY <1>5, <1>0 DEF unlock_load, Goto, lockVars, TypeOK, Places, Ticket
    <2>2. Outstanding' = Outstanding
      BY <1>5 DEF unlock_load, Goto, Outstanding, TypeOK
    <2>3. Numbered'
      BY <1>5, <2>2 DEF unlock_load, lockVars, Numbered, Dist
    <2>4. Serving'
      BY <1>5 DEF unlock_load, Goto, lockVars, Serving, Held, TypeOK
    <2> QED
      BY <2>1, <2>3, <2>4
  <1>6. ASSUME NEW c \in Core, unlock_store(c) PROVE IInv'
    <2> DEFINE k == Cardinality(Outstanding)
    <2>1. c \in Outstanding /\ Outstanding' = Outstanding \ {c}
      BY <1>6 DEF unlock_store, Goto, Outstanding, TypeOK
    <2>2. Cardinality(Outstanding') = k - 1
      BY <2>1, <1>0, FS_RemoveElement
    <2>3. /\ me[c] = now_serving
          /\ now_serving' = Inc(now_serving)
          /\ me' = me /\ next_ticket' = next_ticket
          /\ round[c] < PerCore
      BY <1>6 DEF unlock_store, Serving, Held
    <2>4. now_serving \in Ticket /\ next_ticket \in Ticket
      BY DEF TypeOK
    <2>5. TypeOK'
      <3>1. now_serving' \in Ticket
        BY <2>3, <2>4, <1>0 DEF Inc, Ticket
      <3>2. round' \in [Core -> 0 .. PerCore]
        BY <1>6, <2>3, <1>0 DEF unlock_store, TypeOK
      <3> QED
        BY <1>6, <3>1, <3>2 DEF unlock_store, Goto, TypeOK, Places
    <2>6. ASSUME NEW t \in Ticket, t # now_serving
          PROVE  Dist(t)' = Dist(t) - 1
      BY <2>3, <2>4, <2>6, <1>0 DEF Dist, Inc, Ticket
    <2>7. Numbered'
      <3>1. \A d \in Outstanding' : me[d] \in Ticket /\ me[d] # now_serving
        BY <2>1, <2>3 DEF Numbered, Outstanding, TypeOK
      <3>2. \A d, e \in Outstanding' : me'[d] = me'[e] => d = e
        BY <2>1, <2>3 DEF Numbered
      <3>3. ASSUME NEW d \in Outstanding' PROVE Dist(me[d])' < k - 1
        <4>1. Dist(me[d])' = Dist(me[d]) - 1
          BY <3>1, <2>3, <2>6 DEF Dist
        <4>2. Dist(me[d]) < k
          BY <2>1 DEF Numbered
        <4>3. Dist(me[d]) \in Int
          BY <3>1, <2>4, <1>0 DEF Dist, Ticket
        <4> QED
          BY <4>1, <4>2, <4>3, <1>0
      <3>4. next_ticket # now_serving
        <4>1. Dist(me[c]) < k
          BY <2>1 DEF Numbered
        <4>2. Dist(next_ticket) = k
          BY DEF Numbered
        <4> QED
          BY <4>1, <4>2, <2>3, <2>4, <1>0 DEF Dist, Ticket
      <3>5. Dist(next_ticket)' = k - 1
        BY <3>4, <2>3, <2>4, <2>6 DEF Numbered, Dist
      <3>6. ASSUME NEW j \in 0 .. k - 2 PROVE \E d \in Outstanding' : Dist(me[d])' = j
        <4>1. PICK d \in Outstanding : Dist(me[d]) = j + 1
          BY <1>0 DEF Numbered
        <4>2. d # c
          BY <4>1, <2>3, <2>4, <1>0 DEF Dist, Ticket
        <4>3. Dist(me[d])' = Dist(me[d]) - 1
          BY <4>2, <2>1, <2>3, <2>6, <3>1 DEF Dist
        <4> QED
          BY <4>1, <4>2, <4>3, <2>1
      <3> QED
        BY <3>2, <3>3, <3>5, <3>6, <2>2, <1>0 DEF Numbered
    <2>8. Serving'
      <3> SUFFICES ASSUME NEW d \in Core
                   PROVE  /\ pc'[d] \in Held => me'[d] = now_serving'
                          /\ pc'[d] = "rel_store" => tmp'[d] = now_serving'
                          /\ pc'[d] # "idle" => round'[d] < PerCore
        BY DEF Serving
      <3>1. CASE d = c
        BY <3>1, <1>6 DEF unlock_store, Goto, Held, TypeOK
      <3>2. CASE d # c
        <4>1. pc[d] \notin Held
          BY <3>2, <2>1, <2>3 DEF Serving, Numbered, Outstanding, Held
        <4> QED
          BY <3>2, <4>1, <1>6 DEF unlock_store, Goto, Serving, Held, TypeOK
      <3> QED
        BY <3>1, <3>2
    <2> QED
      BY <2>5, <2>7, <2>8
  <1>7. CASE UNCHANGED vars
    <2>1. TypeOK' /\ Serving'
      BY <1>7 DEF vars, TypeOK, Serving
    <2>2. Numbered'
      BY <1>7 DEF vars, Numbered, Outstanding, Dist
    <2> QED
      BY <2>1, <2>2
  <1> QED
    BY <1>1, <1>2, <1>3, <1>4, <1>5, <1>6, <1>7 DEF Next, Step, Finished

\* The invariant holds of every reachable state.
THEOREM TicketInvariant == Spec => []IInv
  BY InitIInv, StepIInv, PTL DEF Spec

\* The type invariant: in particular no ticket leaves the range of an
\* unsigned int, however long the lock is used.
THEOREM TicketTypes == Spec => []TypeOK
  <1>1. IInv => TypeOK
    BY DEF IInv
  <1> QED
    BY <1>1, TicketInvariant, PTL

\* spin_lock and spin_unlock exclude, for any number of cores smaller than
\* the number of ticket values and through any number of wrap-arounds.
THEOREM TicketMutualExclusion == Spec => []MutualExclusion
  <1>1. IInv => MutualExclusion
    BY DEF IInv, Numbered, Serving, MutualExclusion, Outstanding, Held
  <1> QED
    BY <1>1, TicketInvariant, PTL

\* All pairs of a core and a round, and the stored increments among them.
LEMMA TicketRounds ==
    /\ IsFiniteSet(Core \X (1 .. PerCore))
    /\ Cardinality(Core \X (1 .. PerCore)) = Cardinality(Core) * PerCore
    /\ IsFiniteSet(Incremented) /\ Cardinality(Incremented) \in Nat
  <1>1. IsFiniteSet(1 .. PerCore) /\ Cardinality(1 .. PerCore) = PerCore
    BY PerCoreAssumption, FS_Interval
  <1>2. IsFiniteSet(Core \X (1 .. PerCore))
    BY <1>1, CoreAssumption, FS_Product
  <1>3. Incremented \in SUBSET (Core \X (1 .. PerCore))
    BY DEF Incremented
  <1>4. IsFiniteSet(Incremented)
    BY <1>2, <1>3, FS_Subset
  <1> QED
    BY <1>1, <1>2, <1>4, CoreAssumption, FS_Product, FS_CardinalityType

\* st_counter counts the rounds whose store is done: the load and the store of
\* one increment are in one critical section.
LEMMA TicketCountStep == IInv /\ TicketCount /\ [Next]_vars => TicketCount'
  <1> SUFFICES ASSUME IInv, TicketCount, [Next]_vars PROVE TicketCount'
    OBVIOUS
  <1>0. \A p \in Core : round[p] \in Nat /\ round[p] <= PerCore /\ pc[p] \in Places
    BY PerCoreAssumption DEF IInv, TypeOK
  <1>1. CASE \E c \in Core : st_store(c)
    <2>1. PICK c \in Core : st_store(c)
      BY <1>1
    <2>2. /\ pc[c] = "cs_store" /\ st_counter' = tmp[c] + 1
          /\ \A p \in Core : pc'[p] = IF p = c THEN "rel_load" ELSE pc[p]
          /\ UNCHANGED <<tmp, round>>
      BY <2>1 DEF st_store, Goto, IInv, TypeOK
    <2>3. round[c] + 1 \in 1 .. PerCore
      BY <2>2, <1>0, PerCoreAssumption DEF IInv, Serving
    <2>4. ASSUME NEW p \in Core, NEW r \in 1 .. PerCore
          PROVE  <<p, r>> \in Incremented' <=>
                    <<p, r>> \in Incremented \/ (p = c /\ r = round[c] + 1)
      BY <2>2, <1>0 DEF Incremented
    <2>5. /\ Incremented' \subseteq Core \X (1 .. PerCore)
          /\ Incremented \subseteq Core \X (1 .. PerCore)
      BY DEF Incremented
    <2>6. <<c, round[c] + 1>> \notin Incremented
      BY <2>2, <1>0 DEF Incremented
    <2>7. Incremented' = Incremented \cup {<<c, round[c] + 1>>}
      BY <2>3, <2>4, <2>5, <2>6
    <2>8. Cardinality(Incremented') = Cardinality(Incremented) + 1
      BY <2>6, <2>7, TicketRounds, FS_AddElement
    <2>9. \A d \in Core : d # c => pc[d] \notin Held
      BY <2>2 DEF IInv, Numbered, Serving, Outstanding, Held
    <2> QED
      BY <2>2, <2>8, <2>9 DEF TicketCount, Held
  <1>2. CASE UNCHANGED vars
    BY <1>2 DEF vars, TicketCount, Incremented
  <1>3. ASSUME NEW c \in Core, Step(c), ~st_store(c) PROVE TicketCount'
    <2>1. /\ st_counter' = st_counter
          /\ \A p \in Core : p # c => pc'[p] = pc[p] /\ round'[p] = round[p]
          /\ \/ pc[c] = "rel_store" /\ round'[c] = round[c] + 1 /\ pc'[c] = "idle"
             \/ /\ round'[c] = round[c]
                /\ pc[c] \in {"rel_load", "rel_store"} <=> pc'[c] \in {"rel_load", "rel_store"}
      BY <1>3 DEF Step, fetch_add, spin_wait, st_load, unlock_load, unlock_store, Goto,
                  lockVars, IInv, TypeOK
    <2>2. Incremented' = Incremented
      <3>1. ASSUME NEW p \in Core, NEW r \in 1 .. PerCore
            PROVE  <<p, r>> \in Incremented' <=> <<p, r>> \in Incremented
        BY <2>1, <1>0 DEF Incremented
      <3>2. /\ Incremented' \subseteq Core \X (1 .. PerCore)
            /\ Incremented \subseteq Core \X (1 .. PerCore)
        BY DEF Incremented
      <3> QED
        BY <3>1, <3>2
    <2>3. \A p \in Core : pc'[p] = "cs_store" => tmp'[p] = st_counter
      BY <1>3 DEF Step, fetch_add, spin_wait, st_load, unlock_load, unlock_store, Goto,
                  lockVars, IInv, TypeOK, TicketCount
    <2> QED
      BY <2>1, <2>2, <2>3 DEF TicketCount
  <1> QED
    BY <1>1, <1>2, <1>3 DEF Next, Finished

\* Different numbers come up at different times.
LEMMA DistInjective ==
    ASSUME TypeOK, NEW s \in Ticket, NEW t \in Ticket, Dist(s) = Dist(t)
    PROVE  s = t
  BY ModulusAssumption DEF TypeOK, Ticket, Dist

\* Every place of the service order is taken, by the core whose number comes up
\* there.
OrderExact ==
    /\ ServiceOrder \in Seq(Core)
    /\ Len(ServiceOrder) = Cardinality(Outstanding)
    /\ \A i \in 1 .. Cardinality(Outstanding) :
          /\ ServiceOrder[i] \in Outstanding
          /\ \A c \in Outstanding : ServiceOrder[i] = c <=> Dist(me[c]) = i - 1

\* The invariant determines the order of service.
LEMMA ServiceOrderExact == IInv => OrderExact
  <1> SUFFICES ASSUME IInv PROVE OrderExact
    OBVIOUS
  <1> DEFINE k == Cardinality(Outstanding)
  <1>1. k \in Nat
    BY OutstandingBound
  <1>2. ASSUME NEW i \in 1 .. k
        PROVE  /\ ServiceOrder[i] \in Outstanding
               /\ Dist(me[ServiceOrder[i]]) = i - 1
               /\ \A c \in Outstanding : Dist(me[c]) = i - 1 => ServiceOrder[i] = c
    <2>1. AtPlace(i) # {}
      BY <1>1 DEF IInv, Numbered, AtPlace
    <2>2. ServiceOrder[i] \in AtPlace(i)
      BY <2>1 DEF ServiceOrder
    <2>3. ServiceOrder[i] \in Outstanding /\ Dist(me[ServiceOrder[i]]) = i - 1
      BY <2>2 DEF AtPlace
    <2>4. ASSUME NEW c \in Outstanding, Dist(me[c]) = i - 1 PROVE ServiceOrder[i] = c
      <3>1. me[c] \in Ticket /\ me[ServiceOrder[i]] \in Ticket
        BY <2>3 DEF IInv, TypeOK, Outstanding
      <3>2. me[c] = me[ServiceOrder[i]]
        BY <2>3, <2>4, <3>1, DistInjective DEF IInv
      <3> QED
        BY <2>3, <3>2 DEF IInv, Numbered
    <2> QED
      BY <2>3, <2>4
  <1>3. ServiceOrder = [i \in 1 .. k |-> ServiceOrder[i]]
    BY DEF ServiceOrder
  <1>4. \A i \in 1 .. k : ServiceOrder[i] \in Core
    BY <1>2 DEF Outstanding
  <1>5. ServiceOrder \in Seq(Core) /\ Len(ServiceOrder) = k
    BY <1>1, <1>3, <1>4
  <1> QED
    BY <1>2, <1>5 DEF OrderExact

\* Somebody is in the critical section.
Taken == \E c \in Core : pc[c] \in Held

\* A step that leaves the numbers, and who has one, leaves the service order.
LEMMA SameOrder ==
    ASSUME OrderExact, OrderExact', UNCHANGED <<me, now_serving>>,
           Outstanding' = Outstanding
    PROVE  ServiceOrder' = ServiceOrder
  <1>1. /\ ServiceOrder \in Seq(Core) /\ ServiceOrder' \in Seq(Core)
        /\ Len(ServiceOrder) = Cardinality(Outstanding)
        /\ Len(ServiceOrder') = Cardinality(Outstanding)
    BY DEF OrderExact
  <1>2. ASSUME NEW i \in 1 .. Cardinality(Outstanding)
        PROVE  ServiceOrder'[i] = ServiceOrder[i]
    <2>1. /\ ServiceOrder[i] \in Outstanding
          /\ Dist(me[ServiceOrder[i]]) = i - 1
      BY DEF OrderExact
    <2>2. \A d \in Outstanding : ServiceOrder'[i] = d <=> Dist(me[d]) = i - 1
      BY DEF OrderExact, Dist
    <2> QED
      BY <2>1, <2>2
  <1> QED
    BY <1>1, <1>2, SeqEqual

\* Every step of the ticket lock is a step of the first-come first-served lock
\* or changes nothing that it sees.
LEMMA TicketStepFifo ==
    IInv /\ IInv' /\ [Next]_vars => [Fifo!Next]_(Fifo!vars)
  <1> SUFFICES ASSUME IInv, IInv', [Next]_vars PROVE [Fifo!Next]_(Fifo!vars)
    OBVIOUS
  <1>k. Cardinality(Outstanding) \in Nat /\ IsFiniteSet(Outstanding)
    BY OutstandingBound
  <1>o. OrderExact /\ OrderExact'
    BY ServiceOrderExact, PTL
  <1>p. pc \in [Core -> Places]
    BY DEF IInv, TypeOK
  <1> DEFINE k == Cardinality(Outstanding)
  <1>1. ASSUME NEW c \in Core, fetch_add(c) PROVE Fifo!Ask(c)
    <2>1. c \notin Outstanding /\ Outstanding' = Outstanding \cup {c}
      BY <1>1, <1>p DEF fetch_add, Goto, Outstanding
    <2>2. Cardinality(Outstanding') = k + 1
      BY <2>1, <1>k, FS_AddElement
    <2>3. \A d \in Outstanding : Dist(me[d])' = Dist(me[d])
      BY <1>1, <2>1 DEF fetch_add, Outstanding, IInv, TypeOK, Dist
    <2>4. Taken' = Taken
      BY <1>1, <1>p DEF fetch_add, Goto, Taken, Held
    <2>5. Dist(me[c])' = k
      BY <1>1 DEF fetch_add, IInv, TypeOK, Numbered, Dist
    <2>6. ServiceOrder' = Append(ServiceOrder, c)
      <3>1. /\ ServiceOrder \in Seq(Core) /\ ServiceOrder' \in Seq(Core)
            /\ Len(ServiceOrder) = k /\ Len(ServiceOrder') = k + 1
        BY <2>2, <1>o DEF OrderExact
      <3>2. /\ Append(ServiceOrder, c) \in Seq(Core)
            /\ Len(Append(ServiceOrder, c)) = k + 1
            /\ Append(ServiceOrder, c)[k + 1] = c
            /\ \A i \in 1 .. k : Append(ServiceOrder, c)[i] = ServiceOrder[i]
        BY <3>1, <1>k
      <3>0. \A i \in 1 .. k + 1 : \A d \in Outstanding' :
               Dist(me[d])' = i - 1 => ServiceOrder'[i] = d
        BY <2>2, <1>o DEF OrderExact
      <3>3. ServiceOrder'[k + 1] = c
        BY <2>1, <2>5, <1>k, <3>0
      <3>4. ASSUME NEW i \in 1 .. k PROVE ServiceOrder'[i] = ServiceOrder[i]
        <4>1. ServiceOrder[i] \in Outstanding /\ Dist(me[ServiceOrder[i]]) = i - 1
          BY <1>o DEF OrderExact
        <4>2. ASSUME NEW d \in Outstanding, d = ServiceOrder[i] PROVE ServiceOrder'[i] = d
          BY <4>1, <4>2, <2>1, <2>3, <1>k, <3>0
        <4> QED
          BY <4>1, <4>2
      <3> QED
        BY <3>1, <3>2, <3>3, <3>4, <1>k, SeqEqual
    <2>7. ~Fifo!Queued(c)
      BY <2>1, <1>k, <1>o DEF OrderExact, Fifo!Queued
    <2> QED
      BY <2>4, <2>6, <2>7 DEF Fifo!Ask, Taken
  <1>2. ASSUME NEW c \in Core, spin_wait(c) PROVE Fifo!Enter(c)
    <2>1. Outstanding' = Outstanding /\ c \in Outstanding
      BY <1>2, <1>p DEF spin_wait, Goto, Outstanding
    <2>2. ServiceOrder' = ServiceOrder
      BY <1>2, <1>o, <2>1, SameOrder DEF spin_wait, lockVars
    <2>3. k > 0
      BY <2>1, <1>k, FS_EmptySet
    <2>4. Dist(me[c]) = 0
      BY <1>2 DEF spin_wait, Dist, IInv, TypeOK, Ticket
    <2>5. ServiceOrder[1] = c
      BY <2>1, <2>3, <2>4, <1>k, <1>o DEF OrderExact
    <2>6. ServiceOrder # <<>> /\ Head(ServiceOrder) = c
      BY <2>3, <2>5, <1>k, <1>o DEF OrderExact
    <2>7. ~Taken
      BY <1>2, <2>1 DEF spin_wait, Taken, Held, IInv, Serving, Numbered, Outstanding
    <2>8. Taken'
      BY <1>2, <1>p DEF spin_wait, Goto, Taken, Held
    <2> QED
      BY <2>2, <2>6, <2>7, <2>8 DEF Fifo!Enter, Taken
  <1>3. ASSUME NEW c \in Core, unlock_store(c) PROVE Fifo!Leave(c)
    <2>1. c \in Outstanding /\ Outstanding' = Outstanding \ {c}
      BY <1>3, <1>p DEF unlock_store, Goto, Outstanding
    <2>2. Cardinality(Outstanding') = k - 1 /\ k > 0
      BY <2>1, <1>k, FS_RemoveElement, FS_EmptySet
    <2>3. /\ me[c] = now_serving /\ me' = me /\ tmp[c] = now_serving
          /\ now_serving' = Inc(now_serving) /\ now_serving \in Ticket
      BY <1>3 DEF unlock_store, IInv, Serving, Held, TypeOK
    <2>4. ASSUME NEW d \in Outstanding, d # c PROVE Dist(me[d])' = Dist(me[d]) - 1
      <3>1. me[d] \in Ticket /\ me[d] # now_serving
        BY <2>1, <2>3, <2>4 DEF IInv, Numbered, Outstanding, TypeOK
      <3> QED
        BY <2>3, <3>1, ModulusAssumption DEF Dist, Inc, Ticket
    <2>5. ServiceOrder[1] = c
      <3>1. Dist(me[c]) = 0
        BY <2>3 DEF Dist, Ticket
      <3> QED
        BY <2>1, <2>2, <3>1, <1>k, <1>o DEF OrderExact
    <2>6. /\ ServiceOrder \in Seq(Core) /\ ServiceOrder' \in Seq(Core)
          /\ Len(ServiceOrder) = k /\ Len(ServiceOrder') = k - 1
      BY <2>2, <1>o DEF OrderExact
    <2>7. ServiceOrder # <<>> /\ Head(ServiceOrder) = c
      BY <2>2, <2>5, <2>6
    <2>8. /\ Tail(ServiceOrder) \in Seq(Core) /\ Len(Tail(ServiceOrder)) = k - 1
          /\ \A i \in 1 .. k - 1 : Tail(ServiceOrder)[i] = ServiceOrder[i + 1]
      BY <2>6, <2>7, <1>k, HeadTailProperties
    <2>9. ASSUME NEW i \in 1 .. k - 1 PROVE ServiceOrder'[i] = ServiceOrder[i + 1]
      <3>1. /\ i + 1 \in 1 .. k
            /\ ServiceOrder[i + 1] \in Outstanding
            /\ Dist(me[ServiceOrder[i + 1]]) = i
        BY <1>k, <1>o DEF OrderExact
      <3>2. ServiceOrder[i + 1] # c
        BY <2>3, <3>1 DEF Dist, Ticket
      <3>3. ASSUME NEW d \in Outstanding, d # c, d = ServiceOrder[i + 1]
            PROVE  ServiceOrder'[i] = d
        <4>1. Dist(me[d])' = i - 1
          BY <2>4, <3>1, <3>3
        <4> QED
          BY <4>1, <3>3, <2>1, <2>2, <1>o DEF OrderExact
      <3> QED
        BY <3>1, <3>2, <3>3
    <2>10. ServiceOrder' = Tail(ServiceOrder)
      BY <2>6, <2>8, <2>9, <1>k, SeqEqual
    <2>11. Taken
      BY <1>3 DEF unlock_store, Taken, Held
    <2>12. ~Taken'
      <3>1. \A d \in Core : d # c => pc[d] \notin Held
        BY <2>1, <2>3 DEF IInv, Serving, Numbered, Outstanding, Held
      <3> QED
        BY <1>3, <3>1, <1>p DEF unlock_store, Goto, Taken, Held
    <2> QED
      BY <2>7, <2>10, <2>11, <2>12 DEF Fifo!Leave, Taken
  <1>4. ASSUME NEW c \in Core, st_load(c) \/ st_store(c) \/ unlock_load(c)
        PROVE  UNCHANGED Fifo!vars
    <2>1. UNCHANGED <<me, now_serving>>
      BY <1>4 DEF st_load, st_store, unlock_load, lockVars
    <2>2. \A d \in Core : /\ pc'[d] # "idle" <=> pc[d] # "idle"
                          /\ pc'[d] \in Held <=> pc[d] \in Held
      BY <1>4, <1>p DEF st_load, st_store, unlock_load, Goto, Held
    <2>3. Outstanding' = Outstanding /\ Taken' = Taken
      BY <2>2 DEF Outstanding, Taken
    <2> QED
      BY <2>1, <2>3, <1>o, SameOrder DEF Fifo!vars, Taken
  <1>5. CASE UNCHANGED vars
    <2>1. Outstanding' = Outstanding /\ Taken' = Taken
      BY <1>5 DEF vars, Outstanding, Taken
    <2> QED
      BY <2>1, <1>5, <1>o, SameOrder DEF vars, Fifo!vars, Taken
  <1> QED
    BY <1>1, <1>2, <1>3, <1>4, <1>5 DEF Next, Step, Finished, Fifo!Next

\* The comment at spinlock.c:29-30, its safety half: the ticket lock implements
\* the first-come first-served lock, through every wrap-around of the tickets.
\* Nobody enters out of turn, and the queue changes at its ends alone.
THEOREM TicketImplementsFifo == Spec => Fifo!Init /\ [][Fifo!Next]_(Fifo!vars)
  <1>1. Init => Fifo!Init
    <2> SUFFICES ASSUME Init PROVE Fifo!Init
      OBVIOUS
    <2>1. Outstanding = {} /\ ~Taken
      BY DEF Init, Outstanding, Taken, Held
    <2>2. OrderExact
      BY InitIInv, ServiceOrderExact
    <2>3. ServiceOrder \in Seq(Core) /\ Len(ServiceOrder) = 0
      BY <2>1, <2>2, FS_EmptySet DEF OrderExact
    <2>4. ServiceOrder = <<>>
      BY <2>3, EmptySeq
    <2> QED
      BY <2>1, <2>4 DEF Fifo!Init, Taken
  <1> QED
    BY <1>1, TicketInvariant, TicketStepFifo, PTL DEF Spec

-----------------------------------------------------------------------------
\* The bakery lock's cores.
Ids == Bakery!CoreId

\* The core has stored its number and not cleared it.
HasNumber(c) == b_pc[c] \notin {"idle", "scan"}

\* What the shared arrays and the loop index say of where a core is.
BakeryArrays ==
    \A c \in Ids :
        /\ choosing[c] = 1 <=> b_pc[c] \in {"scan", "clear"}
        /\ number[c] = 0 <=> ~HasNumber(c)
        /\ b_pc[c] \in {"nonzero", "less", "equal"} => b_i[c] < NCORES /\ b_i[c] # c
        /\ b_pc[c] # "idle" => b_round[c] < BakeryPerCore

\* The takings of the lock so far, as pairs of a core and a round of it: no
\* number is larger than there are takings, so none wraps.
Takings ==
    {p \in Ids \X (1 .. BakeryPerCore) :
        \/ p[2] <= b_round[p[1]]
        \/ p[2] = b_round[p[1]] + 1 /\ HasNumber(p[1])}

BakeryBound ==
    \A c \in Ids : number[c] <= Cardinality(Takings) /\ b_max[c] <= Cardinality(Takings)

\* d, if it is choosing, will choose a number larger than c's.
WillFollow(c, d) ==
    /\ b_pc[d] = "scan" => b_i[d] <= c \/ b_max[d] >= number[c]
    /\ b_pc[d] = "clear" => number[d] > number[c]

\* c goes before d.
Before(c, d) ==
    /\ WillFollow(c, d)
    /\ number[d] # 0 => number[c] < number[d] \/ (number[c] = number[d] /\ c < d)

\* c has ended its wait for d.
Passed(c, d) == b_pc[c] \in Bakery!Held \/ (b_pc[c] \in Bakery!Waiting /\ d < b_i[c])

\* Whoever c has passed comes after it.  While c waits for d, d either had
\* its number when c looked, or it follows; and what the second load of
\* number[d] has seen is not undone before the third.
BakeryOrder ==
    \A c, d \in Ids : c # d =>
        /\ Passed(c, d) => Before(c, d)
        /\ b_pc[c] \in {"nonzero", "less", "equal"} /\ b_i[c] = d => WillFollow(c, d)
        /\ b_pc[c] = "equal" /\ b_i[c] = d => number[d] = 0 \/ number[d] >= number[c]

\* Whoever had its number when c began still has it, and c's is larger.
BakeryAhead ==
    \A c \in Ids : \A d \in b_ahead[c] :
        /\ d # c /\ b_pc[d] \in Bakery!Waiting \cup Bakery!Held
        /\ b_pc[c] # "idle"
        /\ b_pc[c] = "scan" => b_i[c] <= d \/ b_max[c] >= number[d]
        /\ b_pc[c] # "scan" => number[c] > number[d]

\* The increments stored so far, as pairs of a core and a round of it.
Counted ==
    {p \in Ids \X (1 .. BakeryPerCore) :
        \/ p[2] <= b_round[p[1]]
        \/ p[2] = b_round[p[1]] + 1 /\ b_pc[p[1]] = "release"}

BakeryCount ==
    /\ b_counter = Cardinality(Counted)
    /\ \A c \in Ids : b_pc[c] = "cs_store" => b_tmp[c] = b_counter

BakeryInv ==
    /\ Bakery!TypeOK /\ BakeryArrays /\ BakeryBound
    /\ BakeryOrder /\ BakeryAhead /\ BakeryCount

\* What is assumed of the bakery lock's constants.
LEMMA BakeryConstants ==
    /\ NCORES \in Nat \ {0} /\ BakeryModulus \in Nat \ {0} /\ BakeryPerCore \in Nat \ {0}
    /\ NCORES * BakeryPerCore < BakeryModulus
  BY BakeryAssumption, NumbersAssumption DEF Bakery!ConstantsOK

\* All pairs of a core and a round.
LEMMA AllRounds ==
    /\ IsFiniteSet(Ids \X (1 .. BakeryPerCore))
    /\ Cardinality(Ids \X (1 .. BakeryPerCore)) = NCORES * BakeryPerCore
  <1>1. IsFiniteSet(Ids) /\ Cardinality(Ids) = NCORES
    BY BakeryConstants, FS_Interval DEF Ids, Bakery!CoreId
  <1>2. IsFiniteSet(1 .. BakeryPerCore) /\ Cardinality(1 .. BakeryPerCore) = BakeryPerCore
    BY BakeryConstants, FS_Interval
  <1> QED
    BY <1>1, <1>2, FS_Product

\* The lock is taken at most once per core and round, before and after a step.
LEMMA TakingsFinite ==
    /\ IsFiniteSet(Takings) /\ Cardinality(Takings) \in Nat
    /\ Cardinality(Takings) <= NCORES * BakeryPerCore
    /\ IsFiniteSet(Takings') /\ Cardinality(Takings') \in Nat
    /\ Cardinality(Takings') <= NCORES * BakeryPerCore
  <1>1. Takings \in SUBSET (Ids \X (1 .. BakeryPerCore))
    BY DEF Takings
  <1>2. Takings' \in SUBSET (Ids \X (1 .. BakeryPerCore))
    BY DEF Takings, Ids
  <1> QED
    BY <1>1, <1>2, AllRounds, FS_Subset, FS_CardinalityType

\* The stored increments are finitely many.
LEMMA CountedFinite == IsFiniteSet(Counted) /\ Cardinality(Counted) \in Nat
  <1>1. Counted \in SUBSET (Ids \X (1 .. BakeryPerCore))
    BY DEF Counted
  <1> QED
    BY <1>1, AllRounds, FS_Subset, FS_CardinalityType

\* What the numbers say of the cores that hold the lock: there is one, and
\* whoever had its number before it asked has released.
LEMMA BakeryInOrder == BakeryInv => Bakery!MutualExclusion /\ Bakery!NotOvertaken
  <1> SUFFICES ASSUME BakeryInv PROVE Bakery!MutualExclusion /\ Bakery!NotOvertaken
    OBVIOUS
  <1>1. ASSUME NEW c \in Ids, NEW d \in Ids, c # d, b_pc[c] \in Bakery!Held, HasNumber(d)
        PROVE  /\ number[c] < number[d] \/ (number[c] = number[d] /\ c < d)
               /\ number[c] \in Int /\ number[d] \in Int /\ c \in Int /\ d \in Int
    BY <1>1, BakeryConstants
       DEF BakeryInv, BakeryOrder, BakeryArrays, Passed, Before, Bakery!TypeOK, Ids, Bakery!CoreId
  <1>2. Bakery!MutualExclusion
    <2>1. ASSUME NEW c \in Ids, NEW d \in Ids, c # d,
                 b_pc[c] \in Bakery!Held, b_pc[d] \in Bakery!Held
          PROVE  FALSE
      <3>1. HasNumber(c) /\ HasNumber(d)
        BY <2>1 DEF HasNumber, Bakery!Held
      <3> QED
        BY <2>1, <3>1, <1>1
    <2> QED
      BY <2>1 DEF Bakery!MutualExclusion, Ids
  <1>3. Bakery!NotOvertaken
    <2>1. ASSUME NEW c \in Ids, b_pc[c] \in Bakery!Held, NEW d \in b_ahead[c]
          PROVE  FALSE
      <3>1. d \in Ids /\ d # c /\ HasNumber(d) /\ number[c] > number[d]
        BY <2>1 DEF BakeryInv, BakeryAhead, HasNumber, Bakery!Waiting, Bakery!Held,
                    Bakery!TypeOK, Ids
      <3> QED
        BY <2>1, <3>1, <1>1
    <2> QED
      BY <2>1 DEF Bakery!NotOvertaken, Ids
  <1> QED
    BY <1>2, <1>3

\* Every load and store of spin_lock, the self-test and spin_unlock preserves it.
LEMMA BakeryStepInv ==
    BakeryInv /\ (\E c \in Ids : Bakery!Step(c)) => BakeryInv'
  <1> SUFFICES ASSUME BakeryInv, \E c \in Ids : Bakery!Step(c) PROVE BakeryInv'
    OBVIOUS
  <1>0. /\ NCORES \in Nat \ {0} /\ BakeryModulus \in Nat \ {0}
        /\ BakeryPerCore \in Nat \ {0}
    BY BakeryConstants
  <1> USE DEF BakeryInv
  <1>p. \A p \in Ids :
          /\ p \in Int /\ 0 <= p /\ p < NCORES
          /\ choosing[p] \in {0, 1}
          /\ number[p] \in Int /\ number[p] >= 0
          /\ b_pc[p] \in Bakery!Places
          /\ b_i[p] \in Int /\ b_i[p] >= 0 /\ b_i[p] <= NCORES
          /\ b_i[p] < NCORES => b_i[p] \in Ids
          /\ b_max[p] \in Int /\ b_max[p] >= 0
          /\ b_tmp[p] \in Nat
          /\ b_round[p] \in Nat /\ b_round[p] <= BakeryPerCore
          /\ b_ahead[p] \in SUBSET Ids
    <2> SUFFICES ASSUME NEW p \in Ids
                 PROVE  /\ p \in Int /\ 0 <= p /\ p < NCORES
                        /\ choosing[p] \in {0, 1}
                        /\ number[p] \in Int /\ number[p] >= 0
                        /\ b_pc[p] \in Bakery!Places
                        /\ b_i[p] \in Int /\ b_i[p] >= 0 /\ b_i[p] <= NCORES
                        /\ b_i[p] < NCORES => b_i[p] \in Ids
                        /\ b_max[p] \in Int /\ b_max[p] >= 0
                        /\ b_tmp[p] \in Nat
                        /\ b_round[p] \in Nat /\ b_round[p] <= BakeryPerCore
                        /\ b_ahead[p] \in SUBSET Ids
      OBVIOUS
    <2>1. p \in Int /\ 0 <= p /\ p < NCORES
      BY <1>0 DEF Ids, Bakery!CoreId
    <2>2. /\ choosing[p] \in {0, 1}
          /\ number[p] \in Int /\ number[p] >= 0
          /\ b_max[p] \in Int /\ b_max[p] >= 0
          /\ b_i[p] \in Int /\ b_i[p] >= 0 /\ b_i[p] <= NCORES
          /\ b_round[p] \in Nat /\ b_round[p] <= BakeryPerCore
      BY <1>0 DEF Bakery!TypeOK, Ids
    <2>3. b_pc[p] \in Bakery!Places /\ b_tmp[p] \in Nat /\ b_ahead[p] \in SUBSET Ids
      BY DEF Bakery!TypeOK, Ids
    <2>4. b_i[p] < NCORES => b_i[p] \in Ids
      BY <2>2, <1>0 DEF Ids, Bakery!CoreId
    <2> QED
      BY <2>1, <2>2, <2>3, <2>4
  <1>1. ASSUME NEW c \in Ids, Bakery!lock_begin(c) PROVE BakeryInv'
    <2>1. /\ b_pc[c] = "idle" /\ b_round[c] < BakeryPerCore
          /\ \A p \in Ids : b_pc'[p] = IF p = c THEN "scan" ELSE b_pc[p]
          /\ \A p \in Ids : choosing'[p] = IF p = c THEN 1 ELSE choosing[p]
          /\ \A p \in Ids : b_i'[p] = IF p = c THEN 0 ELSE b_i[p]
          /\ \A p \in Ids : b_max'[p] = IF p = c THEN 0 ELSE b_max[p]
          /\ \A p \in Ids : b_ahead'[p] =
               IF p = c THEN {d \in Ids : b_pc[d] \in Bakery!Waiting \cup Bakery!Held}
                        ELSE b_ahead[p]
          /\ UNCHANGED <<number, b_tmp, b_round, b_counter>>
      BY <1>1 DEF Bakery!lock_begin, Bakery!Goto, Bakery!shared, Bakery!test, Bakery!TypeOK, Ids
    <2>2. Bakery!TypeOK'
      <3>1. b_pc' \in [Ids -> Bakery!Places]
        BY <1>1
           DEF Bakery!lock_begin, Bakery!Goto, Bakery!shared, Bakery!test, Bakery!TypeOK,
               Bakery!Places, Ids
      <3>2. choosing' \in [Ids -> 0 .. 1]
        BY <1>1, <2>1, <1>0, <1>p
           DEF Bakery!lock_begin, Bakery!Goto, Bakery!shared, Bakery!test, Bakery!TypeOK, Ids
      <3>3. b_i' \in [Ids -> 0 .. NCORES]
        BY <1>1, <2>1, <1>0, <1>p
           DEF Bakery!lock_begin, Bakery!Goto, Bakery!shared, Bakery!test, Bakery!TypeOK, Ids
      <3>4. b_max' \in [Ids -> 0 .. BakeryModulus - 1]
        BY <1>1, <2>1, <1>0, <1>p
           DEF Bakery!lock_begin, Bakery!Goto, Bakery!shared, Bakery!test, Bakery!TypeOK, Ids
      <3>5. b_ahead' \in [Ids -> SUBSET Ids]
        BY <1>1
           DEF Bakery!lock_begin, Bakery!Goto, Bakery!shared, Bakery!test, Bakery!TypeOK, Ids
      <3> QED
        BY <2>1, <3>1, <3>2, <3>3, <3>4, <3>5 DEF Bakery!TypeOK, Ids
    <2>3. BakeryArrays'
      BY <2>1, <1>p DEF BakeryArrays, HasNumber
    <2>4. BakeryBound'
      <3>1. Takings' = Takings
        BY <2>1, <1>0, <1>p DEF Takings, HasNumber
      <3> QED
        BY <2>1, <3>1, <1>0, <1>p, TakingsFinite DEF BakeryBound
    <2>5. BakeryOrder'
      BY <2>1, <1>p DEF BakeryOrder, Passed, Before, WillFollow, BakeryArrays,
                        HasNumber, Bakery!Held, Bakery!Waiting
    <2>6. BakeryAhead'
      <3>1. \A p \in Ids : p # c => c \notin b_ahead[p]
        BY <2>1 DEF BakeryAhead, Bakery!Held, Bakery!Waiting
      <3>2. ASSUME NEW d \in b_ahead'[c]
            PROVE  d \in Ids /\ d # c /\ b_pc[d] \in Bakery!Waiting \cup Bakery!Held
        BY <2>1 DEF Bakery!Held, Bakery!Waiting
      <3>3. ASSUME NEW p \in Ids, p # c, NEW d \in b_ahead'[p]
            PROVE  d \in b_ahead[p] /\ d \in Ids /\ d # c
        BY <2>1, <3>1, <3>3, <1>p
      <3> QED
        BY <2>1, <3>2, <3>3, <1>p DEF BakeryAhead
    <2>7. BakeryCount'
      <3>1. Counted' = Counted
        BY <2>1, <1>0, <1>p DEF Counted
      <3> QED
        BY <2>1, <3>1, <1>p DEF BakeryCount
    <2> QED
      BY <2>2, <2>3, <2>4, <2>5, <2>6, <2>7 DEF BakeryInv
  <1>2. ASSUME NEW c \in Ids, Bakery!lock_scan(c) PROVE BakeryInv'
    <2>1. /\ b_pc[c] = "scan" /\ b_i[c] < NCORES
          /\ \A p \in Ids : b_pc'[p] = IF p = c THEN "scan" ELSE b_pc[p]
          /\ \A p \in Ids : b_max'[p] =
               IF p = c THEN IF number[b_i[c]] > b_max[c] THEN number[b_i[c]] ELSE b_max[c]
                        ELSE b_max[p]
          /\ \A p \in Ids : b_i'[p] = IF p = c THEN b_i[c] + 1 ELSE b_i[p]
          /\ UNCHANGED <<choosing, number, b_tmp, b_round, b_counter, b_ahead>>
      BY <1>2 DEF Bakery!lock_scan, Bakery!Goto, Bakery!shared, Bakery!test, Bakery!TypeOK, Ids
    <2>2. Bakery!TypeOK'
      <3>1. b_pc' \in [Ids -> Bakery!Places]
        BY <1>2
           DEF Bakery!lock_scan, Bakery!Goto, Bakery!shared, Bakery!test, Bakery!TypeOK,
               Bakery!Places, Ids
      <3>2. b_max' \in [Ids -> 0 .. BakeryModulus - 1]
        BY <1>2, <2>1, <1>0, <1>p
           DEF Bakery!lock_scan, Bakery!Goto, Bakery!shared, Bakery!test, Bakery!TypeOK, Ids
      <3>3. b_i' \in [Ids -> 0 .. NCORES]
        BY <1>2, <2>1, <1>0, <1>p
           DEF Bakery!lock_scan, Bakery!Goto, Bakery!shared, Bakery!test, Bakery!TypeOK, Ids
      <3> QED
        BY <2>1, <3>1, <3>2, <3>3 DEF Bakery!TypeOK, Ids
    <2>3. BakeryArrays'
      BY <2>1, <1>p DEF BakeryArrays, HasNumber
    <2>4. BakeryBound'
      <3>1. Takings' = Takings
        BY <2>1, <1>0, <1>p DEF Takings, HasNumber
      <3> QED
        BY <2>1, <3>1, <1>0, <1>p, TakingsFinite DEF BakeryBound
    <2>5. BakeryOrder'
      BY <2>1, <1>p DEF BakeryOrder, Passed, Before, WillFollow, BakeryArrays,
                        HasNumber, Bakery!Held, Bakery!Waiting
    <2>6. BakeryAhead'
      BY <2>1, <1>p DEF BakeryAhead, BakeryArrays, HasNumber, Bakery!Held, Bakery!Waiting
    <2>7. BakeryCount'
      <3>1. Counted' = Counted
        BY <2>1, <1>0, <1>p DEF Counted
      <3> QED
        BY <2>1, <3>1, <1>p DEF BakeryCount
    <2> QED
      BY <2>2, <2>3, <2>4, <2>5, <2>6, <2>7 DEF BakeryInv
  <1>3. ASSUME NEW c \in Ids, Bakery!lock_number(c) PROVE BakeryInv'
    <2>a. /\ b_pc[c] = "scan" /\ b_i[c] = NCORES
          /\ \A p \in Ids : b_pc'[p] = IF p = c THEN "clear" ELSE b_pc[p]
          /\ \A p \in Ids : number'[p] =
               IF p = c THEN (b_max[c] + 1) % BakeryModulus ELSE number[p]
          /\ UNCHANGED <<choosing, b_i, b_max, b_tmp, b_round, b_counter, b_ahead>>
      BY <1>3
         DEF Bakery!lock_number, Bakery!Goto, Bakery!shared, Bakery!test, Bakery!TypeOK, Ids
    <2>b. /\ <<c, b_round[c] + 1>> \notin Takings
          /\ Takings' = Takings \cup {<<c, b_round[c] + 1>>}
      <3>1. b_round[c] + 1 \in 1 .. BakeryPerCore
        BY <2>a, <1>0, <1>p DEF BakeryArrays
      <3>2. ASSUME NEW p \in Ids, NEW r \in 1 .. BakeryPerCore
            PROVE  <<p, r>> \in Takings' <=>
                      <<p, r>> \in Takings \/ (p = c /\ r = b_round[c] + 1)
        BY <2>a, <1>0, <1>p DEF Takings, HasNumber
      <3>3. /\ Takings' \subseteq Ids \X (1 .. BakeryPerCore)
            /\ Takings \subseteq Ids \X (1 .. BakeryPerCore)
        BY DEF Takings, Ids
      <3>4. <<c, b_round[c] + 1>> \notin Takings
        BY <2>a, <1>p DEF Takings, HasNumber
      <3> QED
        BY <3>1, <3>2, <3>3, <3>4
    <2>c. Cardinality(Takings') = Cardinality(Takings) + 1
      BY <2>b, TakingsFinite, FS_AddElement
    <2>d. b_max[c] + 1 < BakeryModulus
      BY <2>c, <1>0, <1>p, TakingsFinite, BakeryConstants DEF BakeryBound
    <2>e. (b_max[c] + 1) % BakeryModulus = b_max[c] + 1
      BY <2>d, <1>0, <1>p
    <2>1. /\ b_pc[c] = "scan" /\ b_i[c] = NCORES
          /\ \A p \in Ids : b_pc'[p] = IF p = c THEN "clear" ELSE b_pc[p]
          /\ \A p \in Ids : number'[p] =
               IF p = c THEN b_max[c] + 1
                        ELSE number[p]
          /\ UNCHANGED <<choosing, b_i, b_max, b_tmp, b_round, b_counter, b_ahead>>
      BY <2>a, <2>e
    <2>2. Bakery!TypeOK'
      <3>1. b_pc' \in [Ids -> Bakery!Places]
        BY <1>3
           DEF Bakery!lock_number, Bakery!Goto, Bakery!shared, Bakery!test, Bakery!TypeOK,
               Bakery!Places, Ids
      <3>2. number' \in [Ids -> 0 .. BakeryModulus - 1]
        BY <1>3, <2>1, <1>0, <1>p, <2>d, <2>e
           DEF Bakery!lock_number, Bakery!Goto, Bakery!shared, Bakery!test, Bakery!TypeOK, Ids
      <3> QED
        BY <2>1, <3>1, <3>2 DEF Bakery!TypeOK, Ids
    <2>3. BakeryArrays'
      BY <2>1, <1>p DEF BakeryArrays, HasNumber
    <2>4. BakeryBound'
      BY <2>1, <2>c, <1>0, <1>p, TakingsFinite DEF BakeryBound
    <2>5. BakeryOrder'
      BY <2>1, <1>p DEF BakeryOrder, Passed, Before, WillFollow, BakeryArrays,
                        HasNumber, Bakery!Held, Bakery!Waiting
    <2>6. BakeryAhead'
      BY <2>1, <1>p DEF BakeryAhead, BakeryArrays, HasNumber, Bakery!Held, Bakery!Waiting
    <2>7. BakeryCount'
      <3>1. Counted' = Counted
        BY <2>1, <1>0, <1>p DEF Counted
      <3> QED
        BY <2>1, <3>1, <1>p DEF BakeryCount
    <2> QED
      BY <2>2, <2>3, <2>4, <2>5, <2>6, <2>7 DEF BakeryInv
  <1>4. ASSUME NEW c \in Ids, Bakery!lock_clear(c) PROVE BakeryInv'
    <2>1. /\ b_pc[c] = "clear"
          /\ \A p \in Ids : b_pc'[p] = IF p = c THEN "choosing" ELSE b_pc[p]
          /\ \A p \in Ids : choosing'[p] = IF p = c THEN 0 ELSE choosing[p]
          /\ \A p \in Ids : b_i'[p] = IF p = c THEN 0 ELSE b_i[p]
          /\ UNCHANGED <<number, b_max, b_tmp, b_round, b_counter, b_ahead>>
      BY <1>4 DEF Bakery!lock_clear, Bakery!Goto, Bakery!shared, Bakery!test, Bakery!TypeOK, Ids
    <2>2. Bakery!TypeOK'
      <3>1. b_pc' \in [Ids -> Bakery!Places]
        BY <1>4
           DEF Bakery!lock_clear, Bakery!Goto, Bakery!shared, Bakery!test, Bakery!TypeOK,
               Bakery!Places, Ids
      <3>2. choosing' \in [Ids -> 0 .. 1]
        BY <1>4, <2>1, <1>0, <1>p
           DEF Bakery!lock_clear, Bakery!Goto, Bakery!shared, Bakery!test, Bakery!TypeOK, Ids
      <3>3. b_i' \in [Ids -> 0 .. NCORES]
        BY <1>4, <2>1, <1>0, <1>p
           DEF Bakery!lock_clear, Bakery!Goto, Bakery!shared, Bakery!test, Bakery!TypeOK, Ids
      <3> QED
        BY <2>1, <3>1, <3>2, <3>3 DEF Bakery!TypeOK, Ids
    <2>3. BakeryArrays'
      BY <2>1, <1>p DEF BakeryArrays, HasNumber
    <2>4. BakeryBound'
      <3>1. Takings' = Takings
        BY <2>1, <1>0, <1>p DEF Takings, HasNumber
      <3> QED
        BY <2>1, <3>1, <1>0, <1>p, TakingsFinite DEF BakeryBound
    <2>5. BakeryOrder'
      BY <2>1, <1>p DEF BakeryOrder, Passed, Before, WillFollow, BakeryArrays,
                        HasNumber, Bakery!Held, Bakery!Waiting
    <2>6. BakeryAhead'
      BY <2>1, <1>p DEF BakeryAhead, BakeryArrays, HasNumber, Bakery!Held, Bakery!Waiting
    <2>7. BakeryCount'
      <3>1. Counted' = Counted
        BY <2>1, <1>0, <1>p DEF Counted
      <3> QED
        BY <2>1, <3>1, <1>p DEF BakeryCount
    <2> QED
      BY <2>2, <2>3, <2>4, <2>5, <2>6, <2>7 DEF BakeryInv
  <1>5. ASSUME NEW c \in Ids, Bakery!lock_skip_self(c) PROVE BakeryInv'
    <2>1. /\ b_pc[c] = "choosing" /\ b_i[c] = c
          /\ \A p \in Ids : b_pc'[p] = IF p = c THEN "choosing" ELSE b_pc[p]
          /\ \A p \in Ids : b_i'[p] = IF p = c THEN b_i[c] + 1 ELSE b_i[p]
          /\ UNCHANGED <<choosing, number, b_max, b_tmp, b_round, b_counter, b_ahead>>
      BY <1>5
         DEF Bakery!lock_skip_self, Bakery!Goto, Bakery!NextCore, Bakery!shared, Bakery!test,
             Bakery!TypeOK, Ids
    <2>2. Bakery!TypeOK'
      <3>1. b_pc' \in [Ids -> Bakery!Places]
        BY <1>5
           DEF Bakery!lock_skip_self, Bakery!Goto, Bakery!NextCore, Bakery!shared, Bakery!test,
               Bakery!TypeOK, Bakery!Places, Ids
      <3>2. b_i' \in [Ids -> 0 .. NCORES]
        BY <1>5, <2>1, <1>0, <1>p
           DEF Bakery!lock_skip_self, Bakery!Goto, Bakery!NextCore, Bakery!shared, Bakery!test,
               Bakery!TypeOK, Ids
      <3> QED
        BY <2>1, <3>1, <3>2 DEF Bakery!TypeOK, Ids
    <2>3. BakeryArrays'
      BY <2>1, <1>p DEF BakeryArrays, HasNumber
    <2>4. BakeryBound'
      <3>1. Takings' = Takings
        BY <2>1, <1>0, <1>p DEF Takings, HasNumber
      <3> QED
        BY <2>1, <3>1, <1>0, <1>p, TakingsFinite DEF BakeryBound
    <2>5. BakeryOrder'
      BY <2>1, <1>p DEF BakeryOrder, Passed, Before, WillFollow, BakeryArrays,
                        HasNumber, Bakery!Held, Bakery!Waiting
    <2>6. BakeryAhead'
      BY <2>1, <1>p DEF BakeryAhead, BakeryArrays, HasNumber, Bakery!Held, Bakery!Waiting
    <2>7. BakeryCount'
      <3>1. Counted' = Counted
        BY <2>1, <1>0, <1>p DEF Counted
      <3> QED
        BY <2>1, <3>1, <1>p DEF BakeryCount
    <2> QED
      BY <2>2, <2>3, <2>4, <2>5, <2>6, <2>7 DEF BakeryInv
  <1>6. ASSUME NEW c \in Ids, Bakery!lock_choosing(c) PROVE BakeryInv'
    <2>1. /\ b_pc[c] = "choosing" /\ b_i[c] < NCORES /\ b_i[c] # c /\ choosing[b_i[c]] = 0
          /\ \A p \in Ids : b_pc'[p] = IF p = c THEN "nonzero" ELSE b_pc[p]
          /\ UNCHANGED <<choosing, number, b_i, b_max, b_tmp, b_round, b_counter, b_ahead>>
      BY <1>6
         DEF Bakery!lock_choosing, Bakery!Goto, Bakery!shared, Bakery!test, Bakery!TypeOK, Ids
    <2>2. Bakery!TypeOK'
      <3>1. b_pc' \in [Ids -> Bakery!Places]
        BY <1>6
           DEF Bakery!lock_choosing, Bakery!Goto, Bakery!shared, Bakery!test, Bakery!TypeOK,
               Bakery!Places, Ids
      <3> QED
        BY <2>1, <3>1 DEF Bakery!TypeOK, Ids
    <2>3. BakeryArrays'
      BY <2>1, <1>p DEF BakeryArrays, HasNumber
    <2>4. BakeryBound'
      <3>1. Takings' = Takings
        BY <2>1, <1>0, <1>p DEF Takings, HasNumber
      <3> QED
        BY <2>1, <3>1, <1>0, <1>p, TakingsFinite DEF BakeryBound
    <2>5. BakeryOrder'
      BY <2>1, <1>p DEF BakeryOrder, Passed, Before, WillFollow, BakeryArrays,
                        HasNumber, Bakery!Held, Bakery!Waiting
    <2>6. BakeryAhead'
      BY <2>1, <1>p DEF BakeryAhead, BakeryArrays, HasNumber, Bakery!Held, Bakery!Waiting
    <2>7. BakeryCount'
      <3>1. Counted' = Counted
        BY <2>1, <1>0, <1>p DEF Counted
      <3> QED
        BY <2>1, <3>1, <1>p DEF BakeryCount
    <2> QED
      BY <2>2, <2>3, <2>4, <2>5, <2>6, <2>7 DEF BakeryInv
  <1>7. ASSUME NEW c \in Ids, Bakery!lock_nonzero(c) PROVE BakeryInv'
    <2>1. /\ b_pc[c] = "nonzero"
          /\ \A p \in Ids : b_pc'[p] =
               IF p = c THEN IF number[b_i[c]] = 0 THEN "choosing" ELSE "less"
                        ELSE b_pc[p]
          /\ \A p \in Ids : b_i'[p] =
               IF p = c THEN IF number[b_i[c]] = 0 THEN b_i[c] + 1 ELSE b_i[c]
                        ELSE b_i[p]
          /\ UNCHANGED <<choosing, number, b_max, b_tmp, b_round, b_counter, b_ahead>>
      BY <1>7
         DEF Bakery!lock_nonzero, Bakery!Goto, Bakery!NextCore, Bakery!shared, Bakery!test,
             Bakery!TypeOK, Ids
    <2>2. Bakery!TypeOK'
      <3>1. b_pc' \in [Ids -> Bakery!Places]
        BY <1>7
           DEF Bakery!lock_nonzero, Bakery!Goto, Bakery!NextCore, Bakery!shared, Bakery!test,
               Bakery!TypeOK, Bakery!Places, Ids
      <3>2. b_i' \in [Ids -> 0 .. NCORES]
        BY <1>7, <2>1, <1>0, <1>p
           DEF Bakery!lock_nonzero, Bakery!Goto, Bakery!NextCore, Bakery!shared, Bakery!test,
               Bakery!TypeOK, Ids, BakeryArrays
      <3> QED
        BY <2>1, <3>1, <3>2 DEF Bakery!TypeOK, Ids
    <2>3. BakeryArrays'
      BY <2>1, <1>p DEF BakeryArrays, HasNumber
    <2>4. BakeryBound'
      <3>1. Takings' = Takings
        BY <2>1, <1>0, <1>p DEF Takings, HasNumber
      <3> QED
        BY <2>1, <3>1, <1>0, <1>p, TakingsFinite DEF BakeryBound
    <2>5. BakeryOrder'
      BY <2>1, <1>p DEF BakeryOrder, Passed, Before, WillFollow, BakeryArrays,
                        HasNumber, Bakery!Held, Bakery!Waiting
    <2>6. BakeryAhead'
      BY <2>1, <1>p DEF BakeryAhead, BakeryArrays, HasNumber, Bakery!Held, Bakery!Waiting
    <2>7. BakeryCount'
      <3>1. Counted' = Counted
        BY <2>1, <1>0, <1>p DEF Counted
      <3> QED
        BY <2>1, <3>1, <1>p DEF BakeryCount
    <2> QED
      BY <2>2, <2>3, <2>4, <2>5, <2>6, <2>7 DEF BakeryInv
  <1>8. ASSUME NEW c \in Ids, Bakery!lock_less(c) PROVE BakeryInv'
    <2>1. /\ b_pc[c] = "less"
          /\ \A p \in Ids : b_pc'[p] =
               IF p = c THEN IF number[b_i[c]] < number[c] THEN "nonzero" ELSE "equal"
                        ELSE b_pc[p]
          /\ UNCHANGED <<choosing, number, b_i, b_max, b_tmp, b_round, b_counter, b_ahead>>
      BY <1>8 DEF Bakery!lock_less, Bakery!Goto, Bakery!shared, Bakery!test, Bakery!TypeOK, Ids
    <2>2. Bakery!TypeOK'
      <3>1. b_pc' \in [Ids -> Bakery!Places]
        BY <1>8
           DEF Bakery!lock_less, Bakery!Goto, Bakery!shared, Bakery!test, Bakery!TypeOK,
               Bakery!Places, Ids
      <3> QED
        BY <2>1, <3>1 DEF Bakery!TypeOK, Ids
    <2>3. BakeryArrays'
      BY <2>1, <1>p DEF BakeryArrays, HasNumber
    <2>4. BakeryBound'
      <3>1. Takings' = Takings
        BY <2>1, <1>0, <1>p DEF Takings, HasNumber
      <3> QED
        BY <2>1, <3>1, <1>0, <1>p, TakingsFinite DEF BakeryBound
    <2>5. BakeryOrder'
      BY <2>1, <1>p DEF BakeryOrder, Passed, Before, WillFollow, BakeryArrays,
                        HasNumber, Bakery!Held, Bakery!Waiting
    <2>6. BakeryAhead'
      BY <2>1, <1>p DEF BakeryAhead, BakeryArrays, HasNumber, Bakery!Held, Bakery!Waiting
    <2>7. BakeryCount'
      <3>1. Counted' = Counted
        BY <2>1, <1>0, <1>p DEF Counted
      <3> QED
        BY <2>1, <3>1, <1>p DEF BakeryCount
    <2> QED
      BY <2>2, <2>3, <2>4, <2>5, <2>6, <2>7 DEF BakeryInv
  <1>9. ASSUME NEW c \in Ids, Bakery!lock_equal(c) PROVE BakeryInv'
    <2>1. /\ b_pc[c] = "equal"
          /\ \A p \in Ids : b_pc'[p] =
               IF p = c THEN IF number[b_i[c]] = number[c] /\ b_i[c] < c THEN "nonzero" ELSE "choosing"
                        ELSE b_pc[p]
          /\ \A p \in Ids : b_i'[p] =
               IF p = c THEN IF number[b_i[c]] = number[c] /\ b_i[c] < c THEN b_i[c] ELSE b_i[c] + 1
                        ELSE b_i[p]
          /\ UNCHANGED <<choosing, number, b_max, b_tmp, b_round, b_counter, b_ahead>>
      BY <1>9
         DEF Bakery!lock_equal, Bakery!Goto, Bakery!NextCore, Bakery!shared, Bakery!test,
             Bakery!TypeOK, Ids
    <2>2. Bakery!TypeOK'
      <3>1. b_pc' \in [Ids -> Bakery!Places]
        BY <1>9
           DEF Bakery!lock_equal, Bakery!Goto, Bakery!NextCore, Bakery!shared, Bakery!test,
               Bakery!TypeOK, Bakery!Places, Ids
      <3>2. b_i' \in [Ids -> 0 .. NCORES]
        BY <1>9, <2>1, <1>0, <1>p
           DEF Bakery!lock_equal, Bakery!Goto, Bakery!NextCore, Bakery!shared, Bakery!test,
               Bakery!TypeOK, Ids, BakeryArrays
      <3> QED
        BY <2>1, <3>1, <3>2 DEF Bakery!TypeOK, Ids
    <2>3. BakeryArrays'
      BY <2>1, <1>p DEF BakeryArrays, HasNumber
    <2>4. BakeryBound'
      <3>1. Takings' = Takings
        BY <2>1, <1>0, <1>p DEF Takings, HasNumber
      <3> QED
        BY <2>1, <3>1, <1>0, <1>p, TakingsFinite DEF BakeryBound
    <2>5. BakeryOrder'
      BY <2>1, <1>p DEF BakeryOrder, Passed, Before, WillFollow, BakeryArrays,
                        HasNumber, Bakery!Held, Bakery!Waiting
    <2>6. BakeryAhead'
      BY <2>1, <1>p DEF BakeryAhead, BakeryArrays, HasNumber, Bakery!Held, Bakery!Waiting
    <2>7. BakeryCount'
      <3>1. Counted' = Counted
        BY <2>1, <1>0, <1>p DEF Counted
      <3> QED
        BY <2>1, <3>1, <1>p DEF BakeryCount
    <2> QED
      BY <2>2, <2>3, <2>4, <2>5, <2>6, <2>7 DEF BakeryInv
  <1>10. ASSUME NEW c \in Ids, Bakery!lock_end(c) PROVE BakeryInv'
    <2>1. /\ b_pc[c] = "choosing" /\ b_i[c] = NCORES
          /\ \A p \in Ids : b_pc'[p] = IF p = c THEN "cs_load" ELSE b_pc[p]
          /\ UNCHANGED <<choosing, number, b_i, b_max, b_tmp, b_round, b_counter, b_ahead>>
      BY <1>10 DEF Bakery!lock_end, Bakery!Goto, Bakery!shared, Bakery!test, Bakery!TypeOK, Ids
    <2>2. Bakery!TypeOK'
      <3>1. b_pc' \in [Ids -> Bakery!Places]
        BY <1>10
           DEF Bakery!lock_end, Bakery!Goto, Bakery!shared, Bakery!test, Bakery!TypeOK,
               Bakery!Places, Ids
      <3> QED
        BY <2>1, <3>1 DEF Bakery!TypeOK, Ids
    <2>3. BakeryArrays'
      BY <2>1, <1>p DEF BakeryArrays, HasNumber
    <2>4. BakeryBound'
      <3>1. Takings' = Takings
        BY <2>1, <1>0, <1>p DEF Takings, HasNumber
      <3> QED
        BY <2>1, <3>1, <1>0, <1>p, TakingsFinite DEF BakeryBound
    <2>5. BakeryOrder'
      BY <2>1, <1>p DEF BakeryOrder, Passed, Before, WillFollow, BakeryArrays,
                        HasNumber, Bakery!Held, Bakery!Waiting
    <2>6. BakeryAhead'
      BY <2>1, <1>p DEF BakeryAhead, BakeryArrays, HasNumber, Bakery!Held, Bakery!Waiting
    <2>7. BakeryCount'
      <3>1. Counted' = Counted
        BY <2>1, <1>0, <1>p DEF Counted
      <3> QED
        BY <2>1, <3>1, <1>p DEF BakeryCount
    <2> QED
      BY <2>2, <2>3, <2>4, <2>5, <2>6, <2>7 DEF BakeryInv
  <1>11. ASSUME NEW c \in Ids, Bakery!st_load(c) PROVE BakeryInv'
    <2>1. /\ b_pc[c] = "cs_load"
          /\ \A p \in Ids : b_pc'[p] = IF p = c THEN "cs_store" ELSE b_pc[p]
          /\ \A p \in Ids : b_tmp'[p] = IF p = c THEN b_counter ELSE b_tmp[p]
          /\ UNCHANGED <<choosing, number, b_i, b_max, b_round, b_counter, b_ahead>>
      BY <1>11 DEF Bakery!st_load, Bakery!Goto, Bakery!shared, Bakery!test, Bakery!TypeOK, Ids
    <2>2. Bakery!TypeOK'
      <3>1. b_pc' \in [Ids -> Bakery!Places]
        BY <1>11
           DEF Bakery!st_load, Bakery!Goto, Bakery!shared, Bakery!test, Bakery!TypeOK,
               Bakery!Places, Ids
      <3>2. b_tmp' \in [Ids -> Nat]
        BY <1>11, <2>1, <1>0, <1>p
           DEF Bakery!st_load, Bakery!Goto, Bakery!shared, Bakery!test, Bakery!TypeOK, Ids
      <3> QED
        BY <2>1, <3>1, <3>2 DEF Bakery!TypeOK, Ids
    <2>3. BakeryArrays'
      BY <2>1, <1>p DEF BakeryArrays, HasNumber
    <2>4. BakeryBound'
      <3>1. Takings' = Takings
        BY <2>1, <1>0, <1>p DEF Takings, HasNumber
      <3> QED
        BY <2>1, <3>1, <1>0, <1>p, TakingsFinite DEF BakeryBound
    <2>5. BakeryOrder'
      BY <2>1, <1>p DEF BakeryOrder, Passed, Before, WillFollow, BakeryArrays,
                        HasNumber, Bakery!Held, Bakery!Waiting
    <2>6. BakeryAhead'
      BY <2>1, <1>p DEF BakeryAhead, BakeryArrays, HasNumber, Bakery!Held, Bakery!Waiting
    <2>7. BakeryCount'
      <3>1. Counted' = Counted
        BY <2>1, <1>0, <1>p DEF Counted
      <3> QED
        BY <2>1, <3>1, <1>p DEF BakeryCount
    <2> QED
      BY <2>2, <2>3, <2>4, <2>5, <2>6, <2>7 DEF BakeryInv
  <1>12. ASSUME NEW c \in Ids, Bakery!st_store(c) PROVE BakeryInv'
    <2>1. /\ b_pc[c] = "cs_store"
          /\ \A p \in Ids : b_pc'[p] = IF p = c THEN "release" ELSE b_pc[p]
          /\ b_counter' = b_tmp[c] + 1
          /\ UNCHANGED <<choosing, number, b_i, b_max, b_tmp, b_round, b_ahead>>
      BY <1>12 DEF Bakery!st_store, Bakery!Goto, Bakery!shared, Bakery!test, Bakery!TypeOK, Ids
    <2>2. Bakery!TypeOK'
      <3>1. b_pc' \in [Ids -> Bakery!Places]
        BY <1>12
           DEF Bakery!st_store, Bakery!Goto, Bakery!shared, Bakery!test, Bakery!TypeOK,
               Bakery!Places, Ids
      <3>9. b_counter' \in Nat
        BY <2>1, <1>p
      <3> QED
        BY <2>1, <3>1, <3>9 DEF Bakery!TypeOK, Ids
    <2>3. BakeryArrays'
      BY <2>1, <1>p DEF BakeryArrays, HasNumber
    <2>4. BakeryBound'
      <3>1. Takings' = Takings
        BY <2>1, <1>0, <1>p DEF Takings, HasNumber
      <3> QED
        BY <2>1, <3>1, <1>0, <1>p, TakingsFinite DEF BakeryBound
    <2>5. BakeryOrder'
      BY <2>1, <1>p DEF BakeryOrder, Passed, Before, WillFollow, BakeryArrays,
                        HasNumber, Bakery!Held, Bakery!Waiting
    <2>6. BakeryAhead'
      BY <2>1, <1>p DEF BakeryAhead, BakeryArrays, HasNumber, Bakery!Held, Bakery!Waiting
    <2>7. BakeryCount'
      <3>1. b_round[c] + 1 \in 1 .. BakeryPerCore
        BY <2>1, <1>0, <1>p DEF BakeryArrays
      <3>2. ASSUME NEW p \in Ids, NEW r \in 1 .. BakeryPerCore
            PROVE  <<p, r>> \in Counted' <=>
                      <<p, r>> \in Counted \/ (p = c /\ r = b_round[c] + 1)
        BY <2>1, <1>0, <1>p DEF Counted
      <3>3. /\ Counted' \subseteq Ids \X (1 .. BakeryPerCore)
            /\ Counted \subseteq Ids \X (1 .. BakeryPerCore)
        BY DEF Counted, Ids
      <3>4. <<c, b_round[c] + 1>> \notin Counted
        BY <2>1, <1>p DEF Counted
      <3>5. Counted' = Counted \cup {<<c, b_round[c] + 1>>}
        BY <3>1, <3>2, <3>3, <3>4
      <3>6. Cardinality(Counted') = Cardinality(Counted) + 1
        BY <3>4, <3>5, CountedFinite, FS_AddElement
      <3>7. \A d \in Ids : d # c => b_pc[d] \notin Bakery!Held
        BY <2>1, BakeryInOrder DEF Bakery!MutualExclusion, Bakery!Held, Ids
      <3> QED
        BY <2>1, <3>6, <3>7 DEF BakeryCount, Bakery!Held
    <2> QED
      BY <2>2, <2>3, <2>4, <2>5, <2>6, <2>7 DEF BakeryInv
  <1>13. ASSUME NEW c \in Ids, Bakery!spin_unlock(c) PROVE BakeryInv'
    <2>1. /\ b_pc[c] = "release"
          /\ \A p \in Ids : b_pc'[p] = IF p = c THEN "idle" ELSE b_pc[p]
          /\ \A p \in Ids : number'[p] = IF p = c THEN 0 ELSE number[p]
          /\ \A p \in Ids : b_round'[p] =
               IF p = c THEN b_round[c] + 1
                        ELSE b_round[p]
          /\ \A p \in Ids : b_ahead'[p] = b_ahead[p] \ {c}
          /\ UNCHANGED <<choosing, b_i, b_max, b_tmp, b_counter>>
      BY <1>13
         DEF Bakery!spin_unlock, Bakery!Goto, Bakery!shared, Bakery!test, Bakery!TypeOK, Ids
    <2>2. Bakery!TypeOK'
      <3>1. b_pc' \in [Ids -> Bakery!Places]
        BY <1>13
           DEF Bakery!spin_unlock, Bakery!Goto, Bakery!shared, Bakery!test, Bakery!TypeOK,
               Bakery!Places, Ids
      <3>2. number' \in [Ids -> 0 .. BakeryModulus - 1]
        BY <1>13, <2>1, <1>0, <1>p
           DEF Bakery!spin_unlock, Bakery!Goto, Bakery!shared, Bakery!test, Bakery!TypeOK, Ids
      <3>3. b_round' \in [Ids -> 0 .. BakeryPerCore]
        BY <1>13, <2>1, <1>0, <1>p
           DEF Bakery!spin_unlock, Bakery!Goto, Bakery!shared, Bakery!test, Bakery!TypeOK, Ids,
               BakeryArrays
      <3>4. b_ahead' \in [Ids -> SUBSET Ids]
        BY <1>13
           DEF Bakery!spin_unlock, Bakery!Goto, Bakery!shared, Bakery!test, Bakery!TypeOK, Ids
      <3> QED
        BY <2>1, <3>1, <3>2, <3>3, <3>4 DEF Bakery!TypeOK, Ids
    <2>3. BakeryArrays'
      BY <2>1, <1>p DEF BakeryArrays, HasNumber
    <2>4. BakeryBound'
      <3>1. Takings' = Takings
        BY <2>1, <1>0, <1>p DEF Takings, HasNumber
      <3> QED
        BY <2>1, <3>1, <1>0, <1>p, TakingsFinite DEF BakeryBound
    <2>5. BakeryOrder'
      BY <2>1, <1>p DEF BakeryOrder, Passed, Before, WillFollow, BakeryArrays,
                        HasNumber, Bakery!Held, Bakery!Waiting
    <2>6. BakeryAhead'
      <3>1. b_ahead[c] = {}
        BY <2>1, BakeryInOrder DEF Bakery!NotOvertaken, Bakery!Held, Ids
      <3>2. \A p \in Ids : b_ahead'[p] \subseteq b_ahead[p] \ {c}
        BY <2>1
      <3> QED
        BY <2>1, <3>1, <3>2, <1>p DEF BakeryAhead
    <2>7. BakeryCount'
      <3>1. Counted' = Counted
        BY <2>1, <1>0, <1>p DEF Counted
      <3> QED
        BY <2>1, <3>1, <1>p DEF BakeryCount
    <2> QED
      BY <2>2, <2>3, <2>4, <2>5, <2>6, <2>7 DEF BakeryInv
  <1> QED
    BY <1>1, <1>2, <1>3, <1>4, <1>5, <1>6, <1>7, <1>8, <1>9, <1>10, <1>11, <1>12, <1>13
       DEF Bakery!Step, Ids

\* spin_init establishes the invariant.
LEMMA BakeryInitInv == Bakery!Init => BakeryInv
  <1> SUFFICES ASSUME Bakery!Init PROVE BakeryInv
    OBVIOUS
  <1>1. \A c \in Ids : /\ b_pc[c] = "idle" /\ choosing[c] = 0 /\ number[c] = 0 /\ b_i[c] = 0
                      /\ b_max[c] = 0 /\ b_round[c] = 0 /\ b_ahead[c] = {}
    BY DEF Bakery!Init, Ids
  <1>2. Bakery!TypeOK
    BY BakeryConstants DEF Bakery!Init, Bakery!TypeOK, Bakery!Places
  <1>3. BakeryArrays /\ BakeryOrder /\ BakeryAhead
    BY <1>1 DEF BakeryArrays, HasNumber, BakeryOrder, Passed, Bakery!Held, Bakery!Waiting,
                BakeryAhead
  <1>4. BakeryBound
    BY <1>1, TakingsFinite DEF BakeryBound
  <1>5. BakeryCount
    <2>1. Counted = {}
      BY <1>1 DEF Counted
    <2> QED
      BY <1>1, <2>1, FS_EmptySet DEF BakeryCount, Bakery!Init
  <1> QED
    BY <1>2, <1>3, <1>4, <1>5 DEF BakeryInv

\* A step of the other lock leaves it.
LEMMA BakeryStutterInv == BakeryInv /\ UNCHANGED bvars => BakeryInv'
  BY DEF bvars, BakeryInv, Bakery!TypeOK, BakeryArrays, HasNumber, BakeryBound, Takings,
         BakeryOrder, Passed, Before, WillFollow, BakeryAhead, BakeryCount, Counted, Ids

-----------------------------------------------------------------------------
\* Of either lock, whichever the build has selected.
LockInv == IInv /\ TicketCount /\ BakeryInv

\* The invariants hold of every reachable state, whichever lock runs.
THEOREM LockInvariant == LockSpec => []LockInv
  <1>1. LockInit => LockInv
    <2>1. Init => TicketCount
      <3> SUFFICES ASSUME Init PROVE TicketCount
        OBVIOUS
      <3>1. Incremented = {}
        BY DEF Init, Incremented
      <3> QED
        BY <3>1, FS_EmptySet DEF Init, TicketCount
    <2> QED
      BY <2>1, InitIInv, BakeryInitInv DEF LockInit, LockInv
  <1>2. LockInv /\ [LockNext]_lvars => LockInv'
    <2> SUFFICES ASSUME LockInv, [LockNext]_lvars PROVE LockInv'
      OBVIOUS
    <2>1. CASE \E c \in Core : TicketStep(c)
      <3>1. Next /\ UNCHANGED bvars
        BY <2>1 DEF TicketStep, Next
      <3> QED
        BY <3>1, StepIInv, TicketCountStep, BakeryStutterInv DEF LockInv
    <2>2. CASE \E c \in Ids : BakeryStep(c)
      <3>1. UNCHANGED vars /\ \E c \in Ids : Bakery!Step(c)
        BY <2>2 DEF BakeryStep
      <3> QED
        BY <3>1, StepIInv, TicketCountStep, BakeryStepInv DEF LockInv
    <2>3. CASE UNCHANGED lvars
      <3>1. UNCHANGED vars /\ UNCHANGED bvars
        BY <2>3 DEF lvars
      <3> QED
        BY <3>1, StepIInv, TicketCountStep, BakeryStutterInv DEF LockInv
    <2> QED
      BY <2>1, <2>2, <2>3 DEF LockNext, Done, Ids
  <1> QED
    BY <1>1, <1>2, PTL DEF LockSpec

\* spin_selftest finds the value it expects (spinlock.c:127): every pair of a
\* core and a round has been counted once.
LEMMA SelfTestExact == LockInv => SelfTestCount /\ Bakery!SelfTestCount
  <1> SUFFICES ASSUME LockInv PROVE SelfTestCount /\ Bakery!SelfTestCount
    OBVIOUS
  <1>1. ASSUME AllDone PROVE st_counter = PerCore * Cardinality(Core)
    <2>1. Incremented = Core \X (1 .. PerCore)
      BY <1>1, PerCoreAssumption DEF AllDone, Incremented
    <2>2. st_counter = Cardinality(Core) * PerCore
      BY <2>1, TicketRounds DEF LockInv, TicketCount
    <2> QED
      BY <2>2, CoreAssumption, PerCoreAssumption, FS_CardinalityType
  <1>2. ASSUME Bakery!AllDone PROVE b_counter = BakeryPerCore * NCORES
    <2>1. Counted = Ids \X (1 .. BakeryPerCore)
      BY <1>2, BakeryConstants DEF Bakery!AllDone, Counted, Ids
    <2>2. b_counter = NCORES * BakeryPerCore
      BY <2>1, AllRounds DEF LockInv, BakeryInv, BakeryCount
    <2> QED
      BY <2>2, BakeryConstants
  <1> QED
    BY <1>1, <1>2 DEF SelfTestCount, Bakery!SelfTestCount

\* spinlock.h:11-12 and spinlock.c:127: the bakery lock excludes with plain
\* loads and stores alone and never lets a core overtake one that had its number
\* before, and with either lock no increment is lost.
THEOREM SpinLocksExact == LockSpec => []LocksExact
  <1>1. LockInv => LocksExact
    BY BakeryInOrder, SelfTestExact DEF LockInv, LocksExact
  <1> QED
    BY <1>1, LockInvariant, PTL
=============================================================================
