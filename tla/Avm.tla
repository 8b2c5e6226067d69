-------------------------------- MODULE Avm --------------------------------
(***************************************************************************)
(* The actor bytecode machine of src/device/video/avm.c: upload of a module *)
(* in chunks to the staging buffer, which is also the running module's     *)
(* code; a FIFO of messages dispatched one frame per tick, or in batches of *)
(* distinct draw-free actors spread over the cores; the cache of a          *)
(* turntable's frames and its playback controls; the store of saved        *)
(* modules and the list window that runs them.                             *)
(***************************************************************************)
EXTENDS Integers, Sequences, SequencesExt, FiniteSets

CONSTANTS
    Method,        \* [class -> [method -> sequence of operations]]
    MAXOBJ, VM_Q, NCORES, PAR_SENDQ, BATCH_MAX, FC_MAX, RAM_SLOTS,
    CHUNKS,        \* chunks of a module
    Apps,          \* names modules are saved under
    MODS, TICKS    \* bounds: modules uploaded, ticks of the screen loop

VARIABLES
    stage, uploading,  \* avm_stage, chunk by chunk; the upload in flight
    mod, live,         \* the module loaded; avm_active
    obj, q,            \* vm_obj, vm_q from vm_qh to vm_qt
    par,               \* avm_par_enable
    core, parq, spawnAt,\* while a batch runs: each core's messages, sends, slots
    expect, agreed,    \* ghosts: the sequential outcome; batches matched it
    ctl, cache, shown, \* ctl_*, fc_* (the module a frame is of), frame shown
    ram, victim,       \* avm_ram, avm_ram_rr
    list, confirm,     \* avm_list rows <<name, slot>>, avm_confirm_del
    ran,               \* ghost: row clicked and module that ran
    ticks, nmod

avars == <<stage, uploading, mod, live, obj, q, par, core, parq, spawnAt, expect,
           agreed, ctl, cache, shown, ram, victim, list, confirm, ran, ticks, nmod>>
exec  == <<obj, q, par, core, parq, spawnAt, expect, agreed>>
show  == <<ctl, cache, shown>>
store == <<ram, victim, list, confirm, ran>>

Obj == 0 .. MAXOBJ - 1
Core == 0 .. NCORES - 1
NoObj == [used |-> FALSE, cls |-> 0, f |-> 0]
Msg(to, m) == [to |-> to, m |-> m]
Batching == expect # <<>>

(* A class is safe for the cores when no method of it draws or waits.       *)
ParSafe(c) == \A m \in DOMAIN Method[c] : <<"wait">> \notin Range(Method[c][m])

FreeIn(o, lo, hi) == {i \in lo .. hi - 1 : ~o[i].used}
MinOf(S) == CHOOSE i \in S : \A j \in S : i <= j

(* One operation of a method body, on <<objects, sends, spawn bounds>>.     *)
Exec(s, self, op) ==
    CASE op[1] = "add"   -> [s EXCEPT !.obj[self].f = @ + op[2]]
      [] op[1] = "set"   -> [s EXCEPT !.obj[self].f = op[2]]
      [] op[1] = "send"  -> IF Len(s.q) < s.room THEN [s EXCEPT !.q = Append(@, Msg(op[2], op[3]))]
                            ELSE s
      [] op[1] = "spawn" ->
            LET free == FreeIn(s.obj, s.lo, s.hi) IN
            IF free = {} THEN s
            ELSE [s EXCEPT !.obj[MinOf(free)] = [used |-> TRUE, cls |-> op[2], f |-> 0],
                           !.lo = IF s.ranged THEN MinOf(free) + 1 ELSE @]
      [] op[1] = "wait"  -> [s EXCEPT !.frame = s.obj[self].f]
      [] OTHER -> s

(* avm_dispatch: a dead receiver or an unknown method is ignored.           *)
Body(o, msg) == IF msg.to \in Obj /\ o[msg.to].used /\ msg.m \in DOMAIN Method[o[msg.to].cls]
                THEN Method[o[msg.to].cls][msg.m] ELSE <<>>
avm_dispatch(s, msg) ==
    FoldLeft(LAMBDA t, op : Exec(t, msg.to, op), s, Body(s.obj, msg))

Alone(o, sends) == [obj |-> o, q |-> sends, lo |-> 0, hi |-> MAXOBJ, room |-> VM_Q - 1,
                    ranged |-> FALSE, frame |-> -1]

-----------------------------------------------------------------------------
(* Upload: avm_stage_put chunk by chunk from the HTTP handler, then         *)
(* avm_loadrun resets the machine, loads the module and boots class 0.     *)

avm_stage_put(k) ==
    /\ k \in 1 .. CHUNKS /\ ~Batching
    /\ IF k = 1 THEN nmod < MODS /\ nmod' = nmod + 1 ELSE UNCHANGED nmod
    /\ uploading = k - 1 \/ k = 1
    /\ stage' = [stage EXCEPT ![k] = nmod']
    /\ uploading' = k
    /\ UNCHANGED <<mod, live, exec, show, store, ticks>>

FreshControls(c) == [cached |-> FALSE, n |-> 0, prevf |-> -1, play |-> TRUE, idx |-> 0]
Reset ==
    /\ live' = TRUE
    /\ obj' = [i \in Obj |-> IF i = 0 THEN [used |-> TRUE, cls |-> 0, f |-> 0] ELSE NoObj]
    /\ q' = <<Msg(0, "tick")>>
    /\ ctl' = FreshControls(ctl)
    /\ shown' = 0 /\ agreed' = TRUE
    /\ UNCHANGED <<par, core, parq, spawnAt, expect, cache>>

avm_loadrun ==
    /\ uploading = CHUNKS /\ ~Batching
    /\ mod' = stage[1] /\ uploading' = 0 /\ Reset
    /\ UNCHANGED <<stage, store, ticks, nmod>>

(* A module that does not parse leaves the machine reset and nothing in it; *)
(* a machine that was running goes on ticking.                             *)
avm_load_fails ==
    /\ uploading # 0 /\ uploading < CHUNKS /\ ~Batching
    /\ obj' = [i \in Obj |-> NoObj] /\ q' = <<>> /\ ctl' = FreshControls(ctl)
    /\ shown' = 0 /\ uploading' = 0
    /\ UNCHANGED <<stage, mod, live, par, core, parq, spawnAt, expect, agreed, cache, store,
                   ticks, nmod>>

(* ?save=NAME keeps a copy: the slot of that name, or the next in turn.     *)
SlotFor(name) == IF \E s \in DOMAIN ram : ram[s].name = name
                 THEN CHOOSE s \in DOMAIN ram : ram[s].name = name ELSE victim
avm_save(name) ==
    /\ uploading = CHUNKS /\ ~Batching
    /\ ram' = [ram EXCEPT ![SlotFor(name)] = [name |-> name, mod |-> stage[1]]]
    /\ victim' = IF \E s \in DOMAIN ram : ram[s].name = name THEN victim
                 ELSE (victim + 1) % RAM_SLOTS
    /\ UNCHANGED <<stage, uploading, mod, live, exec, show, list, confirm, ran, ticks, nmod>>

(* The list window: scanned when opened; a click runs what the row's slot   *)
(* holds now; the delete button asks first.                                *)
Rows == LET used == {s \in DOMAIN ram : ram[s].name # ""}
        IN [i \in 1 .. Cardinality(used) |->
               LET s == CHOOSE s \in used : Cardinality({t \in used : t < s}) = i - 1
               IN <<ram[s].name, s, ram[s].mod>>]
avm_open_list ==
    /\ ~Batching /\ list' = Rows
    /\ UNCHANGED <<stage, uploading, mod, live, exec, show, ram, victim, confirm, ran, ticks, nmod>>

avm_run_listed(i) ==
    LET s == list[i][2] IN
    /\ ~Batching /\ confirm = 0 /\ ram[s].name # ""
    /\ stage' = [k \in 1 .. CHUNKS |-> ram[s].mod]
    /\ mod' = ram[s].mod /\ uploading' = 0 /\ Reset
    /\ ran' = <<list[i], ram[s]>>
    /\ UNCHANGED <<ram, victim, list, confirm, ticks, nmod>>

avm_listwin_click(i) ==
    /\ ~Batching
    /\ \/ confirm = 0 /\ confirm' = i /\ UNCHANGED <<ram, list>>
       \/ /\ confirm # 0 /\ confirm' = 0
          /\ \/ UNCHANGED <<ram, list>>
             \/ /\ ram' = IF confirm <= Len(list) THEN [ram EXCEPT ![list[confirm][2]].name = ""]
                          ELSE ram
                /\ list' = LET used == {s \in DOMAIN ram : ram'[s].name # ""}
                           IN SelectSeq(Rows, LAMBDA r : r[2] \in used)
    /\ UNCHANGED <<stage, uploading, mod, live, exec, show, victim, ran, ticks, nmod>>

-----------------------------------------------------------------------------
(* A tick of the screen loop.  Once a full turn is cached the actors rest   *)
(* and playback goes by the cache.                                         *)

Tick == live /\ ~Batching /\ ticks < TICKS /\ ticks' = ticks + 1

ctl_show(i) == shown' = cache[i]

Playback ==
    /\ Tick /\ ctl.cached /\ ctl.play /\ ctl.n > 0
    /\ ctl' = [ctl EXCEPT !.idx = (@ + 1) % ctl.n]
    /\ ctl_show((ctl.idx + 1) % ctl.n)
    /\ UNCHANGED <<stage, uploading, mod, live, exec, cache, store, nmod>>

(* Play, pause, stop, previous, next: only once a turn is cached.           *)
avm_ctl(cmd) ==
    LET i == CASE cmd = "stop" -> 0
               [] cmd = "prev" -> (ctl.idx - 1 + ctl.n) % ctl.n
               [] cmd = "next" -> (ctl.idx + 1) % ctl.n
    IN /\ ctl.cached /\ ~Batching
       /\ IF cmd \in {"play", "pause"}
          THEN ctl' = [ctl EXCEPT !.play = (cmd = "play")] /\ UNCHANGED shown
          ELSE ctl' = [ctl EXCEPT !.play = FALSE, !.idx = i] /\ ctl_show(i)
       /\ UNCHANGED <<stage, uploading, mod, live, exec, cache, store, ticks, nmod>>

(* The run of messages at the head of the queue that may go to the cores:   *)
(* safe classes, no actor twice.                                           *)
Batch ==
    LET ok(n) == \A i \in 1 .. n : /\ obj[q[i].to].used /\ ParSafe(obj[q[i].to].cls)
                                   /\ \A j \in 1 .. i - 1 : q[j].to # q[i].to
        ns == {n \in 0 .. Len(q) : n <= BATCH_MAX /\ ok(n)}
    IN SubSeq(q, 1, CHOOSE n \in ns : \A k \in ns : k <= n)

(* WAIT ends the frame: it is cached under the actor's counter, and a       *)
(* counter that went back means a full turn is cached.                     *)
Wraps(cf) == cf < ctl.prevf
AtWait(cf) ==
    LET in == cf \in 0 .. FC_MAX - 1 IN
       IF ctl.cached THEN UNCHANGED show
       ELSE /\ cache' = IF in THEN [cache EXCEPT ![cf] = mod] ELSE cache
            /\ ctl' = [ctl EXCEPT !.n = IF in /\ cf + 1 > @ THEN cf + 1 ELSE @,
                                  !.cached = Wraps(cf), !.prevf = cf]
            /\ shown' = mod

(* One message on one core.                                                *)
Single ==
    LET m == Head(q)
        s == avm_dispatch(Alone(obj, Tail(q)), m)
    IN /\ Tick /\ ~ctl.cached /\ q # <<>>
       /\ ~par \/ Len(Batch) < 2
       /\ obj' = s.obj /\ q' = s.q
       /\ IF <<"wait">> \in Range(Body(obj, m)) THEN AtWait(s.frame) ELSE UNCHANGED show
       /\ UNCHANGED <<stage, uploading, mod, live, par, core, parq, spawnAt, expect, agreed,
                      store, nmod>>

(* avm_pump: an empty queue is given the root's next tick.                  *)
avm_pump ==
    /\ live /\ ~Batching /\ q = <<>> /\ ticks < TICKS /\ q' = <<Msg(0, "tick")>>
    /\ UNCHANGED <<stage, uploading, mod, live, obj, par, core, parq, spawnAt, expect, agreed,
                   show, store, ticks, nmod>>

avm_set_par ==
    /\ ~Batching /\ par' = ~par
    /\ UNCHANGED <<stage, uploading, mod, live, obj, q, core, parq, spawnAt, expect, agreed,
                   show, store, ticks, nmod>>

SlotsFrom(c) == (c * MAXOBJ) \div NCORES

(* A batch is cut in contiguous ranges; every core has its own send buffer  *)
(* and its own range of object slots.                                      *)
BatchStart ==
    LET b == Batch
        nc == IF Len(b) < NCORES THEN Len(b) ELSE NCORES
        Cut(c) == IF c < nc THEN (c * Len(b)) \div nc ELSE Len(b)
    IN
    /\ Tick /\ ~ctl.cached /\ par /\ Len(b) >= 2
    /\ q' = SubSeq(q, Len(b) + 1, Len(q))
    /\ core' = [c \in Core |-> SubSeq(b, Cut(c) + 1, Cut(c + 1))]
    /\ parq' = [c \in Core |-> <<>>]
    /\ spawnAt' = [c \in Core |-> SlotsFrom(c)]
    /\ expect' = FoldLeft(avm_dispatch, Alone(obj, q'), b)
    /\ UNCHANGED <<stage, uploading, mod, live, obj, par, agreed, show, store, nmod>>

(* par_dispatch_range: a core runs its next message.                        *)
CoreStep(c) ==
    LET s == avm_dispatch([obj |-> obj, q |-> parq[c], lo |-> spawnAt[c],
                           hi |-> SlotsFrom(c + 1), room |-> PAR_SENDQ, ranged |-> TRUE,
                           frame |-> -1],
                          Head(core[c]))
    IN /\ Batching /\ core[c] # <<>>
       /\ obj' = s.obj /\ parq' = [parq EXCEPT ![c] = s.q]
       /\ spawnAt' = [spawnAt EXCEPT ![c] = s.lo]
       /\ core' = [core EXCEPT ![c] = Tail(@)]
       /\ UNCHANGED <<stage, uploading, mod, live, q, par, expect, agreed, show, store, ticks, nmod>>

(* The join: the cores' sends are appended in the order of the cores.       *)
MergeOrder_mutant == [i \in 1 .. NCORES |-> NCORES - i]
MergeOrder == [i \in 1 .. NCORES |-> i - 1]
Merged == FoldLeft(LAMBDA s, m : IF Len(s) < VM_Q - 1 THEN Append(s, m) ELSE s, q,
                   FoldLeft(LAMBDA s, c : s \o parq[c], <<>>, MergeOrder))
BatchJoin ==
    /\ Batching /\ \A c \in Core : core[c] = <<>>
    /\ q' = Merged
    /\ agreed' = (agreed /\ q' = expect.q
                  /\ \A i \in Obj : expect.obj[i].used /\ obj[i].used => obj[i].f = expect.obj[i].f)
    /\ expect' = <<>>
    /\ UNCHANGED <<stage, uploading, mod, live, obj, par, core, parq, spawnAt, show, store, ticks, nmod>>

AInit ==
    /\ stage = [k \in 1 .. CHUNKS |-> 0] /\ uploading = 0 /\ mod = 0 /\ live = FALSE
    /\ obj = [i \in Obj |-> NoObj] /\ q = <<>> /\ par = FALSE
    /\ core = [c \in Core |-> <<>>] /\ parq = [c \in Core |-> <<>>]
    /\ spawnAt = [c \in Core |-> 0] /\ expect = <<>> /\ agreed = TRUE
    /\ ctl = FreshControls([n |-> 0])
    /\ cache = [i \in 0 .. FC_MAX - 1 |-> 0] /\ shown = 0
    /\ ram = [s \in 0 .. RAM_SLOTS - 1 |-> [name |-> "", mod |-> 0]] /\ victim = 0
    /\ list = <<>> /\ confirm = 0 /\ ran = <<>> /\ ticks = 0 /\ nmod = 0

ANext ==
    \/ \E k \in 1 .. CHUNKS : avm_stage_put(k)
    \/ avm_loadrun \/ avm_load_fails \/ avm_open_list \/ Playback \/ Single \/ avm_pump \/ avm_set_par
    \/ BatchStart \/ BatchJoin
    \/ \E a \in Apps : avm_save(a)
    \/ \E i \in DOMAIN list : avm_run_listed(i) \/ avm_listwin_click(i)
    \/ \E cmd \in {"play", "pause", "stop", "prev", "next"} : avm_ctl(cmd)
    \/ \E c \in Core : CoreStep(c)

ASpec == AInit /\ [][ANext]_avars

-----------------------------------------------------------------------------
(* A batch spread over the cores leaves the queue and the actors as         *)
(* dispatching its messages one after another would (avm.c, the multi-core *)
(* dispatch comment: distinct actors, private send buffers, disjoint slots). *)
BatchIsSequential == agreed

(* The frame on the screen is one the running module drew: playback never   *)
(* shows a cache entry an earlier module left.                             *)
ShowsOwnFrame == shown \in {0, mod}

(* What runs from the list is what its row named when it was clicked.       *)
ListRunsItsRow == ran = <<>> \/ ran[2].name = ran[1][1]

(* The code executed is the module that was loaded: nothing writes to the   *)
(* staging buffer while the machine runs out of it.                        *)
CodeStable == live => \A k \in 1 .. CHUNKS : stage[k] = mod
=============================================================================
