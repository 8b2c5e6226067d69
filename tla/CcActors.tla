------------------------------ MODULE CcActors ------------------------------
(***************************************************************************)
(* The actor runtime of the on-device compiler (src/cc/cc.c).  A compiled  *)
(* AIPL program runs on one stack: `send` puts a message in a ring that    *)
(* cc_pump drains, `now` calls the receiver at once, `future` runs it on   *)
(* the spot, and a handler may take its caller's reply slot (replyto) and  *)
(* pass it on for somebody else to answer.  Every one of these can happen  *)
(* inside a handler that is itself inside another, so `frames` is the      *)
(* stack of calls in progress; what a handler does next is arbitrary.      *)
(***************************************************************************)
EXTENDS Integers, Sequences, FiniteSets

CONSTANTS
    ACT_MAX, MQ_MAX, RSLOT_MAX, FUT_MAX,  \* table sizes of the code
    NOW_DEPTH,     \* g_rstack and g_sstack (16 in the code)
    Methods,       \* method numbers
    OPS, DEPTH     \* bounds: runtime calls made in all, frames nested

VARIABLES
    alive, protect, idle,   \* g_alive, g_protect, past the sweep's threshold
    nact,                   \* g_nact
    mq, qh, qt,             \* g_mq, g_qh, g_qt
    rslot, rcur, rstack,    \* g_rslot, g_rcur, g_rstack[0..g_rsp)
    sender, cur, sstack,    \* g_sender, g_cur_actor, g_sstack
    fut,                    \* g_fut[].used
    late,                   \* cc_tick() is false: deadline passed or aborted
    frames,                 \* the calls in progress, innermost last
    kept,                   \* per actor, the reply slots it was handed
    log, gone,              \* ghosts: messages in the order sent; consumed
    calls, misled,          \* ghosts: runtime calls made; calls given another's answer
    deep                    \* ghost: more calls have nested than g_rstack has room for

cvars == <<alive, protect, idle, nact, mq, qh, qt, rslot, rcur, rstack, sender,
           cur, sstack, fut, late, frames, kept, log, gone, calls, misled, deep>>

world   == <<alive, protect, idle, nact>>
ring    == <<mq, qh, qt>>
replies == <<rslot, rcur, rstack>>
who     == <<sender, cur, sstack>>
run     == <<fut, late, kept>>
ghosts  == <<log, gone, calls, misled, deep>>

Actor == 0 .. ACT_MAX - 1
Slot  == 0 .. RSLOT_MAX - 1
None  == -1
Empty == [id |-> 0, to |-> None, mid |-> None, from |-> None, r |-> <<>>]
Free  == [used |-> FALSE, taken |-> FALSE, filled |-> FALSE, val |-> 0, call |-> 0]

Top == frames[Len(frames)]
Below == SubSeq(frames, 1, Len(frames) - 1)
Ahead(k) == (k - qh + MQ_MAX) % MQ_MAX           \* places behind the head
Queued == {k \in 0 .. MQ_MAX - 1 : Ahead(k) < Ahead(qt)}

-----------------------------------------------------------------------------
(* A handler is running when the innermost frame is one; the frames "pump" *)
(* and "pop" are the runtime's own loops.                                  *)
Running == frames # <<>> /\ Top.kind \in {"main", "now", "msg", "fut"}
Self == Top.actor

Frame(kind, actor) ==
    [kind |-> kind, actor |-> actor, slot |-> None, call |-> 0,
     sawSender |-> sender, savedSender |-> sender, savedCur |-> cur]

(* Every call into the runtime counts towards the bound of an instance.    *)
Op == calls < OPS /\ calls' = calls + 1

Call(f) == /\ Len(frames) < DEPTH
           /\ frames' = Append(frames, f)

cc_actor_reset ==
    /\ alive' = [a \in Actor |-> FALSE] /\ protect' = [a \in Actor |-> FALSE]
    /\ idle' = {} /\ nact' = 0 /\ qh' = 0 /\ qt' = 0
    /\ gone' = {log[i].id : i \in DOMAIN log}

(* cc_run_source and cc_actor_load: a fresh world, then main() runs.  The   *)
(* reply slots and the sender are left as they are.                        *)
Load ==
    /\ Op /\ frames = <<>>
    /\ cc_actor_reset
    /\ fut' = [i \in 0 .. FUT_MAX - 1 |-> FALSE]
    /\ late' = FALSE
    /\ kept' = [a \in Actor \cup {None} |-> {}]
    /\ Call([Frame("main", None) EXCEPT !.call = calls + 1])
    /\ UNCHANGED <<replies, who, mq, log, misled, deep>>

(* The resident program's dispatch is called directly, whether the actor    *)
(* lives or not, and a pump follows.                                       *)
cc_actor_send_msg(a) ==
    /\ Op /\ frames = <<>> /\ nact > 0
    /\ late' = FALSE
    /\ Call([Frame("main", a) EXCEPT !.call = calls + 1])
    /\ UNCHANGED <<world, ring, replies, who, fut, kept, log, gone, misled, deep>>

(* A request from another board differs only in what becomes of the output. *)
cc_remote_dispatch(a) == cc_actor_send_msg(a)

(* The deadline of cc_set_deadline passes, or the waiter asks for an abort. *)
Deadline ==
    /\ frames # <<>> /\ ~late /\ late' = TRUE
    /\ UNCHANGED <<world, ring, replies, who, ghosts, fut, frames, kept>>

-----------------------------------------------------------------------------
(* What a running handler may call.                                        *)

cc_actor_new ==
    /\ Op /\ Running /\ nact < ACT_MAX
    /\ alive' = [alive EXCEPT ![nact] = TRUE]
    /\ protect' = [protect EXCEPT ![nact] = FALSE]
    /\ nact' = nact + 1
    /\ UNCHANGED <<ring, replies, who, run, log, gone, misled, deep, idle, frames>>

(* send: dropped when the receiver is dead or the ring is full.  A reply    *)
(* slot the sender holds may travel as the argument.                       *)
cc_enqueue(a, m, r) ==
    LET nx  == (qt + 1) % MQ_MAX
        msg == [id |-> Len(log) + 1, to |-> a, mid |-> m, from |-> cur, r |-> r]
    IN /\ Op /\ Running
       /\ alive[a] /\ nx # qh
       /\ mq' = [mq EXCEPT ![qt] = msg] /\ qt' = nx
       /\ log' = Append(log, msg)
       /\ UNCHANGED <<world, replies, who, run, qh, frames, gone, misled, deep>>

rslot_alloc == IF \E i \in Slot : ~rslot[i].used
               THEN CHOOSE i \in Slot : /\ ~rslot[i].used
                                        /\ \A j \in 0 .. i - 1 : rslot[j].used
               ELSE None

(* now a.m(x): cc_now_push, then the dispatch.  Past NOW_DEPTH nothing is   *)
(* pushed, but the pop still pops.                                         *)
cc_now_push(a) ==
    LET s == rslot_alloc IN
    /\ Op /\ Running
    /\ rslot' = IF s = None THEN rslot
                ELSE [rslot EXCEPT ![s] = [Free EXCEPT !.used = TRUE, !.call = calls + 1]]
    /\ rstack' = IF Len(rstack) < NOW_DEPTH THEN Append(rstack, rcur) ELSE rstack
    /\ rcur' = s
    /\ sstack' = IF Len(sstack) < NOW_DEPTH THEN Append(sstack, <<sender, cur>>) ELSE sstack
    /\ sender' = cur
    /\ Call([Frame("now", a) EXCEPT !.slot = s, !.call = calls + 1, !.sawSender = cur])
    /\ idle' = idle \ {a}
    /\ deep' = (deep \/ Len(sstack) >= NOW_DEPTH)
    /\ UNCHANGED <<ring, run, alive, protect, nact, cur, log, gone, misled>>

(* future a.m(x): a slot is taken and the call runs here and now.          *)
cc_future(a, i) ==
    /\ Op /\ Running
    /\ ~fut[i] /\ \A j \in 0 .. i - 1 : fut[j]
    /\ fut' = [fut EXCEPT ![i] = TRUE]
    /\ Call(Frame("fut", a))
    /\ UNCHANGED <<world, ring, replies, who, late, kept, log, gone, misled, deep>>

(* replyto: the slot of the call in progress becomes a value the handler   *)
(* keeps and may send on.  The ghost is the call it is for.                *)
cc_replyto ==
    /\ Op /\ Running /\ rcur # None
    /\ rslot' = [rslot EXCEPT ![rcur].taken = TRUE]
    /\ kept' = [kept EXCEPT ![Self] = @ \cup {<<rcur, rslot[rcur].call>>}]
    /\ UNCHANGED <<world, ring, who, log, gone, misled, deep, rcur, rstack, fut, late, frames>>

(* answer(r, v): refused when the slot is free or already filled.  The      *)
(* value stands for the call the reply slot was handed out for.            *)
cc_answer(r) ==
    /\ Op /\ Running /\ r \in kept[Self]
    /\ kept' = [kept EXCEPT ![Self] = @ \ {r}]
    /\ rslot' = IF ~rslot[r[1]].used \/ rslot[r[1]].filled THEN rslot
                ELSE [rslot EXCEPT ![r[1]].filled = TRUE, ![r[1]].val = r[2]]
    /\ UNCHANGED <<world, ring, who, log, gone, misled, deep, rcur, rstack, fut, late, frames>>

(* select: the first queued message to this actor with a wanted method is  *)
(* taken out of the ring; those before it move up one place.               *)
(* Mutant: the shift stops one place short. *)
ShiftedRing_mutant(i) ==
    [k \in 0 .. MQ_MAX - 1 |->
        IF k # qh /\ Ahead(k) < Ahead(i) THEN mq[(k - 1 + MQ_MAX) % MQ_MAX] ELSE mq[k]]

ShiftedRing(i) ==
    [k \in 0 .. MQ_MAX - 1 |->
        IF k # qh /\ Ahead(k) <= Ahead(i)
        THEN mq[(k - 1 + MQ_MAX) % MQ_MAX] ELSE mq[k]]

cc_select(want, i) ==
    LET match(k) == mq[k].to = Self /\ mq[k].mid \in want IN
    /\ Op /\ Running /\ i \in Queued /\ match(i)
    /\ \A k \in Queued : match(k) => Ahead(k) >= Ahead(i)
    /\ gone' = gone \cup {mq[i].id}
    /\ kept' = [kept EXCEPT ![Self] = @ \cup {mq[i].r[k] : k \in DOMAIN mq[i].r}]
    /\ mq' = ShiftedRing(i) /\ qh' = (qh + 1) % MQ_MAX
    /\ UNCHANGED <<world, replies, who, qt, fut, late, frames, log, misled, deep>>

(* suicide, kill, protect, and the sweep of gc_sweep_core over the idle.   *)
cc_actor_kill(a) ==
    /\ Op /\ Running /\ alive[a] /\ alive' = [alive EXCEPT ![a] = FALSE]
    /\ UNCHANGED <<ring, replies, who, run, log, gone, misled, deep, protect, idle, nact, frames>>

cc_actor_protect(a) ==
    /\ Op /\ Running /\ protect' = [protect EXCEPT ![a] = ~@] /\ a < nact
    /\ UNCHANGED <<ring, replies, who, run, log, gone, misled, deep, alive, idle, nact, frames>>

gc_sweep_core ==
    /\ Op /\ idle # {}
    /\ alive' = [a \in Actor |-> alive[a] /\ (protect[a] \/ a \notin idle)]
    /\ UNCHANGED <<ring, replies, who, run, log, gone, misled, deep, protect, idle, nact, frames>>

Ages ==
    /\ frames = <<>> /\ idle' = {a \in Actor : alive[a]} /\ idle' # idle
    /\ UNCHANGED <<ring, replies, who, run, ghosts, alive, protect, nact, frames>>

-----------------------------------------------------------------------------
(* cc_pump_now, and the pump that follows main() or the host's dispatch.   *)
cc_pump_now ==
    /\ Op /\ Running /\ Call(Frame("pump", None))
    /\ UNCHANGED <<world, ring, replies, who, run, log, gone, misled, deep>>

Pumping == frames # <<>> /\ Top.kind \in {"pump", "pop"} /\ qh # qt /\ ~late

(* One round of cc_pump: the oldest message is taken, and dispatched when   *)
(* its receiver still lives.                                               *)
cc_pump ==
    LET m == mq[qh]
        f == [Frame("msg", m.to) EXCEPT !.sawSender = m.from]
    IN /\ Pumping
       /\ qh' = (qh + 1) % MQ_MAX /\ gone' = gone \cup {m.id}
       /\ IF alive[m.to]
          THEN /\ Call(f) /\ sender' = m.from /\ cur' = m.to /\ idle' = idle \ {m.to}
               /\ kept' = [kept EXCEPT ![m.to] = @ \cup {m.r[k] : k \in DOMAIN m.r}]
          ELSE UNCHANGED <<frames, sender, cur, idle, kept>>
       /\ UNCHANGED <<replies, alive, protect, nact, mq, qt, sstack, fut, late, log, calls, misled, deep>>

(* Mutant: the pump does not put back what it saved. *)

(* Where a returning frame leaves the sender and the current actor.        *)
Restored == IF Top.kind = "msg" THEN <<Top.savedSender, Top.savedCur>> ELSE <<sender, cur>>

(* A handler returns: a dispatched message restores what the pump saved,   *)
(* main() and the host's dispatch are followed by a pump.                  *)
Return ==
    /\ Running /\ Top.kind # "now"
    /\ frames' = IF Top.kind = "main" THEN Append(Below, Frame("pump", None)) ELSE Below
    /\ sender' = Restored[1] /\ cur' = Restored[2]
    /\ UNCHANGED <<world, ring, replies, run, ghosts, sstack>>

PumpEnds ==
    /\ frames # <<>> /\ Top.kind = "pump" /\ (qh = qt \/ late)
    /\ frames' = Below
    /\ UNCHANGED <<world, ring, replies, who, run, ghosts>>

(* cc_now_pop: unless the slot was handed on, the handler's own value is    *)
(* the result; otherwise the ring is pumped until it is answered or empty. *)
cc_now_pop ==
    /\ Running /\ Top.kind = "now"
    /\ rcur' = IF rstack = <<>> THEN None ELSE rstack[Len(rstack)]
    /\ rstack' = IF rstack = <<>> THEN <<>> ELSE SubSeq(rstack, 1, Len(rstack) - 1)
    /\ IF sstack = <<>> THEN UNCHANGED <<sender, cur, sstack>>
       ELSE /\ sender' = sstack[Len(sstack)][1] /\ cur' = sstack[Len(sstack)][2]
            /\ sstack' = SubSeq(sstack, 1, Len(sstack) - 1)
    /\ IF rcur = None THEN frames' = Below /\ UNCHANGED <<rslot, misled>>
       ELSE IF ~rslot[rcur].taken
            THEN /\ frames' = Below /\ rslot' = [rslot EXCEPT ![rcur].used = FALSE]
                 /\ UNCHANGED misled
            ELSE /\ frames' = Append(Below, [Top EXCEPT !.kind = "pop", !.slot = rcur])
                 /\ UNCHANGED <<rslot, misled>>
    /\ UNCHANGED <<world, ring, run, log, gone, calls, deep>>

(* The pump loop of cc_now_pop is over: answered, nothing left, or late.   *)
NowEnds ==
    /\ frames # <<>> /\ Top.kind = "pop"
    /\ rslot[Top.slot].filled \/ qh = qt \/ late
    /\ misled' = IF rslot[Top.slot].filled /\ rslot[Top.slot].val # Top.call
                 THEN misled \cup {Top.call} ELSE misled
    /\ rslot' = [rslot EXCEPT ![Top.slot].used = FALSE]
    /\ frames' = Below
    /\ UNCHANGED <<world, ring, who, run, rcur, rstack, log, gone, calls, deep>>

CInit ==
    /\ alive = [a \in Actor |-> FALSE] /\ protect = [a \in Actor |-> FALSE]
    /\ idle = {} /\ nact = 0 /\ qh = 0 /\ qt = 0
    /\ mq = [i \in 0 .. MQ_MAX - 1 |-> Empty]
    /\ rslot = [i \in Slot |-> Free] /\ rcur = None /\ rstack = <<>>
    /\ sender = None /\ cur = None /\ sstack = <<>>
    /\ fut = [i \in 0 .. FUT_MAX - 1 |-> FALSE]
    /\ late = FALSE /\ frames = <<>> /\ kept = [a \in Actor \cup {None} |-> {}]
    /\ log = <<>> /\ gone = {} /\ calls = 0 /\ misled = {} /\ deep = FALSE

CNext ==
    \/ Load \/ Deadline \/ cc_actor_new \/ cc_replyto \/ gc_sweep_core \/ Ages
    \/ cc_pump_now \/ cc_pump \/ Return \/ PumpEnds \/ cc_now_pop \/ NowEnds
    \/ \E a \in 0 .. nact - 1 :
          \/ cc_actor_send_msg(a) \/ cc_remote_dispatch(a) \/ cc_now_push(a) \/ cc_actor_kill(a) \/ cc_actor_protect(a)
          \/ \E m \in Methods :
                \/ cc_enqueue(a, m, <<>>)
                \/ Running /\ \E r \in kept[Self] : cc_enqueue(a, m, <<r>>)
          \/ \E i \in 0 .. FUT_MAX - 1 : cc_future(a, i)
    \/ Running /\ \E r \in kept[Self] : cc_answer(r)
    \/ \E want \in SUBSET Methods, i \in Queued : cc_select(want, i)

CSpec == CInit /\ [][CNext]_cvars

-----------------------------------------------------------------------------
(* The ring holds exactly the messages sent and not yet consumed, in the    *)
(* order they were sent: cc_select takes one out of the middle of a ring    *)
(* that may wrap (cc.c, cc_enqueue, cc_pump, cc_select).                   *)
RingInOrder ==
    LET n == Ahead(qt)
        left == SelectSeq(log, LAMBDA m : m.id \notin gone)
    IN Len(left) = n /\ \A i \in 1 .. n : mq[(qh + i - 1) % MQ_MAX] = left[i]

(* Whatever calls nest inside a handler, `sender` again means whoever sent  *)
(* the message it is handling when it runs on (cc_pump and cc_now_pop       *)
(* restore what they saved).                                               *)
SenderRestored == Running => sender = Top.sawSender

(* The reply slots in use are those of the calls in progress: none leaks,  *)
(* none is freed under a call that waits for it.                           *)
SlotsHeld ==
    {s \in Slot : rslot[s].used} =
        {frames[i].slot : i \in {j \in DOMAIN frames : frames[j].kind \in {"now", "pop"}}} \ {None}

(* A `now` whose reply slot was passed on returns the answer given for      *)
(* that call.  The message of cc_answer calls a slot invalid once its call *)
(* has used it or given up; the code knows only that the slot is in use.   *)
AnswersReachTheirCall == misled = {}

=============================================================================
