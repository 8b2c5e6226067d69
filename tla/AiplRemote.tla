----------------------------- MODULE AiplRemote -----------------------------
(***************************************************************************)
(* Objects that call one another across boards (system/aipl_remote.c):     *)
(* requests and replies in UDP datagrams, repeated every 200 ms until the  *)
(* answer is there or the caller gives up, and on the other side a cache   *)
(* of the last answers that is meant to run a method once per call.        *)
(*                                                                         *)
(* Each board is one flow of control, the network process with the program *)
(* it runs: a stack of calls that wait and of methods that run for other   *)
(* boards.  A waiting call drains the receive ring itself (net_rx_pump),   *)
(* so a request that comes in meanwhile runs on top of it, and its method  *)
(* may call out again.  A value is the call it is the answer to; the field *)
(* call of a message and the variables runs and results are history.       *)
(* Not modelled: the table of MAC addresses, which only chooses between    *)
(* unicast and broadcast frames, the counters, and the text of messages.   *)
(***************************************************************************)
EXTENDS Integers, Sequences, FiniteSets

CONSTANTS
    Boards,
    ANS_MAX,        \* slots of the answer cache
    MESH_MAX,       \* answers one gather collects
    IdLimit,        \* ids run from 1 to this (1000000)
    Ops,            \* the kinds of requests programs make
    Leaf,           \* methods called from other boards call nobody
    MaxCalls,       \* bound: requests issued by programs
    MaxTries,       \* bound: repetitions of one request
    MaxDepth,       \* bound: waiting calls and running methods on one board
    MaxReboots      \* bound: restarts of a board

\* What the constants must satisfy.
ConstantsOK ==
    /\ ANS_MAX \in Nat \ {0} /\ MESH_MAX \in Nat \ {0} /\ IdLimit \in Nat \ {0}
    /\ Ops \subseteq {"call", "send", "broadcast", "gather", "probe"}
    /\ Leaf \in BOOLEAN
    /\ {MaxCalls, MaxTries, MaxDepth, MaxReboots} \subseteq Nat

VARIABLES
    net,            \* datagrams in flight or in a receive ring
    next_id,        \* g_next_id
    wait_id,        \* g_wait_id; 0 stands for its -1
    have, reply,    \* g_have, g_reply
    ans, ans_next,  \* g_ans, g_ans_next
    mwait,          \* g_mwait_id and g_mwait_kind; id 0 stands for -1
    mgot,           \* g_mip and g_mval: the answers collected, by sender
    stack,          \* the calls and methods of each board, the running one last
    ncalls,         \* requests issued so far (history, and the bound)
    reboots,
    runs,           \* runs[c]: the boards that ran call c's method, once per run
    results         \* what calls returned with: answers and the boards they are from

mesh == <<mwait, mgot>>
cache == <<ans, ans_next>>
waiter == <<wait_id, have, reply>>
history == <<reboots, runs, results>>
vars == <<net, next_id, waiter, cache, mesh, stack, ncalls, history>>

NoCall == 0
Calls == 1 .. MaxCalls
NoEntry == [from |-> NoCall, id |-> 0, call |-> NoCall]

\* A datagram: Q request, R reply, B broadcast, H probe, A presence.
Message == [kind : {"Q", "R", "B", "H", "A"}, from : Boards, to : Boards,
            id : Nat, call : 0 .. MaxCalls]

\* A call that waits ("call", "gather", "probe") for the boards to, or a method
\* run for the board in to ("Q", "B").
Frame == [op : {"call", "gather", "probe", "Q", "B"}, to : SUBSET Boards,
          id : Nat, call : Calls, tries : Nat]

Init ==
    /\ net = {} /\ ncalls = 0 /\ results = {}
    /\ next_id = [b \in Boards |-> 1]
    /\ wait_id = [b \in Boards |-> 0]
    /\ have = [b \in Boards |-> FALSE]
    /\ reply = [b \in Boards |-> NoCall]
    /\ ans = [b \in Boards |-> [i \in 0 .. ANS_MAX - 1 |-> NoEntry]]
    /\ ans_next = [b \in Boards |-> 0]
    /\ mwait = [b \in Boards |-> [id |-> 0, kind |-> ""]]
    /\ mgot = [b \in Boards |-> <<>>]
    /\ stack = [b \in Boards |-> <<>>]
    /\ reboots = 0
    /\ runs = [c \in Calls |-> <<>>]

Idle(b) == stack[b] = <<>>
Top(b) == stack[b][Len(stack[b])]
Push(b, f) == stack' = [stack EXCEPT ![b] = Append(@, f)]
Popped(b) == [stack EXCEPT ![b] = SubSeq(@, 1, Len(@) - 1)]
Waits(b) == ~Idle(b) /\ Top(b).op \in {"call", "gather", "probe"}
Runs(b) == ~Idle(b) /\ Top(b).op \in {"Q", "B"}

\* One datagram for each board of to.
Datagrams(kind, b, to, id, call) ==
    {[kind |-> kind, from |-> b, to |-> t, id |-> id, call |-> call] : t \in to}

-----------------------------------------------------------------------------
(* The side that asks.                                                     *)

\* A program on an idle board, or a method that calls out, issues a request.
MayAsk(b) ==
    /\ Idle(b) \/ (Runs(b) /\ ~Leaf)
    /\ ncalls < MaxCalls
    /\ Len(stack[b]) < MaxDepth

\* The id that follows; aipl_remote_send alone does not wrap it.
Following(id) == IF id + 1 > IdLimit THEN 1 ELSE id + 1

\* aipl_remote_call up to its loop.  With the transmit ring full it returns -1.
aipl_remote_call(b, to) ==
    /\ MayAsk(b)
    /\ ncalls' = ncalls + 1
    /\ next_id' = [next_id EXCEPT ![b] = Following(@)]
    /\ have' = [have EXCEPT ![b] = FALSE]
    /\ \/ /\ net' = net \cup Datagrams("Q", b, {to}, next_id[b], ncalls')
          /\ wait_id' = [wait_id EXCEPT ![b] = next_id[b]]
          /\ Push(b, [op |-> "call", to |-> {to}, id |-> next_id[b],
                      call |-> ncalls', tries |-> 0])
       \/ /\ wait_id' = [wait_id EXCEPT ![b] = 0]
          /\ UNCHANGED <<net, stack>>
    /\ UNCHANGED <<reply, cache, mesh, history>>

\* aipl_remote_send: no answer is awaited.
aipl_remote_send(b, to) ==
    /\ MayAsk(b)
    /\ ncalls' = ncalls + 1
    /\ next_id' = [next_id EXCEPT ![b] = @ + 1]
    /\ net' = net \cup Datagrams("Q", b, {to}, next_id[b], ncalls')
    /\ UNCHANGED <<waiter, cache, mesh, stack, history>>

\* aipl_mesh_bcast.
aipl_mesh_bcast(b) ==
    /\ MayAsk(b)
    /\ ncalls' = ncalls + 1
    /\ next_id' = [next_id EXCEPT ![b] = Following(@)]
    /\ net' = net \cup Datagrams("B", b, Boards \ {b}, next_id[b], ncalls')
    /\ UNCHANGED <<waiter, cache, mesh, stack, history>>

\* What a waiting call repeats.
Wire(op) == IF op = "probe" THEN "H" ELSE "Q"

\* aipl_mesh_gather and aipl_mesh_probe, with mesh_run up to its loop.
mesh_run(b, op) ==
    /\ MayAsk(b)
    /\ ncalls' = ncalls + 1
    /\ next_id' = [next_id EXCEPT ![b] = Following(@)]
    /\ mwait' = [mwait EXCEPT ![b] = [id |-> next_id[b], kind |-> op]]
    /\ mgot' = [mgot EXCEPT ![b] = <<>>]
    /\ net' = net \cup Datagrams(Wire(op), b, Boards \ {b}, next_id[b], ncalls')
    /\ Push(b, [op |-> op, to |-> Boards \ {b}, id |-> next_id[b],
                call |-> ncalls', tries |-> 0])
    /\ UNCHANGED <<waiter, cache, history>>

\* 200 ms have passed: the request goes out again.  A copy that is still in
\* flight absorbs it; the copy that comes late is one sent after a reception.
resend(b) ==
    /\ Waits(b) /\ Top(b).tries < MaxTries
    /\ net' = net \cup Datagrams(Wire(Top(b).op), b, Top(b).to, Top(b).id, Top(b).call)
    /\ stack' = [stack EXCEPT ![b][Len(stack[b])].tries = @ + 1]
    /\ UNCHANGED <<next_id, waiter, cache, mesh, ncalls, history>>

\* The loop of aipl_remote_call sees g_have; g_have stays set.
call_returns(b) ==
    /\ Waits(b) /\ Top(b).op = "call" /\ have[b]
    /\ wait_id' = [wait_id EXCEPT ![b] = 0]
    /\ LET to == CHOOSE x \in Top(b).to : TRUE IN
       results' = results \cup {[call |-> Top(b).call, op |-> "call",
                                 got |-> <<[from |-> to, call |-> reply[b]]>>]}
    /\ stack' = Popped(b)
    /\ UNCHANGED <<net, next_id, have, reply, cache, mesh, ncalls, reboots, runs>>

\* A deadline that only ends a call that is still registered.
call_times_out_mutant(b) ==
    /\ Waits(b) /\ Top(b).op = "call" /\ ~have[b] /\ wait_id[b] = Top(b).id
    /\ wait_id' = [wait_id EXCEPT ![b] = 0]
    /\ stack' = Popped(b)
    /\ UNCHANGED <<net, next_id, have, reply, cache, mesh, ncalls, history>>

\* ... or that its time is up.
call_times_out(b) ==
    /\ Waits(b) /\ Top(b).op = "call" /\ ~have[b]
    /\ wait_id' = [wait_id EXCEPT ![b] = 0]
    /\ stack' = Popped(b)
    /\ UNCHANGED <<net, next_id, have, reply, cache, mesh, ncalls, history>>

\* The time of mesh_run is up or the table full; gather and probe hand out what
\* was collected.
mesh_returns(b) ==
    /\ Waits(b) /\ Top(b).op \in {"gather", "probe"}
    /\ mwait' = [mwait EXCEPT ![b] = [id |-> 0, kind |-> ""]]
    /\ results' = results \cup {[call |-> Top(b).call, op |-> Top(b).op, got |-> mgot[b]]}
    /\ stack' = Popped(b)
    /\ UNCHANGED <<net, next_id, waiter, cache, mgot, ncalls, reboots, runs>>

-----------------------------------------------------------------------------
(* aipl_remote_handle, on a board that is idle or waits.                   *)

Receives(b, m) == m \in net /\ m.to = b /\ ~Runs(b)

\* mesh_collect_put: one answer per board while there is room.
mesh_collect_put(b, m) ==
    mgot' = [mgot EXCEPT ![b] =
                IF Len(@) >= MESH_MAX \/ \E i \in DOMAIN @ : @[i].from = m.from
                THEN @ ELSE Append(@, [from |-> m.from, call |-> m.call])]

\* The reply is the one aipl_remote_call waits for.
Awaited(b, m) == wait_id[b] = m.id

receive_R(b, m) ==
    /\ Receives(b, m) /\ m.kind = "R"
    /\ net' = net \ {m}
    /\ IF mwait[b] = [id |-> m.id, kind |-> "gather"]
       THEN mesh_collect_put(b, m) ELSE UNCHANGED mgot
    /\ IF Awaited(b, m)
       THEN /\ have' = [have EXCEPT ![b] = TRUE]
            /\ reply' = [reply EXCEPT ![b] = m.call]
       ELSE UNCHANGED <<have, reply>>
    /\ UNCHANGED <<next_id, wait_id, cache, mwait, stack, ncalls, history>>

\* The board answers that it is there.
receive_H(b, m) ==
    /\ Receives(b, m) /\ m.kind = "H"
    /\ net' = (net \ {m}) \cup Datagrams("A", b, {m.from}, m.id, m.call)
    /\ UNCHANGED <<next_id, waiter, cache, mesh, stack, ncalls, history>>

receive_A(b, m) ==
    /\ Receives(b, m) /\ m.kind = "A"
    /\ net' = net \ {m}
    /\ IF mwait[b] = [id |-> m.id, kind |-> "probe"]
       THEN mesh_collect_put(b, m) ELSE UNCHANGED mgot
    /\ UNCHANGED <<next_id, waiter, cache, mwait, stack, ncalls, history>>

\* ans_lookup: the slots with an answer to (from, id).
ans_lookup(b, from, id) ==
    {i \in DOMAIN ans[b] : ans[b][i].from = from /\ ans[b][i].id = id}

\* A request or broadcast that is answered already: the old answer goes out
\* again, from the first slot that has it; a broadcast has no answer.
receive_again(b, m) ==
    /\ Receives(b, m) /\ m.kind \in {"Q", "B"}
    /\ \E i \in ans_lookup(b, m.from, m.id) :
        /\ \A j \in ans_lookup(b, m.from, m.id) : i <= j
        /\ net' = (net \ {m}) \cup
              IF m.kind = "Q"
              THEN Datagrams("R", b, {m.from}, m.id, ans[b][i].call) ELSE {}
    /\ UNCHANGED <<next_id, waiter, cache, mesh, stack, ncalls, history>>

\* A new one: its method starts, on top of whatever waits.
receive_new(b, m) ==
    /\ Receives(b, m) /\ m.kind \in {"Q", "B"}
    /\ ans_lookup(b, m.from, m.id) = {}
    /\ Len(stack[b]) < MaxDepth
    /\ net' = net \ {m}
    /\ Push(b, [op |-> m.kind, to |-> {m.from}, id |-> m.id, call |-> m.call, tries |-> 0])
    /\ runs' = [runs EXCEPT ![m.call] = Append(@, b)]
    /\ UNCHANGED <<next_id, waiter, cache, mesh, ncalls, reboots, results>>

\* A store that never moves on to the next slot.
ans_store_mutant(b, e) ==
    /\ ans' = [ans EXCEPT ![b][ans_next[b]] = e]
    /\ UNCHANGED ans_next

\* ans_store in the next slot, round robin.
ans_store(b, e) ==
    /\ ans' = [ans EXCEPT ![b][ans_next[b]] = e]
    /\ ans_next' = [ans_next EXCEPT ![b] = (@ + 1) % ANS_MAX]

\* The method is done: its answer is kept and, for a request, sent.
method_done(b) ==
    /\ Runs(b)
    /\ LET f == Top(b)
           from == CHOOSE x \in f.to : TRUE
       IN  /\ ans_store(b, [from |-> from, id |-> f.id, call |-> f.call])
           /\ net' = IF f.op = "Q"
                     THEN net \cup Datagrams("R", b, f.to, f.id, f.call) ELSE net
    /\ stack' = Popped(b)
    /\ UNCHANGED <<next_id, waiter, mesh, ncalls, history>>

-----------------------------------------------------------------------------
\* A datagram is lost.
lose(m) ==
    /\ net' = net \ {m}
    /\ UNCHANGED <<next_id, waiter, cache, mesh, stack, ncalls, history>>

\* A board restarts: its variables are those of Init, and so are its ids.
reboot(b) ==
    /\ reboots < MaxReboots
    /\ reboots' = reboots + 1
    /\ next_id' = [next_id EXCEPT ![b] = 1]
    /\ wait_id' = [wait_id EXCEPT ![b] = 0]
    /\ have' = [have EXCEPT ![b] = FALSE]
    /\ reply' = [reply EXCEPT ![b] = NoCall]
    /\ ans' = [ans EXCEPT ![b] = [i \in 0 .. ANS_MAX - 1 |-> NoEntry]]
    /\ ans_next' = [ans_next EXCEPT ![b] = 0]
    /\ mwait' = [mwait EXCEPT ![b] = [id |-> 0, kind |-> ""]]
    /\ mgot' = [mgot EXCEPT ![b] = <<>>]
    /\ stack' = [stack EXCEPT ![b] = <<>>]
    /\ UNCHANGED <<net, ncalls, runs, results>>

ask(b) ==
    \/ \E to \in Boards \ {b} : \/ "call" \in Ops /\ aipl_remote_call(b, to)
                                \/ "send" \in Ops /\ aipl_remote_send(b, to)
    \/ "broadcast" \in Ops /\ aipl_mesh_bcast(b)
    \/ \E op \in Ops \cap {"gather", "probe"} : mesh_run(b, op)

\* What a board does without being asked to: its loops come to an end and its
\* methods finish.
progress(b) == call_returns(b) \/ call_times_out(b) \/ mesh_returns(b) \/ method_done(b)

Next ==
    \/ \E b \in Boards : ask(b) \/ resend(b) \/ progress(b) \/ reboot(b)
    \/ \E m \in net :
        \/ \E b \in Boards : \/ receive_R(b, m) \/ receive_H(b, m) \/ receive_A(b, m)
                             \/ receive_again(b, m) \/ receive_new(b, m)
        \/ lose(m)

\* Time passes and methods return.
Spec == Init /\ [][Next]_vars /\ \A b \in Boards : WF_vars(progress(b))

-----------------------------------------------------------------------------
\* The shapes of the variables.
TypeOK ==
    /\ net \subseteq Message
    /\ next_id \in [Boards -> Nat \ {0}] /\ wait_id \in [Boards -> Nat]
    /\ have \in [Boards -> BOOLEAN] /\ reply \in [Boards -> 0 .. MaxCalls]
    /\ \A b \in Boards : stack[b] \in Seq(Frame) /\ Len(mgot[b]) <= MESH_MAX

\* What aipl_remote_call, gather and neighbors hand to the program are answers to
\* that very request, at most one per board, and of boards whose method ran for
\* it, however late or often datagrams came: an old reply never ends a new call.
AnswersRight ==
    \A r \in results : \A i \in DOMAIN r.got :
        /\ r.got[i].call = r.call
        /\ \A j \in DOMAIN r.got : r.got[i].from = r.got[j].from => i = j
        /\ r.op # "probe" => \E k \in DOMAIN runs[r.call] : runs[r.call][k] = r.got[i].from

\* aipl_remote.c:93: requests are repeated, but the method runs at most once per
\* call on each board.
AtMostOnce ==
    \A c \in Calls : \A i, j \in DOMAIN runs[c] : runs[c][i] = runs[c][j] => i = j

\* No board waits for ever, not even when two boards call one another from
\* within the methods they run for each other.
CallsUnwind == \A b \in Boards : Len(stack[b]) > 0 ~> Idle(b)
=============================================================================
