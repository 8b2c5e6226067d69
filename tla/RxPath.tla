------------------------------- MODULE RxPath -------------------------------
(***************************************************************************)
(* The receive path of loader/main.c over the descriptor ring of           *)
(* device/genet/rp1eth.c: genet_rx_tick, called by the net process and by  *)
(* the window loop, its guard g_rx_busy, the window a waiting remote call  *)
(* opens (net_rx_remote_window, net_rx_pump), and the stash of frames put  *)
(* aside meanwhile.  A context is the net process, the window loop         *)
(* (NULLPROC) or the browser process.  NULLPROC is never preempted         *)
(* (proc.c:383); the others may be, between any two steps.  A context that *)
(* serves a request with a program in it waits in a proc_resched loop      *)
(* while the runner process executes it (cc_run_source_proc), so the two   *)
(* are one context here, which gives up the CPU when the program sleeps.   *)
(***************************************************************************)
EXTENDS Naturals, Sequences

CONSTANTS
    Ctx,        \* contexts of this build: a subset of {"net", "wm", "browser"}
    Kind,       \* the kinds of the scene's frames, a sequence: frame i is Kind[i]
    RXN,        \* descriptors in the ring
    STASH_MAX,  \* RX_STASH_MAX
    BUDGET,     \* frames per drain
    ShellCalls  \* whether the shell's cc makes a remote call outside a tick

VARIABLES
    ring, g_rxhead, hw,            \* descriptors, software and hardware position
    toCome, arrived, handled,      \* frames on the wire, received, dispatched
    g_rx_busy, g_rx_remote_only, g_stash, rxcopy,
    pc, held, budget,              \* per context: where it is, its frame, its drain budget
    caller, g_have, cpu, ready, inTcp

vars == <<ring, g_rxhead, hw, toCome, arrived, handled, g_rx_busy, g_rx_remote_only,
          g_stash, rxcopy, pc, held, budget, caller, g_have, cpu, ready, inTcp>>
ringvars == <<ring, g_rxhead, hw, toCome, arrived>>
sched == <<cpu, ready>>

Frame == DOMAIN Kind
NoFrame == 0
Slot == 0..RXN-1

Init ==
    /\ ring = [s \in Slot |-> NoFrame] /\ g_rxhead = 0 /\ hw = 0
    /\ toCome = Frame /\ arrived = << >> /\ handled = << >>
    /\ g_rx_busy = 0 /\ g_rx_remote_only = 0 /\ g_stash = << >> /\ rxcopy = NoFrame
    /\ pc = [c \in Ctx |-> "idle"] /\ held = [c \in Ctx |-> NoFrame]
    /\ budget = [c \in Ctx |-> 0] /\ caller = [c \in Ctx |-> "none"] /\ g_have = FALSE
    /\ cpu = "net" /\ ready = Ctx /\ inTcp = {}

-----------------------------------------------------------------------------
\* The GEM writes a frame into the descriptor at its own position, if software has
\* given it back; otherwise the frame is lost (BNA) and the position stays.
Receive ==
    \E f \in toCome :
        /\ toCome' = toCome \ {f}
        /\ IF ring[hw] = NoFrame
           THEN /\ ring' = [ring EXCEPT ![hw] = f]
                /\ hw' = (hw + 1) % RXN
                /\ arrived' = Append(arrived, f)
           ELSE UNCHANGED <<ring, hw, arrived>>
        /\ UNCHANGED <<g_rxhead, handled, g_rx_busy, g_rx_remote_only, g_stash, rxcopy,
                       pc, held, budget, caller, g_have, sched, inTcp>>

\* The frame in the descriptor at g_rxhead, NoFrame when hardware owns it.
rp1eth_rx_poll == ring[g_rxhead]

rp1eth_rx_release ==
    /\ ring' = [ring EXCEPT ![g_rxhead] = NoFrame]
    /\ g_rxhead' = (g_rxhead + 1) % RXN
    /\ UNCHANGED <<hw, toCome, arrived>>

Goto(c, l) == pc' = [pc EXCEPT ![c] = l]

-----------------------------------------------------------------------------

\* genet_rx_tick, entry: one drain at a time, unless a window is open.
TickEnter(c) ==
    /\ cpu = c /\ c \in {"net", "wm"} /\ pc[c] = "idle" /\ g_rx_busy = 0
    /\ g_rx_busy' = 1
    /\ Goto(c, "stash") /\ budget' = [budget EXCEPT ![c] = BUDGET]
    /\ UNCHANGED <<ringvars, handled, g_rx_remote_only, g_stash, rxcopy, held, caller,
                   g_have, sched, inTcp>>

\* The dispatch chain: DHCP, browser, TCP, remote, ARP and ICMP.  A request that
\* runs a program which calls another board stays inside tcp_handle_packet.
Dispatch(c, f, back) ==
    /\ handled' = Append(handled, f)
    /\ g_have' = (g_have \/ (Kind[f] = "remote" /\ \E d \in Ctx : caller[d] # "none"))
    /\ IF Kind[f] = "run"
       THEN /\ Goto(c, "open") /\ caller' = [caller EXCEPT ![c] = back]
            /\ inTcp' = inTcp \cup {c}
       ELSE Goto(c, back) /\ UNCHANGED <<caller, inTcp>>

\* The stash is emptied first, the newest frame first, whatever the window says.
TickStash(c) ==
    /\ cpu = c /\ pc[c] = "stash"
    /\ IF g_stash = << >>
       THEN Goto(c, "poll") /\ UNCHANGED <<g_stash, handled, g_have, caller, inTcp>>
       ELSE /\ g_stash' = SubSeq(g_stash, 1, Len(g_stash) - 1)
            /\ Dispatch(c, g_stash[Len(g_stash)], "stash")
    /\ UNCHANGED <<ringvars, g_rx_busy, g_rx_remote_only, rxcopy, held, budget, sched>>

\* The poll in the loop condition runs with IRQs on.
TickPoll(c) ==
    /\ cpu = c /\ pc[c] = "poll"
    /\ IF budget[c] > 0 /\ rp1eth_rx_poll # NoFrame
       THEN /\ held' = [held EXCEPT ![c] = rp1eth_rx_poll]
            /\ budget' = [budget EXCEPT ![c] = @ - 1]
            /\ Goto(c, "copy")
       ELSE Goto(c, "end") /\ UNCHANGED <<held, budget>>
    /\ UNCHANGED <<ringvars, handled, g_rx_busy, g_rx_remote_only, g_stash, rxcopy, caller,
                   g_have, sched, inTcp>>

\* Under irq_save: the frame is copied to the one static buffer and its slot released.
TickCopy(c) ==
    /\ cpu = c /\ pc[c] = "copy"
    /\ rxcopy' = held[c]
    /\ rp1eth_rx_release
    /\ Goto(c, "dispatch")
    /\ UNCHANGED <<handled, g_rx_busy, g_rx_remote_only, g_stash, held, budget, caller,
                   g_have, sched, inTcp>>

PutAside(f) ==
    g_stash' = IF Len(g_stash) < STASH_MAX THEN Append(g_stash, f) ELSE g_stash

TickDispatch(c) ==
    /\ cpu = c /\ pc[c] = "dispatch"
    /\ IF g_rx_remote_only = 1 /\ Kind[rxcopy] # "remote"
       THEN /\ PutAside(rxcopy) /\ Goto(c, "poll")
            /\ UNCHANGED <<handled, g_have, caller, inTcp>>
       ELSE Dispatch(c, rxcopy, "poll") /\ UNCHANGED g_stash
    /\ UNCHANGED <<ringvars, g_rx_busy, g_rx_remote_only, rxcopy, held, budget, sched>>

\* After the housekeeping of the other components the guard is dropped; the net
\* process then blocks until the next tick, the window loop goes on.
TickEnd(c) ==
    /\ cpu = c /\ pc[c] = "end"
    /\ g_rx_busy' = 0
    /\ Goto(c, IF c = "net" THEN "block" ELSE "idle")
    /\ UNCHANGED <<ringvars, handled, g_rx_remote_only, g_stash, rxcopy, held, budget, caller,
                   g_have, sched, inTcp>>

\* A guarded tick returns at once; the net process blocks again, for the window loop
\* nothing changes.
TickBusy(c) ==
    /\ cpu = c /\ c = "net" /\ pc[c] = "idle" /\ g_rx_busy = 1
    /\ Goto(c, "block")
    /\ UNCHANGED <<ringvars, handled, g_rx_busy, g_rx_remote_only, g_stash, rxcopy, held,
                   budget, caller, g_have, sched, inTcp>>

-----------------------------------------------------------------------------
\* aipl_remote_call as the receive path sees it: the window opens ...
net_rx_remote_window_on(c) ==
    /\ cpu = c /\ pc[c] = "open"
    /\ g_rx_remote_only' = 1 /\ g_rx_busy' = 0 /\ g_have' = FALSE
    /\ Goto(c, "pump") /\ budget' = [budget EXCEPT ![c] = BUDGET]
    /\ UNCHANGED <<ringvars, handled, g_stash, rxcopy, held, caller, sched, inTcp>>

\* ... net_rx_pump takes frames, poll to release with IRQs masked, keeps what the
\* caller waits for and stashes the rest ...
net_rx_pump(c) ==
    /\ cpu = c /\ pc[c] \in {"pump", "browse"}
    /\ IF budget[c] > 0 /\ rp1eth_rx_poll # NoFrame
       THEN /\ rp1eth_rx_release
            /\ budget' = [budget EXCEPT ![c] = @ - 1]
            /\ IF Kind[rp1eth_rx_poll] \in {"remote", "page"}
               THEN /\ handled' = Append(handled, rp1eth_rx_poll)
                    /\ g_have' = (g_have \/ (Kind[rp1eth_rx_poll] = "remote"
                                              /\ \E d \in Ctx : caller[d] # "none"))
                    /\ UNCHANGED g_stash
               ELSE PutAside(rp1eth_rx_poll) /\ UNCHANGED <<handled, g_have>>
            /\ UNCHANGED pc
       ELSE /\ Goto(c, IF pc[c] = "pump" THEN "wait" ELSE "asleep")
            /\ UNCHANGED <<ringvars, g_stash, handled, g_have, budget>>
    /\ UNCHANGED <<g_rx_busy, g_rx_remote_only, rxcopy, held, caller, sched, inTcp>>

\* ... the caller sleeps 2 ms, unless the answer is there ...
CallSleeps(c) ==
    /\ cpu = c /\ pc[c] = "wait" /\ ~g_have
    /\ Goto(c, "block")
    /\ UNCHANGED <<ringvars, handled, g_rx_busy, g_rx_remote_only, g_stash, rxcopy, held,
                   budget, caller, g_have, sched, inTcp>>

net_rx_remote_window_off_mutant(c) ==
    /\ cpu = c /\ pc[c] = "wait"
    /\ g_rx_busy' = 1 /\ g_have' = FALSE
    /\ Goto(c, caller[c]) /\ caller' = [caller EXCEPT ![c] = "none"]
    /\ inTcp' = inTcp \ {c}
    /\ UNCHANGED <<ringvars, handled, g_rx_remote_only, g_stash, rxcopy, held, budget, sched>>

\* ... and on the answer or the timeout closes the window: the guard goes back to the
\* drain the call was made from.  A call of the shell has none.
net_rx_remote_window_off(c) ==
    /\ cpu = c /\ pc[c] = "wait"
    /\ g_rx_remote_only' = 0 /\ g_rx_busy' = 1 /\ g_have' = FALSE
    /\ Goto(c, caller[c]) /\ caller' = [caller EXCEPT ![c] = "none"]
    /\ inTcp' = inTcp \ {c}
    /\ UNCHANGED <<ringvars, handled, g_stash, rxcopy, held, budget, sched>>

\* A cc command of the shell, run by the window loop outside any tick.
ShellCall ==
    /\ ShellCalls /\ cpu = "wm" /\ pc["wm"] = "idle"
    /\ Goto("wm", "open") /\ caller' = [caller EXCEPT !["wm"] = "idle"]
    /\ UNCHANGED <<ringvars, handled, g_rx_busy, g_rx_remote_only, g_stash, rxcopy, held,
                   budget, g_have, sched, inTcp>>

\* The browser process fetches: it pumps the ring while it waits.
BrowserFetch ==
    /\ cpu = "browser" /\ pc["browser"] = "idle"
    /\ Goto("browser", "browse") /\ budget' = [budget EXCEPT !["browser"] = BUDGET]
    /\ UNCHANGED <<ringvars, handled, g_rx_busy, g_rx_remote_only, g_stash, rxcopy, held,
                   caller, g_have, sched, inTcp>>

-----------------------------------------------------------------------------
\* proc_resched as these contexts meet it: a process that blocks or sleeps leaves
\* the CPU, a preempted one stays ready; NULLPROC is chosen when nobody is ready.
Blocked(c) == pc[c] \in {"block", "asleep"}
Choose(r) == {c \in r : c # "wm" \/ r \subseteq {"wm"}}

Leave ==
    /\ Blocked(cpu)
    /\ LET r == ready \ {cpu} IN
         /\ ready' = r
         /\ IF Choose(r) = {} THEN UNCHANGED cpu ELSE cpu' \in Choose(r)
    /\ Goto(cpu, IF caller[cpu] = "none" THEN "off" ELSE "dozing")
    /\ UNCHANGED <<ringvars, handled, g_rx_busy, g_rx_remote_only, g_stash, rxcopy, held,
                   budget, caller, g_have, inTcp>>

\* The timer interrupt readies the net process and sleepers.
Wake(c) ==
    /\ pc[c] \in {"off", "dozing"}
    /\ ready' = ready \cup {c}
    /\ Goto(c, IF pc[c] = "off" THEN "idle" ELSE "pump")
    /\ budget' = [budget EXCEPT ![c] = IF pc[c] = "off" THEN @ ELSE BUDGET]
    /\ IF cpu \notin ready THEN cpu' = c ELSE UNCHANGED cpu
    /\ UNCHANGED <<ringvars, handled, g_rx_busy, g_rx_remote_only, g_stash, rxcopy, held,
                   caller, g_have, inTcp>>

\* proc_preempt switches between processes, and the window loop yields between ticks.
Switch ==
    /\ \/ cpu # "wm"
       \/ cpu = "wm" /\ pc["wm"] = "idle"
    /\ cpu \in ready /\ ~Blocked(cpu)
    /\ \E c \in ready \ {cpu, "wm"} : cpu' = c
    /\ UNCHANGED <<ringvars, handled, g_rx_busy, g_rx_remote_only, g_stash, rxcopy, pc, held,
                   budget, caller, g_have, ready, inTcp>>

Run(c) ==
    \/ TickEnter(c) \/ TickStash(c) \/ TickPoll(c) \/ TickCopy(c) \/ TickDispatch(c)
    \/ TickEnd(c) \/ TickBusy(c)
    \/ net_rx_remote_window_on(c) \/ net_rx_pump(c) \/ CallSleeps(c)
    \/ net_rx_remote_window_off(c)

Next ==
    \/ Receive \/ Leave \/ Switch
    \/ \E c \in Ctx : Run(c) \/ Wake(c)
    \/ "wm" \in Ctx /\ ShellCall
    \/ "browser" \in Ctx /\ BrowserFetch

-----------------------------------------------------------------------------
\* main.c:137-139: while a request of TCP is being served nothing but remote frames
\* is dispatched, so that TCP is not entered again.
NoTcpReentry == \A c, d \in inTcp : c = d

\* With no window open, what is dispatched is what the hardware received, in order
\* and once, although two contexts drain the same ring.
InOrderOnce == handled = SubSeq(arrived, 1, Len(handled))

\* No frame is handed on twice, and the software position never leaves the hardware's.
RingInStep ==
    /\ \A i, j \in 1..Len(handled) : handled[i] = handled[j] => i = j
    /\ \A s \in Slot : ring[s] # NoFrame => ring[g_rxhead] # NoFrame

\* The guard is back when nobody is inside the receive path.
GuardRestored ==
    (\A c \in Ctx : pc[c] \in {"idle", "block", "off"} /\ caller[c] = "none")
        => g_rx_busy = 0 /\ g_rx_remote_only = 0
=============================================================================
