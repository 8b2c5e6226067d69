-------------------------------- MODULE Boot --------------------------------
(***************************************************************************)
(* kernel_main (loader/main.c): the order in which the parts are brought   *)
(* up, what each step needs from the earlier ones, the timer interrupt     *)
(* once it is unmasked, and the loop each build ends in: the window        *)
(* manager, the text console of OS #2 (NO_WM), the shell-only OS #1        *)
(* (MINIMAL_OS), or the serial shell when there is no display.             *)
(***************************************************************************)
EXTENDS Integers, Sequences

CONSTANTS Build,     \* the builds considered
          NPROC,     \* slots of the process table that boot may fill
          EVENTS     \* bound on frames and keys from outside

VARIABLES build, at,     \* which build, and how many steps of boot are done
          ready,         \* the parts that are up
          irq,           \* whether DAIF.I is unmasked
          procs,         \* the processes given to ready_push, in order
          frame, key,    \* a received frame / a typed line waits to be served
          line,          \* g_min_ready of the text consoles
          outside,       \* frames and keys so far
          missing,       \* parts a step or an interrupt found not up
          hung           \* a scan of the ready list does not end

bootvars == <<build, at, ready, irq, procs, frame, key, line, outside, missing, hung>>

Step(name, needs, gives) == [name |-> name, needs |-> needs, gives |-> gives]

(* kernel_main up to the timer: console, vectors, translation, display,    *)
(* heap, process table, file tree, card, USB power, interrupt controller.  *)
EarlyBoot ==
    << Step("uart_init", {}, {"uart"}),
       Step("shellwin_init", {}, {"shellwin"}),
       Step("exception_init", {"uart"}, {"vectors"}),
       Step("mmu_init", {"vectors"}, {"mmu"}),
       Step("video_init", {"mmu"}, {"video"}),
       Step("mem_init", {"uart"}, {"heap"}),
       Step("proc_init", {}, {"proctab"}),
       Step("vfs_populate_demo", {"heap"}, {"vfs"}),
       Step("vfs_mount_sd", {"vfs", "heap"}, {"sd"}),
       Step("usb_init", {"uart"}, {"usbpower"}),
       Step("gic_init", {"vectors"}, {"gic"}),
       Step("timer_init", {"gic"}, {"timer"}) >>

(* minimal_os_run before its loop: PCIe for USB, then interrupts.          *)
minimal_os_run ==
    << Step("rp1pcie_init", {"mmu"}, {"pcie"}),
       Step("irq_enable_all", {"timer", "proctab"}, {}),
       Step("rp1usb_autostart", {"pcie"}, {"usb"}) >>

(* kernel_main from the network controller to the processes: interrupts    *)
(* are unmasked only once the receive ring exists, and the processes are   *)
(* created after that; two of them are given to proc_ready as well, though *)
(* proc_create has listed them.                                            *)
NicBoot ==
    << Step("rp1pcie_init", {"mmu"}, {"pcie"}),
       Step("rp1eth_probe", {"pcie", "heap"}, {"nic"}),
       Step("rp1i2c_init", {"pcie"}, {"i2c"}),
       Step("irq_enable_all", {"timer", "proctab"}, {}),
       Step("net", {"heap", "proctab"}, {}),
       Step("browser", {"heap", "proctab"}, {}),
       Step("proc_ready(browser)", {"proctab"}, {}),
       Step("dofbot", {"heap", "proctab"}, {}),
       Step("proc_ready(dofbot)", {"proctab"}, {}) >>

(* kernel_main from the other cores to the listening port.                 *)
NetBoot ==
    << Step("smp_init", {"heap"}, {"cores"}),
       Step("smp_run_boot_bench", {"cores"}, {}),
       Step("net_responder_set_mac", {}, {"mac"}),
       Step("gratuitous_arp", {"mac", "nic"}, {}),
       Step("actor_init", {}, {"actors"}),
       Step("tcp_listen", {"actors", "mac"}, {"tcp"}) >>

(* A desktop whose loop has no tick.                                       *)
Desktop_mutant ==
    << Step("windows", {"video", "shellwin"}, {"windows"}),
       Step("basicwin_init", {"heap"}, {"basic"}),
       Step("wm_run", {"windows", "basic", "tcp"}, {}) >>

(* kernel_main's windows, in the order wm_add stacks them, and the hooks   *)
(* of the loop that follows.                                               *)
Desktop ==
    << Step("windows", {"video", "shellwin"}, {"windows"}),
       Step("basicwin_init", {"heap"}, {"basic"}),
       Step("wm_set_tick", {"windows"}, {"wmtick"}),
       Step("wm_run", {"windows", "basic", "tcp"}, {}) >>

Program ==
    EarlyBoot \o
    CASE build = "minimal" -> minimal_os_run
      [] build = "os2"     -> NicBoot \o NetBoot
      [] build = "serial"  -> NicBoot \o NetBoot
      [] build = "wm"      -> NicBoot \o NetBoot \o Desktop

Booted == at = Len(Program)

BtInit ==
    /\ build \in Build
    /\ at = 0 /\ ready = {} /\ irq = FALSE /\ procs = <<>>
    /\ frame = FALSE /\ key = FALSE /\ line = FALSE
    /\ outside = 0 /\ missing = {} /\ hung = FALSE

-----------------------------------------------------------------------------
(* What a step of kernel_main gives to ready_push.                         *)
Pushes(name) ==
    CASE name \in {"net", "browser", "dofbot"} -> IF Len(procs) < NPROC THEN <<name>> ELSE <<>>
      [] name = "proc_ready(browser)"          -> <<"browser">>
      [] name = "proc_ready(dofbot)"           -> <<"dofbot">>
      [] OTHER                                 -> <<>>

(* One step of kernel_main.                                                *)
kernel_main ==
    /\ ~Booted
    /\ LET s == Program[at + 1] IN
        /\ missing' = missing \cup (s.needs \ ready)
        /\ ready' = ready \cup s.gives
        /\ irq' = (irq \/ s.name = "irq_enable_all")
        /\ procs' = procs \o Pushes(s.name)
    /\ at' = at + 1
    /\ UNCHANGED <<build, frame, key, line, outside, hung>>

(* The 100 Hz interrupt: proc_timer_tick and net_wake look at proctab;     *)
(* proc_preempt does nothing while the shell's context runs, which during  *)
(* boot and in every final loop it does.                                   *)
timer_tick_hook ==
    /\ irq
    /\ missing' = missing \cup ({"proctab"} \ ready)
    /\ UNCHANGED <<build, at, ready, irq, procs, frame, key, line, outside, hung>>

(* ready_tail->next = p with p = ready_tail closes a circle.               *)
Cyclic == Len(procs) > 1 /\ procs[Len(procs)] = procs[Len(procs) - 1]

-----------------------------------------------------------------------------
(* The loops *)

(* genet_rx_tick: drain the ring and run the stack; pump the USB keyboard. *)
genet_rx_tick ==
    /\ missing' = missing \cup ({"nic", "mac", "tcp"} \ ready)
    /\ frame' = FALSE
    /\ key' = FALSE
    /\ line' = (line \/ key)

(* serial_io_tick, the hook of the window manager's loop; a key goes to    *)
(* the focused window at once.                                             *)
serial_io_tick ==
    /\ build = "wm" /\ Booted /\ ~hung
    /\ "wmtick" \in ready
    /\ genet_rx_tick
    /\ UNCHANGED <<build, at, ready, irq, procs, outside, hung>>

(* console_shell_pump: dispatch a line that is complete.                   *)
console_shell_pump == line' = FALSE

(* minimal_os_run's loop: pump the keyboard, then the console.             *)
minimal_loop ==
    /\ build = "minimal" /\ Booted
    /\ \/ key /\ key' = FALSE /\ line' = TRUE
       \/ ~key /\ console_shell_pump /\ UNCHANGED key
    /\ UNCHANGED <<build, at, ready, irq, procs, frame, outside, missing, hung>>

(* os2_console_run's loop: nothing but the console.                        *)
os2_console_run ==
    /\ build = "os2" /\ Booted /\ ~hung
    /\ console_shell_pump
    /\ UNCHANGED <<build, at, ready, irq, procs, frame, key, outside, missing, hung>>

(* shell_main: a line from the serial port.                                *)
shell_main ==
    /\ build = "serial" /\ Booted /\ ~hung
    /\ console_shell_pump
    /\ UNCHANGED <<build, at, ready, irq, procs, frame, key, outside, missing, hung>>

(* A command or a request that runs a program or a measurement, from any   *)
(* of the loops, gives the processor away: proc_resched scans the list for *)
(* the first process, the net process, which drains the ring.              *)
proc_resched ==
    /\ Booted /\ ~hung /\ procs # <<>>
    /\ IF Cyclic THEN hung' = TRUE /\ UNCHANGED <<frame, key, line, missing>>
                 ELSE genet_rx_tick /\ UNCHANGED hung
    /\ UNCHANGED <<build, at, ready, irq, procs, outside>>

(* From outside: a frame, once the controller receives; a typed line.      *)
Arrives ==
    /\ outside < EVENTS /\ outside' = outside + 1
    /\ \/ "nic" \in ready /\ frame' = TRUE /\ UNCHANGED key
       \/ Booted /\ build # "serial" /\ key' = TRUE /\ UNCHANGED frame
    /\ UNCHANGED <<build, at, ready, irq, procs, line, missing, hung>>

Loop == serial_io_tick \/ minimal_loop \/ os2_console_run \/ shell_main \/ proc_resched

BtNext == kernel_main \/ timer_tick_hook \/ Loop \/ Arrives

(* kernel_main runs to its loop, and the loop runs for ever: nothing takes *)
(* the processor from it.  Of the serial shell nothing is assumed: it      *)
(* waits for what is typed.                                                *)
BtFairness ==
    /\ WF_bootvars(kernel_main) /\ WF_bootvars(serial_io_tick)
    /\ WF_bootvars(minimal_loop) /\ WF_bootvars(os2_console_run)

BtSpec == BtInit /\ [][BtNext]_bootvars /\ BtFairness

-----------------------------------------------------------------------------
(* Properties *)

(* No step of kernel_main, no interrupt and no pass of a final loop meets  *)
(* a part that is not up yet.                                              *)
NothingBeforeItsTime == missing = {}

(* A frame that was received is eventually handed to the stack, in the     *)
(* builds that end in a loop of their own, until a scan of the ready list  *)
(* that the two calls of proc_ready have closed to a circle.  main.c       *)
(* claims it of OS #2 too ("Reached AFTER the full boot ... net/HTTP       *)
(* work").                                                                 *)
FramesServed == (frame /\ build # "serial") ~> (~frame \/ hung)
=============================================================================
