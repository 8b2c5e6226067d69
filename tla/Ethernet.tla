------------------------------ MODULE Ethernet ------------------------------
(***************************************************************************)
(* The two Ethernet drivers and the fan regulator.  A Raspberry Pi 4 has   *)
(* the GENET controller (device/genet/genet.c); a Raspberry Pi 5 has a     *)
(* Cadence GEM inside the RP1, reached over PCIe (rp1pcie.c, rp1eth.c),    *)
(* and a fan on the RP1's PWM (rp1fan.c).  A frame is its number; lengths, *)
(* addresses and register layouts are left out.  What the controllers do   *)
(* on their own (HwReceive, HwSend) is modelled from how the drivers use   *)
(* them.                                                                   *)
(***************************************************************************)
EXTENDS Integers

CONSTANTS RING,        \* receive descriptors (RX_RING_DESCS, RXN)
          TXN,         \* transmit descriptors (TX_DESCS, TXN)
          INDEX,       \* GENET's ring indices count modulo this (0xFFFF + 1)
          Boot,        \* ring positions the firmware may leave behind
          LINKPOLLS,   \* polls of the link before a driver goes on without it
          Temps,       \* SoC temperatures, in degrees; -1 is a failed mailbox call
          FRAMES, SENDS, TICKS   \* bounds: frames received, frames sent, fan events

VARIABLES unit,  \* what this board has: "genet", "gem" or "fan"
          up,    \* [pc, polls, pcie]: how far the driver's bring-up got
          rx, tx, \* the receive and the transmit side
          fan    \* the fan regulator

ethvars == <<unit, up, rx, tx, fan>>

None == 0

(* Firmware leaves the ring positions anywhere; nothing has been received. *)
EInit ==
    /\ unit \in {"genet", "gem", "fan"}
    /\ up = [pc |-> "off", polls |-> 0, pcie |-> FALSE]
    /\ \E b \in Boot :
        /\ rx = [prod |-> b, cons |-> 0, idx |-> 0, desc |-> [i \in 0..RING-1 |-> None],
                 arrived |-> 0, held |-> None, last |-> 0, cut |-> FALSE]
        /\ tx = [prod |-> 0, cons |-> b, idx |-> -1, desc |-> [i \in 0..TXN-1 |-> "none"],
                 buf |-> None, wait |-> None, ok |-> None, wire |-> {}, sends |-> 0, late |-> FALSE]
    /\ fan = [auto |-> TRUE, stage |-> -1, level |-> -1, last |-> -1, events |-> 0]

-----------------------------------------------------------------------------
(* Bring-up of GENET *)

(* mdio_read: the 16-bit register, a read failure (-1), or no answer in    *)
(* 50 ms (-2).  Only the link bit of the value matters here.               *)
mdio_read == {"link", "nolink", "fail", "timeout"}

(* genet_init up to the link polls: a controller that does not answer ends *)
(* the bring-up; the PHY identifiers and the MAC address are only shown.   *)
genet_init ==
    /\ unit = "genet" /\ up.pc = "off"
    /\ \/ up' = [up EXCEPT !.pc = "dead"]          \* SYS_REV_CTRL reads 0 or all ones
       \/ up' = [up EXCEPT !.pc = "link"]
    /\ UNCHANGED <<unit, rx, tx, fan>>

(* The polls of a latched link bit; a link that stays down ends the        *)
(* bring-up for good, before the rings exist.                              *)
genet_link_poll ==
    /\ unit = "genet" /\ up.pc = "link"
    /\ \E bmsr \in mdio_read :
        up' = [up EXCEPT !.polls = @ + 1,
                         !.pc = CASE bmsr = "link" -> "arp"
                                  [] up.polls + 1 = LINKPOLLS -> "dead"
                                  [] OTHER -> "link"]
    /\ UNCHANGED <<unit, rx, tx, fan>>

(* genet_send_one_arp: the transmit ring starts empty at the firmware's    *)
(* consumer index; one ARP request is handed over from a buffer of its     *)
(* own and waited for.                                                     *)
genet_send_one_arp ==
    /\ unit = "genet" /\ up.pc = "arp"
    /\ tx' = [tx EXCEPT !.prod = (tx.cons + 1) % INDEX, !.desc[tx.cons % TXN] = "arp", !.wait = -1]
    /\ up' = [up EXCEPT !.pc = "arpwait"]
    /\ UNCHANGED <<unit, rx, fan>>

genet_arp_wait ==
    /\ unit = "genet" /\ up.pc = "arpwait"
    /\ tx' = [tx EXCEPT !.wait = None]                  \* sent, or 200 ms are over
    /\ up' = [up EXCEPT !.pc = "rx"]
    /\ UNCHANGED <<unit, rx, fan>>

(* genet_init_rx: every descriptor goes to the controller and the consumer *)
(* index, hardware and software, starts at the producer's.                 *)
genet_init_rx ==
    /\ unit = "genet" /\ up.pc = "rx"
    /\ rx' = [rx EXCEPT !.cons = rx.prod, !.idx = rx.prod % RING]
    /\ up' = [up EXCEPT !.pc = "ready"]
    /\ UNCHANGED <<unit, tx, fan>>

-----------------------------------------------------------------------------
(* Bring-up of the RP1 and its GEM *)

(* rp1pcie_init: the windows are programmed, then the link is polled; only *)
(* a link that came up is enumerated.  Its result is not looked at.        *)
rp1pcie_init ==
    /\ unit = "gem" /\ up.pc = "off"
    /\ \E linked \in BOOLEAN : up' = [up EXCEPT !.pc = "probe", !.pcie = linked]
    /\ UNCHANGED <<unit, rx, tx, fan>>

(* pcie_enumerate: the bridge and the endpoint decode memory from here on, *)
(* so only now can the GEM answer.                                         *)
pcie_enumerate == up.pcie

(* rp1eth_probe: clocks, module id; a GEM that answers gets its MAC and a  *)
(* PHY reset, and is started when the PHY answers too.                     *)
rp1eth_probe ==
    /\ unit = "gem" /\ up.pc = "probe"
    /\ \E alive, phy \in BOOLEAN :
        /\ alive => pcie_enumerate
        /\ up' = [up EXCEPT !.pc = IF alive /\ phy THEN "start" ELSE "dead"]
    /\ UNCHANGED <<unit, rx, tx, fan>>

(* rp1eth_start: both rings, then autonegotiation, polled up to 50 times;  *)
(* the driver goes on at gigabit speed whether or not the link came up.    *)
(* The probe's test frame is the first one rp1eth_tx_frame sends.          *)
rp1eth_start ==
    /\ unit = "gem" /\ up.pc = "start"
    /\ \/ /\ up.polls < LINKPOLLS
          /\ up' = [up EXCEPT !.polls = @ + 1]
          /\ UNCHANGED <<rx, tx>>
       \/ /\ up' = [up EXCEPT !.pc = "ready"]
          /\ rx' = [rx EXCEPT !.prod = 0, !.idx = 0]
          /\ tx' = [tx EXCEPT !.idx = 0, !.cons = 0, !.desc = [i \in 0..TXN-1 |-> "used"]]
    /\ UNCHANGED <<unit, fan>>

-----------------------------------------------------------------------------
(* Receiving *)

(* The controller fills the next descriptor.  GENET goes on over frames    *)
(* that have not been consumed (it never falls a whole index behind); the  *)
(* GEM drops a frame for which the descriptor is still the software's.     *)
HwReceive ==
    /\ up.pc = "ready" /\ rx.arrived < FRAMES
    /\ IF unit = "genet"
       THEN /\ (rx.prod + 1) % INDEX # rx.cons
            /\ rx' = [rx EXCEPT !.arrived = @ + 1, !.prod = (@ + 1) % INDEX,
                                !.desc[rx.prod % RING] = rx.arrived + 1]
       ELSE /\ rx.desc[rx.prod] = None
            /\ rx' = [rx EXCEPT !.arrived = @ + 1, !.prod = (@ + 1) % RING,
                                !.desc[rx.prod] = rx.arrived + 1]
    /\ UNCHANGED <<unit, up, tx, fan>>

genet_rx_recover_mutant(r) ==
    [r EXCEPT !.cons = r.prod, !.cut = TRUE]

(* genet_rx_recover: flush, hand every descriptor back, and set both       *)
(* consumer indices to the producer's; what was in the ring is lost.       *)
genet_rx_recover(r) ==
    [r EXCEPT !.cons = r.prod, !.idx = r.prod % RING, !.cut = TRUE]

(* genet_rx_poll: nothing new; more than a ring behind, recover; else the  *)
(* buffer at the software index.                                           *)
genet_rx_poll ==
    LET avail == (rx.prod - rx.cons + INDEX) % INDEX IN
    /\ unit = "genet" /\ up.pc = "ready" /\ rx.held = None
    /\ avail > 0
    /\ rx' = IF avail > RING THEN genet_rx_recover(rx)
             ELSE [rx EXCEPT !.held = rx.desc[rx.idx], !.last = rx.desc[rx.idx], !.cut = FALSE]
    /\ UNCHANGED <<unit, up, tx, fan>>

genet_rx_release ==
    /\ unit = "genet" /\ rx.held # None
    /\ rx' = [rx EXCEPT !.held = None, !.cons = (@ + 1) % INDEX, !.idx = (@ + 1) % RING]
    /\ UNCHANGED <<unit, up, tx, fan>>

(* rp1eth_rx_poll: a descriptor the controller has used holds a frame.     *)
rp1eth_rx_poll ==
    /\ unit = "gem" /\ up.pc = "ready" /\ rx.held = None
    /\ rx.desc[rx.idx] # None
    /\ rx' = [rx EXCEPT !.held = rx.desc[rx.idx], !.last = rx.desc[rx.idx]]
    /\ UNCHANGED <<unit, up, tx, fan>>

rp1eth_rx_release ==
    /\ unit = "gem" /\ rx.held # None
    /\ rx' = [rx EXCEPT !.held = None, !.desc[rx.idx] = None, !.idx = (@ + 1) % RING]
    /\ UNCHANGED <<unit, up, tx, fan>>

-----------------------------------------------------------------------------
(* Sending: both drivers copy the frame into their one transmit buffer,    *)
(* point the next descriptor at it, ring the doorbell and wait.            *)

(* genet_tx_frame up to the wait; the first call takes its descriptor      *)
(* index from the controller's consumer index.  late is a history: that    *)
(* call came before the boot-time frame was sent, or a controller that     *)
(* sends nothing is about to be a whole index behind.                      *)
genet_tx_frame ==
    LET idx == IF tx.idx < 0 THEN tx.cons % TXN ELSE tx.idx IN
    /\ unit = "genet" /\ up.pc = "ready" /\ tx.wait = None /\ tx.sends < SENDS
    /\ tx' = [tx EXCEPT !.sends = @ + 1, !.buf = tx.sends + 1, !.wait = tx.sends + 1,
                        !.desc[idx % TXN] = "buf", !.prod = (@ + 1) % INDEX,
                        !.idx = (idx + 1) % INDEX,
                        !.late = @ \/ (tx.idx < 0 /\ tx.cons # tx.prod)
                                  \/ (tx.prod + 1) % INDEX = tx.cons]
    /\ UNCHANGED <<unit, up, rx, fan>>

rp1eth_tx_frame ==
    /\ unit = "gem" /\ up.pc = "ready" /\ tx.wait = None /\ tx.sends < SENDS
    /\ tx' = [tx EXCEPT !.sends = @ + 1, !.buf = tx.sends + 1, !.wait = tx.sends + 1,
                        !.desc[tx.idx] = "buf"]
    /\ UNCHANGED <<unit, up, rx, fan>>

(* What the driver takes for the end of its frame.                         *)
Completed == IF unit = "genet" THEN tx.cons = tx.prod ELSE tx.desc[tx.idx] = "used"

(* The end of a call: completed, or given up after the wait.  The GEM's    *)
(* index moves on either way; GENET's has moved already.                   *)
TxDone ==
    /\ tx.wait > 0
    /\ tx' = [tx EXCEPT !.wait = None, !.ok = IF Completed THEN tx.wait ELSE None,
                        !.idx = IF unit = "gem" THEN (@ + 1) % TXN ELSE @]
    /\ UNCHANGED <<unit, up, rx, fan>>

(* The controller sends what its next descriptor points at, as it is now;  *)
(* GENET's DMA runs from the boot-time ARP request on.                     *)
HwSend ==
    LET at == tx.cons % TXN IN
    /\ IF unit = "genet" THEN up.pc \in {"arpwait", "rx", "ready"} /\ tx.cons # tx.prod
                         ELSE up.pc = "ready" /\ tx.desc[at] = "buf"
    /\ tx' = [tx EXCEPT !.cons = (@ + 1) % (IF unit = "genet" THEN INDEX ELSE TXN),
                        !.wire = IF tx.desc[at] = "buf" THEN @ \cup {tx.buf} ELSE @,
                        !.desc[at] = IF unit = "genet" THEN @ ELSE "used"]
    /\ UNCHANGED <<unit, up, rx, fan>>

-----------------------------------------------------------------------------
(* The fan *)

Up == <<50, 60, 68, 75>>            \* the trip points, in degrees, rounded up
Lvl == <<75, 75, 125, 175, 250>>

(* The two loops of the regulator: the stage goes up at a trip point and   *)
(* down 5 degrees below it.                                                *)
Stage(st, mc) ==
    LET climbs == {s \in st..4 : \A i \in st..(s - 1) : mc >= Up[i + 1]}
        top    == CHOOSE s \in climbs : \A t \in climbs : t <= s
        falls  == {s \in 0..top : \A i \in (s + 1)..top : mc < Up[i] - 5}
    IN  CHOOSE s \in falls : \A t \in falls : s <= t

(* rp1fan_set clamps and programs the PWM; without a clock it changes      *)
(* nothing and says so.                                                    *)
rp1fan_set(f, level) ==
    {f, [f EXCEPT !.level = IF level < 0 THEN 0 ELSE IF level > 255 THEN 255 ELSE level]}

(* rp1fan_thermal_tick: the stage is stored before the PWM is tried.       *)
rp1fan_thermal_tick ==
    /\ unit = "fan" /\ fan.auto /\ fan.events < TICKS
    /\ \E mc \in Temps :
        LET st0 == IF fan.stage < 0 THEN 0 ELSE fan.stage
            st  == IF mc >= 0 THEN Stage(st0, mc) ELSE st0
            f   == [fan EXCEPT !.last = mc, !.stage = st, !.events = @ + 1]
        IN  fan' \in IF st # fan.stage THEN rp1fan_set(f, Lvl[st + 1]) ELSE {f}
    /\ UNCHANGED <<unit, up, rx, tx>>

(* The /fan route: auto=0|1, and a level, which also ends the regulation.  *)
fan_route ==
    /\ unit = "fan" /\ fan.events < TICKS
    /\ LET f == [fan EXCEPT !.events = @ + 1] IN
        \/ \E on \in BOOLEAN : fan' = [f EXCEPT !.auto = on]
        \/ \E level \in {0, 300} : fan' \in rp1fan_set([f EXCEPT !.auto = FALSE], level)
    /\ UNCHANGED <<unit, up, rx, tx>>

ENext ==
    \/ genet_init \/ genet_link_poll \/ genet_send_one_arp \/ genet_arp_wait \/ genet_init_rx
    \/ rp1pcie_init \/ rp1eth_probe \/ rp1eth_start
    \/ HwReceive \/ genet_rx_poll \/ genet_rx_release \/ rp1eth_rx_poll \/ rp1eth_rx_release
    \/ genet_tx_frame \/ rp1eth_tx_frame \/ TxDone \/ HwSend
    \/ rp1fan_thermal_tick \/ fan_route

ESpec == EInit /\ [][ENext]_ethvars

-----------------------------------------------------------------------------
(* Properties *)

(* Frames reach the stack in order and once, and none is missing unless    *)
(* the ring was given up in between (genet_rx_recover), when the next one  *)
(* is the first that arrived after that: the software index stays with the *)
(* controller's through overruns, wraps and re-arming.                     *)
NextInOrder ==
    rx.held = None /\ rx'.held # None =>
        rx'.held = IF rx.cut THEN (rx.arrived + 1) - ((rx.prod - rx.cons + INDEX) % INDEX)
                   ELSE rx.last + 1

(* A frame the driver reports as sent has been on the wire: unless the     *)
(* boot-time ARP request was still pending when the first frame took its   *)
(* descriptor, or GENET fell a whole index behind, GENET's indices and the *)
(* GEM's flags never call a frame done that the controller skipped.        *)
SentIsOnWire == tx.ok # None /\ ~tx.late => tx.ok \in tx.wire

(* The regulated stage brackets the temperature it was computed from: not  *)
(* below the trip points reached, nor above one left by five degrees.      *)
StageFits ==
    fan.stage >= 0 /\ fan.last >= 0 /\ fan.auto =>
        /\ fan.stage < 4 => fan.last < Up[fan.stage + 1]
        /\ fan.stage > 0 => fan.last >= Up[fan.stage] - 5
=============================================================================
