---------------------------------- MODULE Usb ----------------------------------
(* The RP1 USB host driver (device/usb/rp1usb.c): two xHCI controllers, each     *)
(* with one event ring; devices are enumerated and bound step by step, every     *)
(* step waiting on the event ring of its controller; the 100 Hz pump drains the  *)
(* same rings, hands reports to the mouse, the keyboard and the camera, and puts *)
(* each consumed transfer back.  Rings are queues: TRB layout, contexts and      *)
(* registers are abstracted; what a completed step answers is what is plugged    *)
(* in, or a failure.                                                             *)
EXTENDS Integers, Sequences

CONSTANTS Plug,      \* Plug[c][p]: "none", "mouse", "kbd", "cam" or "msd" on port p of controller c
          MAXPHASE,  \* binding attempts of the boot loop (12 in the code)
          MAXSLOT,   \* device slots of a controller: Enable Slot fails beyond them
          PKTS,      \* packets of one camera frame
          FRAMES,    \* frames the camera sends, a bound
          LOSS,      \* packets the bus may lose, a bound
          OPS        \* requests of the /usb and /cam routes, a bound

Ctrl == {0, 1}
Device == {"none", "mouse", "kbd", "cam", "msd"}

(* One camera at most, and losses too few to swallow a whole frame and the end *)
(* of the one before it: the frame id is a single bit.                         *)
ConstantsOK ==
  /\ Plug \in [Ctrl -> Seq(Device)]
  /\ \A c, x \in Ctrl : \A p \in DOMAIN Plug[c], q \in DOMAIN Plug[x] :
       Plug[c][p] = "cam" /\ Plug[x][q] = "cam" => c = x /\ p = q
  /\ MAXPHASE \in Nat /\ MAXSLOT \in Nat /\ FRAMES \in Nat /\ OPS \in Nat
  /\ PKTS \in Nat \ {0} /\ LOSS \in Nat /\ LOSS <= PKTS

Hid == {"mouse", "kbd"}
Idle == [op |-> "idle"]
NoCam == [on |-> FALSE, ctrl |-> 0, port |-> 0, fid |-> -1, fill |-> << >>, ready |-> << >>]

VARIABLES
  inited,    \* g_cm[c].inited
  slots,     \* slots enabled so far on each controller; none is ever disabled
  hid,       \* the bound mouse and keyboard: [on, ctrl, slot]
  armed,     \* interrupt-IN transfers the controller still holds for each
  cam,       \* the camera: where it is, the frame being filled, the published one
  evq,       \* the event ring of each controller
  job,       \* the driver's operation in progress: Idle, or controller, port, step and slot
  todo,      \* controllers the operation has still to scan
  sends,     \* what the camera sends next: its frame and packet number
  phase,     \* s_usb_phase of the boot loop
  delivered, \* a mouse report has been delivered (rp1usb_mouse_reports() > 0)
  stolen,    \* history: <<device, operation>> for each event of a bound device a wait consumed
  ops
vars == <<inited, slots, hid, armed, cam, evq, job, todo, sends, phase, delivered, stolen, ops>>

Off == [on |-> FALSE, ctrl |-> 0, slot |-> 0]

(* The steps of one port: reset and Enable Slot, Address Device, the              *)
(* configuration descriptor, SET_CONFIGURATION, Configure Endpoint, and the two   *)
(* HID requests whose answers are ignored; the camera negotiates (Probe, Commit,  *)
(* SET_INTERFACE) where a HID device sets its protocol.                           *)
Steps == [scan   |-> <<"slot", "address", "desc", "setcfg", "cfgep", "idle", "proto">>,
          manual |-> <<"slot", "address", "desc", "setcfg", "cfgep", "idle", "proto">>,
          probe  |-> <<"slot", "address", "desc">>,
          cam    |-> <<"slot", "address", "setcfg", "negotiate", "cfgep">>,
          msd    |-> <<"slot", "address", "setcfg", "desc", "cfgep">>,
          bulk   |-> <<"cbw", "data", "csw">>,
          ctrl   |-> <<"desc">>]
Step == Steps[job.op][job.at]

(* The event type a step waits for: a command completion (33) or a transfer event *)
(* (32).                                                                          *)
Want == IF Step \in {"slot", "address", "cfgep"} THEN 33 ELSE 32

Init ==
  /\ inited = [c \in Ctrl |-> FALSE]
  /\ slots = [c \in Ctrl |-> 0]
  /\ hid = [h \in Hid |-> Off]
  /\ armed = [h \in Hid |-> 0]
  /\ cam = NoCam
  /\ evq = [c \in Ctrl |-> << >>]
  /\ job = Idle /\ todo = << >>
  /\ sends = [frame |-> 1, pkt |-> 1, lost |-> 0]
  /\ phase = 0 /\ delivered = FALSE /\ stolen = {} /\ ops = 0

-----------------------------------------------------------------------------
(* The operations that start.                                                 *)

Begin(op, c, p) == [op |-> op, ctrl |-> c, port |-> p, at |-> 1, slot |-> 0, sent |-> FALSE]

(* rp1usb_xhci_init, at most once per controller: reset, empty rings, run; the    *)
(* reset may fail.                                                                *)
rp1usb_xhci_init(c) ==
  IF inited[c] THEN UNCHANGED inited ELSE \E up \in BOOLEAN : inited' = [inited EXCEPT ![c] = up]

(* rp1usb_autostart in phase 0 forgets both devices and scans controller 1, then  *)
(* 0; rp1usb_rebind_ctrl in the later phases forgets only what controller c had.  *)
UsbPhase ==
  /\ job = Idle /\ todo = << >> /\ phase < MAXPHASE
  /\ IF phase = 0
     THEN /\ hid' = [h \in Hid |-> Off]
          /\ todo' = <<1, 0>> /\ phase' = 1
     ELSE LET mouse_ok == hid["mouse"].on /\ delivered
              kbd_ok == hid["kbd"].on
              c == IF ~mouse_ok THEN IF hid["mouse"].on THEN hid["mouse"].ctrl ELSE 1 ELSE 0
          IN IF mouse_ok /\ kbd_ok
             THEN phase' = MAXPHASE /\ UNCHANGED <<hid, todo>>
             ELSE /\ hid' = [h \in Hid |-> IF hid[h].ctrl = c THEN Off ELSE hid[h]]
                  /\ todo' = <<c>> /\ phase' = phase + 1
  /\ UNCHANGED <<inited, slots, armed, cam, evq, job, sends, delivered, stolen, ops>>

(* autostart_scan_current_ctrl takes the ports in order and leaves the port of a  *)
(* streaming camera alone; ScanFrom(c, p) is the next port to try, or the end.    *)
ScanFrom(c, p) ==
  LET next == {q \in DOMAIN Plug[c] : q >= p /\ ~(cam.on /\ cam.ctrl = c /\ cam.port = q)}
  IN IF next = {} THEN Idle ELSE Begin("scan", c, CHOOSE q \in next : \A r \in next : q <= r)

Scan ==
  /\ job = Idle /\ todo # << >>
  /\ rp1usb_xhci_init(Head(todo))
  /\ job' = IF inited'[Head(todo)] THEN ScanFrom(Head(todo), 1) ELSE Idle
  /\ todo' = Tail(todo)
  /\ UNCHANGED <<slots, hid, armed, cam, evq, sends, phase, delivered, stolen, ops>>

(* A request of the /usb and /cam routes: bind by hand, probe for a camera, start *)
(* it, set up the mass-storage device, move one block (CBW, data, CSW), or one     *)
(* control transfer (GET_REPORT, GET_DESCRIPTOR).                                  *)
UsbRequest(op, c, p) ==
  /\ job = Idle /\ todo = << >> /\ ops < OPS /\ ops' = ops + 1
  /\ op \in {"probe", "cam", "msd"} \/ inited[c]
  /\ op = "probe" => c = 0 /\ p = 1                     \* rp1usb_cam_probe starts at the first port
  /\ op = "cam" => Plug[c][p] = "cam"                   \* g_cam_ctrl, g_cam_port of the probe
  /\ op = "msd" => c = 0                                \* rp1usb_msd_fullsetup selects controller 0
  /\ op = "bulk" => Plug[c][p] = "msd"
  /\ rp1usb_xhci_init(c)
  /\ job' = IF inited'[c] THEN Begin(op, c, p) ELSE Idle
  /\ cam' = IF op = "cam" THEN NoCam ELSE cam           \* rp1usb_cam_start clears g_cam_active
  /\ UNCHANGED <<slots, hid, armed, evq, todo, sends, phase, delivered, stolen>>

rp1usb_cam_stop ==
  /\ job = Idle /\ todo = << >> /\ cam.on
  /\ cam' = [cam EXCEPT !.on = FALSE]
  /\ job' = Begin("ctrl", cam.ctrl, cam.port)           \* SET_INTERFACE(0)
  /\ UNCHANGED <<inited, slots, hid, armed, evq, todo, sends, phase, delivered, stolen, ops>>

-----------------------------------------------------------------------------
(* The controllers and the devices.                                           *)

Push(c, e) == evq' = [evq EXCEPT ![c] = Append(@, e)]

(* The controller executes the submitted command or control transfer.  Enable     *)
(* Slot succeeds on an empty port too; everything else needs a device.            *)
Complete ==
  /\ job # Idle /\ ~job.sent
  /\ \E ok \in BOOLEAN :
       /\ ok => IF Step = "slot" THEN slots[job.ctrl] < MAXSLOT
                                 ELSE Plug[job.ctrl][job.port] # "none"
       /\ slots' = [slots EXCEPT ![job.ctrl] = IF Step = "slot" /\ ok THEN @ + 1 ELSE @]
       /\ Push(job.ctrl, [type |-> Want, of |-> "job", ok |-> ok, slot |-> slots'[job.ctrl]])
  /\ job' = [job EXCEPT !.sent = TRUE]
  /\ UNCHANGED <<inited, hid, armed, cam, todo, sends, phase, delivered, stolen, ops>>

(* A bound mouse or keyboard reports into one of the transfers armed for it.      *)
Report(h) ==
  /\ hid[h].on /\ armed[h] > 0
  /\ armed' = [armed EXCEPT ![h] = @ - 1]
  /\ Push(hid[h].ctrl, [type |-> 32, of |-> h, ok |-> TRUE, slot |-> hid[h].slot])
  /\ UNCHANGED <<inited, slots, hid, cam, job, todo, sends, phase, delivered, stolen, ops>>

(* The camera sends the packets of its frames in order; one may be lost on the    *)
(* bus or carry the error bit.                                                    *)
Packet ==
  /\ cam.on /\ sends.frame <= FRAMES
  /\ \E err, lost \in BOOLEAN :
       /\ lost => sends.lost < LOSS
       /\ sends' = [frame |-> sends.frame + (IF sends.pkt = PKTS THEN 1 ELSE 0), pkt |-> (sends.pkt % PKTS) + 1,
                    lost |-> sends.lost + (IF lost THEN 1 ELSE 0)]
       /\ IF lost THEN UNCHANGED evq
                  ELSE Push(cam.ctrl, [type |-> 32, of |-> "cam", ok |-> ~err, slot |-> 0,
                                       frame |-> sends.frame, pkt |-> sends.pkt])
  /\ UNCHANGED <<inited, slots, hid, armed, cam, job, todo, phase, delivered, stolen, ops>>

-----------------------------------------------------------------------------
(* The driver waiting for a step: event_wait takes the next event of its ring.    *)
(* An event of another type is consumed and forgotten; any event of the wanted    *)
(* type is taken as the answer, whichever device it comes from.                   *)

Mine(h, c, e) == e.of = h /\ hid[h].on /\ hid[h].ctrl = c /\ hid[h].slot = e.slot
CamEvent(c, e) == e.of = "cam" /\ cam.on /\ cam.ctrl = c

Consume ==
  LET e == Head(evq[job.ctrl])
  IN /\ evq' = [evq EXCEPT ![job.ctrl] = Tail(@)]
     /\ stolen' = stolen \cup {<<d, job.op>> : d \in {h \in Hid : Mine(h, job.ctrl, e)}
                                              \cup {k \in {"cam"} : CamEvent(job.ctrl, e)}}

EventDropped ==
  /\ job # Idle /\ evq[job.ctrl] # << >> /\ Head(evq[job.ctrl]).type # Want
  /\ Consume
  /\ UNCHANGED <<inited, slots, hid, armed, cam, job, todo, sends, phase, delivered, ops>>

Answer(ok) == \/ evq[job.ctrl] # << >> /\ Head(evq[job.ctrl]).type = Want
                 /\ ok = Head(evq[job.ctrl]).ok /\ Consume
              \/ evq[job.ctrl] = << >> /\ job.sent /\ ok = FALSE      \* 500 polls, no event
                 /\ UNCHANGED <<evq, stolen>>

Found == Plug[job.ctrl][job.port]

(* During the boot scan a second device of a type already bound is refused.       *)
Refused == job.op = "scan" /\ Found \in Hid /\ hid[Found].on

(* What the step decides.  A failed slot, address or descriptor ends this port,   *)
(* and so does a descriptor without the class looked for; other failures go on.   *)
Abandons(ok) ==
  \/ Step \in {"slot", "address", "cbw", "data", "csw"} /\ ~ok
  \/ Step = "desc" /\ job.op # "ctrl"
     /\ ~(ok /\ CASE job.op \in {"scan", "manual"} -> Found \in Hid /\ ~Refused
                  [] job.op = "probe" -> Found = "cam"
                  [] job.op = "msd" -> Found = "msd")
  \/ Step = "cfgep" /\ ~ok /\ job.op \in {"cam", "msd"}

NextPort ==
  IF job.op = "scan" THEN ScanFrom(job.ctrl, job.port + 1)
  ELSE IF job.op = "probe" /\ job.port + 1 \in DOMAIN Plug[job.ctrl]
  THEN Begin("probe", job.ctrl, job.port + 1)
  ELSE IF job.op = "probe" /\ job.ctrl = 0 /\ inited[1] THEN Begin("probe", 1, 1) ELSE Idle

(* The last step of a binding: two transfers armed, the device recorded with its  *)
(* controller and slot; the manual path overwrites one already bound.             *)
Bind(h) ==
  /\ hid' = [hid EXCEPT ![h] = [on |-> TRUE, ctrl |-> job.ctrl, slot |-> job.slot]]
  /\ armed' = [armed EXCEPT ![h] = 2]

rp1usb_step ==
  /\ job # Idle
  /\ \E ok \in BOOLEAN :
       /\ Answer(ok)
       /\ LET last == job.at = Len(Steps[job.op])
              slot == IF Step = "slot" THEN slots[job.ctrl] ELSE job.slot
              cfg == IF Step = "cfgep" THEN ok ELSE "cfg" \in DOMAIN job /\ job.cfg
          IN IF Abandons(ok) THEN job' = NextPort /\ UNCHANGED <<hid, armed, cam>>
             ELSE IF ~last
             THEN /\ job' = [op |-> job.op, ctrl |-> job.ctrl, port |-> job.port, at |-> job.at + 1,
                             slot |-> slot, sent |-> FALSE, cfg |-> cfg]
                  /\ UNCHANGED <<hid, armed, cam>>
             ELSE \/ /\ job.op \in {"scan", "manual"} /\ cfg
                     /\ job' = Idle /\ Bind(Found) /\ UNCHANGED cam
                  \/ /\ job.op = "scan" /\ ~cfg
                     /\ job' = NextPort /\ UNCHANGED <<hid, armed, cam>>
                  \/ /\ job.op = "cam"
                     /\ job' = Idle
                     /\ cam' = [NoCam EXCEPT !.on = TRUE, !.ctrl = job.ctrl, !.port = job.port]
                     /\ UNCHANGED <<hid, armed>>
                  \/ /\ job.op \in {"probe", "msd", "bulk", "ctrl"} \/ (job.op = "manual" /\ ~cfg)
                     /\ job' = Idle /\ UNCHANGED <<hid, armed, cam>>
  /\ UNCHANGED <<inited, slots, todo, sends, phase, delivered, ops>>

-----------------------------------------------------------------------------
(* rp1usb_mouse_pump: one event of a ring that hosts an active device.  It is     *)
(* routed by slot and endpoint; a device's transfer is armed again.               *)

Hosts(c) == (cam.on /\ cam.ctrl = c) \/ \E h \in Hid : hid[h].on /\ hid[h].ctrl = c

(* cam_handle_event: an error drops what was filled; a new frame id publishes     *)
(* what there is and starts again; the last packet of a frame publishes it.       *)
NewFrame(e) == e.frame % 2 # cam.fid
Publish(m) == IF m.fill = << >> THEN m ELSE [m EXCEPT !.ready = m.fill, !.fill = << >>]
cam_handle_event(e) ==
  IF ~e.ok THEN [cam EXCEPT !.fill = << >>]
  ELSE LET m1 == IF NewFrame(e) THEN [Publish(cam) EXCEPT !.fid = e.frame % 2, !.fill = << >>] ELSE cam
           m2 == [m1 EXCEPT !.fill = Append(@, <<e.frame, e.pkt>>)]
       IN IF e.pkt = PKTS THEN Publish(m2) ELSE m2

Rearm_mutant(h) == armed[h]
Rearm(h) == armed[h] + 1

rp1usb_mouse_pump(c) ==
  /\ job = Idle /\ todo = << >> /\ inited[c] /\ Hosts(c) /\ evq[c] # << >>
  /\ LET e == Head(evq[c])
     IN /\ evq' = [evq EXCEPT ![c] = Tail(@)]
        /\ cam' = IF CamEvent(c, e) THEN cam_handle_event(e) ELSE cam
        /\ armed' = [h \in Hid |-> IF Mine(h, c, e) THEN Rearm(h) ELSE armed[h]]
        /\ delivered' = (delivered \/ Mine("mouse", c, e))
  /\ UNCHANGED <<inited, slots, hid, job, todo, sends, phase, stolen, ops>>

Next ==
  \/ UsbPhase \/ Scan \/ Complete \/ EventDropped \/ rp1usb_step \/ rp1usb_cam_stop \/ Packet
  \/ \E h \in Hid : Report(h)
  \/ \E c \in Ctrl : rp1usb_mouse_pump(c)
  \/ \E c \in Ctrl, op \in DOMAIN Steps \ {"scan"} : \E p \in DOMAIN Plug[c] : UsbRequest(op, c, p)

Spec == Init /\ [][Next]_vars

-----------------------------------------------------------------------------
(* Both transfers of a bound mouse or keyboard stay in circulation, held by the   *)
(* controller or as an event still in the ring, so its reports never dry up: the  *)
(* pump re-arms each one it delivers, and the boot scan and the re-binding of     *)
(* what does not work never consume an event of a device that is bound.  Only the *)
(* waits of a /usb or /cam request on the same controller do.                     *)
InRing(h) ==
  {i \in DOMAIN evq[hid[h].ctrl] : Mine(h, hid[h].ctrl, evq[hid[h].ctrl][i])}

InputAlive ==
  \A h \in Hid : hid[h].on /\ (\A op \in DOMAIN Steps \ {"scan"} : <<h, op>> \notin stolen) =>
    \/ armed[h] = 2 /\ InRing(h) = {}
    \/ armed[h] = 1 /\ \E i \in InRing(h) : InRing(h) = {i}
    \/ armed[h] = 0 /\ \E i, j \in InRing(h) : i # j /\ InRing(h) = {i, j}

(* A published camera frame is made of packets of one frame, in order: the id bit *)
(* and the last-packet bit keep two frames apart although packets are lost, as    *)
(* long as no wait on the camera's ring swallows a run of them.                   *)
FrameOneExposure ==
  (\A op \in DOMAIN Steps : <<"cam", op>> \notin stolen) =>
    \A i, j \in DOMAIN cam.ready : i < j => cam.ready[i][1] = cam.ready[j][1] /\ cam.ready[i][2] < cam.ready[j][2]
=============================================================================
