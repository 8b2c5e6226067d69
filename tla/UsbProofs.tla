----------------------------- MODULE UsbProofs -----------------------------
(***************************************************************************)
(* Theorems about the USB scenes of MCDevices, for every value of the      *)
(* constants.  UsbTypes: what circulates between the controllers and the   *)
(* driver.  InputInv: both transfers of a bound mouse or keyboard are in   *)
(* circulation.  CamInv: how the packets in the ring, the lost ones and    *)
(* the frame being filled continue one another.                            *)
(***************************************************************************)
EXTENDS MCDevices, FiniteSets, FiniteSetTheorems, SequenceTheorems,
        WellFoundedInduction, TLAPS

-----------------------------------------------------------------------------
(* The USB host (Usb): what circulates between the controllers and the driver. *)

Hids == {"mouse", "kbd"}
UsbOps == {"scan", "manual", "probe", "cam", "msd", "bulk", "ctrl"}

\* An event: of a command or transfer of the driver, of a mouse or keyboard, or a
\* packet of the camera.
UsbEvent ==
    [type : {32, 33}, of : {"job", "mouse", "kbd"}, ok : BOOLEAN, slot : Nat]
    \cup [type : {32}, of : {"cam"}, ok : BOOLEAN, slot : {0}, frame : Nat, pkt : 1 .. PKTS]

\* What the driver knows of a bound mouse or keyboard.
HidRec == [on : BOOLEAN, ctrl : {0, 1}, slot : Nat]

UsbJobOK(plug, j) ==
    /\ DOMAIN j \in {{"op", "ctrl", "port", "at", "slot", "sent"},
                     {"op", "ctrl", "port", "at", "slot", "sent", "cfg"}}
    /\ j.op \in UsbOps /\ j.ctrl \in {0, 1} /\ j.slot \in Nat /\ j.sent \in BOOLEAN
    /\ j.at \in 1 .. Len(Bus(plug)!Steps[j.op])

CamOK(m) ==
    /\ DOMAIN m = {"on", "ctrl", "port", "fid", "fill", "ready"}
    /\ m.on \in BOOLEAN /\ m.ctrl \in {0, 1} /\ m.fid \in Int
    /\ m.fill \in Seq(Nat \X (1 .. PKTS)) /\ m.ready \in Seq(Nat \X (1 .. PKTS))

UsbTypes(plug) ==
    /\ inited \in [{0, 1} -> BOOLEAN] /\ slots \in [{0, 1} -> Nat]
    /\ hid \in [Hids -> HidRec]
    /\ armed \in [Hids -> Int]
    /\ evq \in [{0, 1} -> Seq(UsbEvent)]
    /\ usbtodo \in {<<>>, <<0>>, <<1>>, <<1, 0>>}
    /\ usbjob = Bus(plug)!Idle \/ UsbJobOK(plug, usbjob)
    /\ sends \in [frame : Nat, pkt : 1 .. PKTS, lost : 0 .. LOSS]
    /\ CamOK(cam)

\* The numbers of the bus.
LEMMA BusIs ==
    ASSUME NEW plug, Bus(plug)!ConstantsOK
    PROVE  /\ PKTS \in Nat \ {0} /\ LOSS \in Nat /\ LOSS <= PKTS
           /\ Bus(plug)!Ctrl = {0, 1} /\ Bus(plug)!Hid = Hids
           /\ DOMAIN Bus(plug)!Steps = UsbOps
BY DEF Bus!ConstantsOK, Bus!Ctrl, Bus!Hid, Hids, UsbOps, Bus!Steps

\* The length of each operation.
LEMMA StepsAre ==
    ASSUME NEW plug
    PROVE  /\ \A x \in UsbOps : Len(Bus(plug)!Steps[x]) \in Nat \ {0}
           /\ \A x \in {"scan", "manual"} :
                 LET t == Bus(plug)!Steps[x]
                 IN  /\ Len(t) = 7 /\ t[1] = "slot" /\ t[2] = "address" /\ t[3] = "desc" /\ t[4] = "setcfg"
                     /\ t[5] = "cfgep" /\ t[6] = "idle" /\ t[7] = "proto"
BY DEF UsbOps, Bus!Steps

\* The driver at boot.
LEMMA UsbTypesInit ==
    ASSUME NEW plug, Bus(plug)!ConstantsOK, Bus(plug)!Init
    PROVE  UsbTypes(plug)
<1>1. << >> \in Seq(UsbEvent) /\ << >> \in Seq(Nat \X (1 .. PKTS))
    OBVIOUS
<1>2. inited \in [{0, 1} -> BOOLEAN] /\ slots \in [{0, 1} -> Nat] /\ evq \in [{0, 1} -> Seq(UsbEvent)]
    BY <1>1 DEF Bus!Init, Bus!Ctrl
<1>3. hid \in [Hids -> HidRec] /\ armed \in [Hids -> Int]
    BY DEF Bus!Init, Bus!Off, Bus!Hid, Hids, HidRec
<1>4. CamOK(cam)
    BY <1>1 DEF Bus!Init, Bus!NoCam, CamOK
<1>5. sends \in [frame : Nat, pkt : 1 .. PKTS, lost : 0 .. LOSS]
    BY BusIs DEF Bus!Init
<1> QED  BY <1>2, <1>3, <1>4, <1>5 DEF UsbTypes, Bus!Init

\* The first event of a ring and the rest of it.
LEMMA RingTail ==
    ASSUME NEW q \in Seq(UsbEvent), q # << >>
    PROVE  /\ Tail(q) \in Seq(UsbEvent) /\ Head(q) \in UsbEvent /\ Head(q) = q[1]
           /\ Len(q) \in Nat \ {0} /\ Len(Tail(q)) = Len(q) - 1
           /\ \A i \in 1 .. Len(q) - 1 : Tail(q)[i] = q[i + 1]
           /\ DOMAIN q = 1 .. Len(q) /\ DOMAIN Tail(q) = 1 .. Len(q) - 1
<1>1. /\ Tail(q) \in Seq(UsbEvent) /\ Len(Tail(q)) = Len(q) - 1 /\ \A i \in 1 .. Len(Tail(q)) : Tail(q)[i] = q[i + 1]
      /\ Len(q) \in Nat \ {0} /\ Head(q) = q[1] /\ Head(q) \in UsbEvent
    BY HeadTailProperties, EmptySeq
<1> QED  BY <1>1

\* A ring with one event more.
LEMMA RingAppend ==
    ASSUME NEW q \in Seq(UsbEvent), NEW e \in UsbEvent
    PROVE  /\ Append(q, e) \in Seq(UsbEvent) /\ Len(q) \in Nat /\ DOMAIN q = 1 .. Len(q)
           /\ DOMAIN Append(q, e) = 1 .. Len(q) + 1 /\ Append(q, e)[Len(q) + 1] = e
           /\ \A i \in 1 .. Len(q) : Append(q, e)[i] = q[i]
<1>1. /\ Append(q, e) \in Seq(UsbEvent) /\ Len(Append(q, e)) = Len(q) + 1 /\ Append(q, e)[Len(q) + 1] = e
      /\ \A i \in 1 .. Len(q) : Append(q, e)[i] = q[i]
    BY AppendProperties
<1> QED  BY <1>1

\* A pushed event.
LEMMA PushTypes ==
    ASSUME NEW plug, evq \in [{0, 1} -> Seq(UsbEvent)], NEW c \in {0, 1}, NEW e \in UsbEvent, Bus(plug)!Push(c, e)
    PROVE  /\ evq' \in [{0, 1} -> Seq(UsbEvent)] /\ evq'[c] = Append(evq[c], e)
           /\ \A x \in {0, 1} : x # c => evq'[x] = evq[x]
<1>1. evq' = [evq EXCEPT ![c] = Append(evq[c], e)]
    BY DEF Bus!Push
<1>2. Append(evq[c], e) \in Seq(UsbEvent)
    BY RingAppend
<1> QED  BY <1>1, <1>2

\* A consumed event.
LEMMA PopTypes ==
    ASSUME evq \in [{0, 1} -> Seq(UsbEvent)], NEW c \in {0, 1}, evq[c] # << >>, evq' = [evq EXCEPT ![c] = Tail(evq[c])]
    PROVE  /\ evq' \in [{0, 1} -> Seq(UsbEvent)] /\ evq'[c] = Tail(evq[c])
           /\ \A x \in {0, 1} : x # c => evq'[x] = evq[x]
<1>1. Tail(evq[c]) \in Seq(UsbEvent)
    BY RingTail
<1> QED  BY <1>1

\* An operation that starts.
LEMMA BeginIs ==
    ASSUME NEW plug, NEW x \in UsbOps, NEW c \in {0, 1}, NEW p
    PROVE  LET j == Bus(plug)!Begin(x, c, p)
           IN  UsbJobOK(plug, j) /\ j.op = x /\ j.ctrl = c /\ j.at = 1 /\ ~j.sent /\ j.port = p
<1>1. PICK j : j = Bus(plug)!Begin(x, c, p)
    OBVIOUS
<1>2. /\ DOMAIN j = {"op", "ctrl", "port", "at", "slot", "sent"} /\ j.op = x /\ j.ctrl = c /\ j.at = 1 /\ j.sent = FALSE
      /\ j.slot = 0 /\ j.port = p
    BY <1>1 DEF Bus!Begin
<1>4. PICK k \in Nat \ {0} : k = Len(Bus(plug)!Steps[x])
    BY StepsAre
<1>3. 1 \in 1 .. k /\ 0 \in Nat
    OBVIOUS
<1>5. j.at \in 1 .. k /\ j.slot \in Nat /\ j.sent \in BOOLEAN
    BY <1>2, <1>3, Zenon
<1>6. j.at \in 1 .. Len(Bus(plug)!Steps[j.op])
    BY <1>2, <1>4, <1>5
<1>7. UsbJobOK(plug, j)
    BY <1>2, <1>5, <1>6 DEF UsbJobOK
<1> QED  BY <1>1, <1>2, <1>7

\* The next port of a scan, and of any operation.
LEMMA ScanIs ==
    ASSUME NEW plug, NEW c \in {0, 1}, NEW p
    PROVE  LET j == Bus(plug)!ScanFrom(c, p)
           IN  j = Bus(plug)!Idle \/ (UsbJobOK(plug, j) /\ j.op = "scan" /\ j.ctrl = c /\ j.at = 1 /\ ~j.sent)
<1>1. Bus(plug)!ScanFrom(c, p) = Bus(plug)!Idle \/ \E r : Bus(plug)!ScanFrom(c, p) = Bus(plug)!Begin("scan", c, r)
    BY Zenon DEF Bus!ScanFrom
<1>2. ASSUME NEW r, Bus(plug)!ScanFrom(c, p) = Bus(plug)!Begin("scan", c, r)
      PROVE  LET j == Bus(plug)!ScanFrom(c, p)
             IN  UsbJobOK(plug, j) /\ j.op = "scan" /\ j.ctrl = c /\ j.at = 1 /\ ~j.sent
  <2>1. "scan" \in UsbOps
      BY DEF UsbOps
  <2> QED  BY <1>2, <2>1, BeginIs
<1> QED  BY <1>1, <1>2

LEMMA NextPortIs ==
    ASSUME NEW plug, UsbJobOK(plug, usbjob)
    PROVE  LET j == Bus(plug)!NextPort
           IN  \/ j = Bus(plug)!Idle
               \/ /\ UsbJobOK(plug, j) /\ j.at = 1 /\ ~j.sent
                  /\ \/ j.op = "scan" /\ usbjob.op = "scan" /\ j.ctrl = usbjob.ctrl
                     \/ j.op = "probe" /\ usbjob.op = "probe"
<1>1. usbjob.ctrl \in {0, 1}
    BY DEF UsbJobOK
<1>2. PICK y : y = usbjob.port + 1
    OBVIOUS
<1>3. \/ usbjob.op = "scan" /\ Bus(plug)!NextPort = Bus(plug)!ScanFrom(usbjob.ctrl, y)
      \/ usbjob.op = "probe" /\ Bus(plug)!NextPort = Bus(plug)!Begin("probe", usbjob.ctrl, y)
      \/ usbjob.op = "probe" /\ Bus(plug)!NextPort = Bus(plug)!Begin("probe", 1, 1)
      \/ Bus(plug)!NextPort = Bus(plug)!Idle
    BY <1>2 DEF Bus!NextPort
<1>4. CASE usbjob.op = "scan" /\ Bus(plug)!NextPort = Bus(plug)!ScanFrom(usbjob.ctrl, y)
    BY <1>1, <1>4, ScanIs
<1>5. CASE usbjob.op = "probe" /\ Bus(plug)!NextPort = Bus(plug)!Begin("probe", usbjob.ctrl, y)
    BY <1>1, <1>5, BeginIs DEF UsbOps
<1>6. CASE usbjob.op = "probe" /\ Bus(plug)!NextPort = Bus(plug)!Begin("probe", 1, 1)
    BY <1>6, BeginIs DEF UsbOps
<1> QED  BY <1>3, <1>4, <1>5, <1>6

\* A job is not idle.
LEMMA JobIs ==
    ASSUME NEW plug, UsbTypes(plug), usbjob # Bus(plug)!Idle
    PROVE  /\ UsbJobOK(plug, usbjob) /\ usbjob.ctrl \in {0, 1} /\ usbjob.op \in UsbOps
           /\ evq[usbjob.ctrl] \in Seq(UsbEvent)
BY DEF UsbTypes, UsbJobOK

\* A wait that takes the first event of its ring.
LEMMA ConsumeIs ==
    ASSUME NEW plug, Bus(plug)!ConstantsOK, UsbTypes(plug), usbjob # Bus(plug)!Idle,
           evq[usbjob.ctrl] # << >>, Bus(plug)!Consume
    PROVE  LET c == usbjob.ctrl
               e == Head(evq[c])
           IN  /\ evq' \in [{0, 1} -> Seq(UsbEvent)] /\ evq'[c] = Tail(evq[c])
               /\ \A x \in {0, 1} : x # c => evq'[x] = evq[x]
               /\ stolen \subseteq stolen'
               /\ \A h \in Hids : Bus(plug)!Mine(h, c, e) => <<h, usbjob.op>> \in stolen'
               /\ Bus(plug)!CamEvent(c, e) => <<"cam", usbjob.op>> \in stolen'
<1>1. usbjob.ctrl \in {0, 1} /\ evq \in [{0, 1} -> Seq(UsbEvent)]
    BY Zenon, JobIs DEF UsbTypes
<1>2. evq' = [evq EXCEPT ![usbjob.ctrl] = Tail(evq[usbjob.ctrl])]
    BY DEF Bus!Consume
<1>3. PICK e : e = Head(evq[usbjob.ctrl])
    OBVIOUS
<1>4. stolen' = stolen \cup {<<k, usbjob.op>> : k \in {h \in Hids : Bus(plug)!Mine(h, usbjob.ctrl, e)}
                                    \cup {k \in {"cam"} : Bus(plug)!CamEvent(usbjob.ctrl, e)}}
    BY <1>3, BusIs DEF Bus!Consume
<1>5. /\ stolen \subseteq stolen'
      /\ \A h \in Hids : Bus(plug)!Mine(h, usbjob.ctrl, e) => <<h, usbjob.op>> \in stolen'
      /\ Bus(plug)!CamEvent(usbjob.ctrl, e) => <<"cam", usbjob.op>> \in stolen'
    BY <1>4
<1> QED  BY <1>1, <1>2, <1>3, <1>5, PopTypes

\* The job after a step that is not its last.
Advanced(plug, ok) ==
    [op |-> usbjob.op, ctrl |-> usbjob.ctrl, port |-> usbjob.port, at |-> usbjob.at + 1,
     slot |-> IF Bus(plug)!Step = "slot" THEN slots[usbjob.ctrl] ELSE usbjob.slot, sent |-> FALSE,
     cfg |-> IF Bus(plug)!Step = "cfgep" THEN ok ELSE "cfg" \in DOMAIN usbjob /\ usbjob.cfg]

\* What one step of the driver comes to.
StepCase(plug, ok) ==
    \/ usbjob' = Bus(plug)!NextPort /\ UNCHANGED <<hid, armed, cam>>
    \/ /\ ~Bus(plug)!Abandons(ok) /\ usbjob.at # Len(Bus(plug)!Steps[usbjob.op])
       /\ usbjob' = Advanced(plug, ok) /\ UNCHANGED <<hid, armed, cam>>
    \/ /\ usbjob.op \in {"scan", "manual"} /\ usbjob.at = Len(Bus(plug)!Steps[usbjob.op])
       /\ usbjob' = Bus(plug)!Idle /\ Bus(plug)!Bind(Bus(plug)!Found) /\ UNCHANGED cam
    \/ /\ usbjob.op = "cam" /\ usbjob' = Bus(plug)!Idle /\ UNCHANGED <<hid, armed>>
       /\ cam' = [Bus(plug)!NoCam EXCEPT !.on = TRUE, !.ctrl = usbjob.ctrl, !.port = usbjob.port]
    \/ usbjob' = Bus(plug)!Idle /\ UNCHANGED <<hid, armed, cam>>

LEMMA StepIs ==
    ASSUME NEW plug, Bus(plug)!rp1usb_step
    PROVE  /\ usbjob # Bus(plug)!Idle
           /\ UNCHANGED <<inited, slots, usbtodo, sends, phase, delivered, ops>>
           /\ \E ok \in BOOLEAN : Bus(plug)!Answer(ok) /\ StepCase(plug, ok)
<1>1. usbjob # Bus(plug)!Idle /\ UNCHANGED <<inited, slots, usbtodo, sends, phase, delivered, ops>>
    BY DEF Bus!rp1usb_step
<1>2. PICK ok \in BOOLEAN :
        /\ Bus(plug)!Answer(ok)
        /\ LET last == usbjob.at = Len(Bus(plug)!Steps[usbjob.op])
               slot == IF Bus(plug)!Step = "slot" THEN slots[usbjob.ctrl] ELSE usbjob.slot
               cfg == IF Bus(plug)!Step = "cfgep" THEN ok ELSE "cfg" \in DOMAIN usbjob /\ usbjob.cfg
           IN IF Bus(plug)!Abandons(ok) THEN usbjob' = Bus(plug)!NextPort /\ UNCHANGED <<hid, armed, cam>>
             ELSE IF ~last
             THEN /\ usbjob' = [op |-> usbjob.op, ctrl |-> usbjob.ctrl, port |-> usbjob.port, at |-> usbjob.at + 1,
                             slot |-> slot, sent |-> FALSE, cfg |-> cfg]
                  /\ UNCHANGED <<hid, armed, cam>>
             ELSE \/ /\ usbjob.op \in {"scan", "manual"} /\ cfg
                     /\ usbjob' = Bus(plug)!Idle /\ Bus(plug)!Bind(Bus(plug)!Found) /\ UNCHANGED cam
                  \/ /\ usbjob.op = "scan" /\ ~cfg
                     /\ usbjob' = Bus(plug)!NextPort /\ UNCHANGED <<hid, armed, cam>>
                  \/ /\ usbjob.op = "cam"
                     /\ usbjob' = Bus(plug)!Idle
                     /\ cam' = [Bus(plug)!NoCam EXCEPT !.on = TRUE, !.ctrl = usbjob.ctrl, !.port = usbjob.port]
                     /\ UNCHANGED <<hid, armed>>
                  \/ /\ usbjob.op \in {"probe", "msd", "bulk", "ctrl"} \/ (usbjob.op = "manual" /\ ~cfg)
                     /\ usbjob' = Bus(plug)!Idle /\ UNCHANGED <<hid, armed, cam>>
    BY DEF Bus!rp1usb_step
<1> QED  BY <1>1, <1>2 DEF StepCase, Advanced

\* The types are kept by an answer to a wait and by what the step then decides.
LEMMA AnswerIs ==
    ASSUME NEW plug, Bus(plug)!ConstantsOK, UsbTypes(plug), usbjob # Bus(plug)!Idle,
           NEW ok \in BOOLEAN, Bus(plug)!Answer(ok)
    PROVE  \/ /\ evq[usbjob.ctrl] # << >> /\ Bus(plug)!Consume
              /\ Head(evq[usbjob.ctrl]).type = Bus(plug)!Want /\ ok = Head(evq[usbjob.ctrl]).ok
           \/ evq[usbjob.ctrl] = << >> /\ ok = FALSE /\ evq' = evq /\ stolen' = stolen
BY DEF Bus!Answer

\* A function with one value replaced, at a point of its domain or not.
LEMMA ExceptIs ==
    ASSUME NEW S, NEW T, NEW f \in [S -> T], NEW g, NEW v \in T
    PROVE  /\ [f EXCEPT ![g] = v] \in [S -> T]
           /\ \A x \in S : [f EXCEPT ![g] = v][x] = IF x = g THEN v ELSE f[x]
BY Zenon

LEMMA BindIs ==
    ASSUME NEW plug, Bus(plug)!ConstantsOK, UsbTypes(plug), UsbJobOK(plug, usbjob), Bus(plug)!Bind(Bus(plug)!Found)
    PROVE  /\ hid' \in [Hids -> HidRec] /\ armed' \in [Hids -> Int]
           /\ \A h \in Hids : IF h = Bus(plug)!Found
                              THEN hid'[h] = [on |-> TRUE, ctrl |-> usbjob.ctrl, slot |-> usbjob.slot] /\ armed'[h] = 2
                              ELSE hid'[h] = hid[h] /\ armed'[h] = armed[h]
<1>1. PICK r : r = [on |-> TRUE, ctrl |-> usbjob.ctrl, slot |-> usbjob.slot]
    BY Zenon
<1>2. r \in HidRec
    BY <1>1 DEF UsbJobOK, HidRec
<1>3. hid' = [hid EXCEPT ![Bus(plug)!Found] = r] /\ armed' = [armed EXCEPT ![Bus(plug)!Found] = 2]
    BY <1>1 DEF Bus!Bind
<1>4. hid \in [Hids -> HidRec] /\ armed \in [Hids -> Int]
    BY DEF UsbTypes
<1>5. PICK g : g = Bus(plug)!Found
    OBVIOUS
<1>6. hid' = [hid EXCEPT ![g] = r] /\ armed' = [armed EXCEPT ![g] = 2]
    BY <1>3, <1>5
<1>7. /\ hid' \in [Hids -> HidRec] /\ armed' \in [Hids -> Int]
  <2>1. hid' \in [Hids -> HidRec]
      BY Zenon, <1>2, <1>4, <1>6
  <2>2. armed' \in [Hids -> Int]
    <3>1. 2 \in Int
        OBVIOUS
    <3> QED  BY <1>4, <1>6, <3>1, ExceptIs, Zenon
  <2> QED  BY <2>1, <2>2
<1>8. ASSUME NEW h \in Hids  PROVE IF h = g THEN hid'[h] = r /\ armed'[h] = 2 ELSE hid'[h] = hid[h] /\ armed'[h] = armed[h]
    BY <1>4, <1>6, <1>8
<1> QED  BY <1>1, <1>5, <1>7, <1>8

LEMMA AdvancedIs ==
    ASSUME NEW plug, UsbTypes(plug), UsbJobOK(plug, usbjob), NEW ok \in BOOLEAN,
           usbjob.at # Len(Bus(plug)!Steps[usbjob.op])
    PROVE  LET j == Advanced(plug, ok)
           IN  /\ UsbJobOK(plug, j) /\ j.op = usbjob.op /\ j.ctrl = usbjob.ctrl /\ j.port = usbjob.port
               /\ j.at = usbjob.at + 1 /\ j.sent = FALSE
               /\ j.slot = IF Bus(plug)!Step = "slot" THEN slots[usbjob.ctrl] ELSE usbjob.slot
<1>1. PICK j : j = Advanced(plug, ok)
    OBVIOUS
<1>2. /\ DOMAIN j = {"op", "ctrl", "port", "at", "slot", "sent", "cfg"} /\ j.op = usbjob.op /\ j.ctrl = usbjob.ctrl
      /\ j.port = usbjob.port /\ j.at = usbjob.at + 1 /\ j.sent = FALSE
      /\ j.slot = IF Bus(plug)!Step = "slot" THEN slots[usbjob.ctrl] ELSE usbjob.slot
    BY <1>1 DEF Advanced
<1>3. /\ usbjob.op \in UsbOps /\ usbjob.at \in 1 .. Len(Bus(plug)!Steps[usbjob.op]) /\ usbjob.ctrl \in {0, 1}
      /\ usbjob.slot \in Nat /\ slots[usbjob.ctrl] \in Nat
    BY DEF UsbJobOK, UsbTypes
<1>4. PICK k \in Nat \ {0} : k = Len(Bus(plug)!Steps[usbjob.op])
    BY <1>3, StepsAre
<1>5. j.at \in 1 .. k
    BY <1>2, <1>3, <1>4
<1>6. j.slot \in Nat /\ j.sent \in BOOLEAN
    BY Zenon, <1>2, <1>3
<1>7. j.at \in 1 .. Len(Bus(plug)!Steps[j.op])
    BY <1>2, <1>4, <1>5
<1>8. UsbJobOK(plug, j)
    BY <1>2, <1>3, <1>6, <1>7 DEF UsbJobOK
<1> QED  BY <1>1, <1>2, <1>8

LEMMA TypesStep ==
    ASSUME NEW plug, Bus(plug)!ConstantsOK, UsbTypes(plug), Bus(plug)!rp1usb_step
    PROVE  UsbTypes(plug)'
<1>1. /\ usbjob # Bus(plug)!Idle
      /\ UNCHANGED <<inited, slots, usbtodo, sends, phase, delivered, ops>>
    BY StepIs
<1>2. PICK ok \in BOOLEAN : Bus(plug)!Answer(ok) /\ StepCase(plug, ok)
    BY StepIs
<1>3. UsbJobOK(plug, usbjob) /\ usbjob.ctrl \in {0, 1}
    BY <1>1, JobIs
<1>4. evq' \in [{0, 1} -> Seq(UsbEvent)]
    BY Zenon, <1>1, <1>2, AnswerIs, ConsumeIs DEF UsbTypes
<1>5. /\ hid \in [Hids -> HidRec] /\ armed \in [Hids -> Int] /\ CamOK(cam)
    BY DEF UsbTypes
<1>6. /\ hid' \in [Hids -> HidRec] /\ armed' \in [Hids -> Int] /\ CamOK(cam)'
      /\ usbjob' = Bus(plug)!Idle \/ UsbJobOK(plug, usbjob')
  <2>1. CASE usbjob' = Bus(plug)!NextPort /\ UNCHANGED <<hid, armed, cam>>
      BY <1>3, <1>5, <2>1, NextPortIs
  <2>2. CASE /\ ~Bus(plug)!Abandons(ok) /\ usbjob.at # Len(Bus(plug)!Steps[usbjob.op])
             /\ usbjob' = Advanced(plug, ok) /\ UNCHANGED <<hid, armed, cam>>
    <3>1. UsbJobOK(plug, usbjob')
        BY Zenon, <1>3, <2>2, AdvancedIs
    <3> QED  BY <1>5, <2>2, <3>1
  <2>3. CASE /\ usbjob' = Bus(plug)!Idle /\ Bus(plug)!Bind(Bus(plug)!Found) /\ UNCHANGED cam
      BY <1>3, <1>5, <2>3, BindIs
  <2>4. CASE /\ usbjob' = Bus(plug)!Idle /\ UNCHANGED <<hid, armed>>
             /\ cam' = [Bus(plug)!NoCam EXCEPT !.on = TRUE, !.ctrl = usbjob.ctrl, !.port = usbjob.port]
    <3>1. CamOK(cam')
        BY <1>3, <2>4 DEF CamOK, Bus!NoCam
    <3> QED  BY <1>5, <2>4, <3>1
  <2>5. CASE usbjob' = Bus(plug)!Idle /\ UNCHANGED <<hid, armed, cam>>
      BY <1>5, <2>5
  <2> QED  BY <1>2, <2>1, <2>2, <2>3, <2>4, <2>5 DEF StepCase
<1> QED  BY Zenon, <1>1, <1>4, <1>6 DEF UsbTypes, Bus!Idle, UsbJobOK, Bus!Steps

\* What the camera's event does to the frame being filled and the published one.
LEMMA CamIs ==
    ASSUME NEW plug, Bus(plug)!ConstantsOK, CamOK(cam), NEW e \in UsbEvent, e.of = "cam"
    PROVE  LET m == Bus(plug)!cam_handle_event(e)
               id == <<e.frame, e.pkt>>
           IN  /\ CamOK(m) /\ m.on = cam.on /\ m.ctrl = cam.ctrl /\ m.port = cam.port
               /\ ~e.ok => m.fill = << >> /\ m.ready = cam.ready /\ m.fid = cam.fid
               /\ e.ok => m.fid = e.frame % 2
               /\ \E f \in {<< >>, cam.fill}, r \in {cam.fill, cam.ready} :
                     /\ e.ok => /\ f # << >> => cam.fid = e.frame % 2
                                /\ r = cam.fill /\ r # cam.ready => r # << >>
                                /\ IF e.pkt = PKTS THEN m.ready = Append(f, id) /\ m.fill = << >>
                                                   ELSE m.ready = r /\ m.fill = Append(f, id)
<1> DEFINE id == <<e.frame, e.pkt>>
           S == Seq(Nat \X (1 .. PKTS))
<1>1. e.frame \in Nat /\ e.pkt \in 1 .. PKTS /\ e.ok \in BOOLEAN
    BY DEF UsbEvent
<1>2. id \in Nat \X (1 .. PKTS)
    BY <1>1
<1>3. /\ DOMAIN cam = {"on", "ctrl", "port", "fid", "fill", "ready"} /\ cam.fid \in Int /\ cam.on \in BOOLEAN
      /\ cam.ctrl \in {0, 1} /\ cam.fill \in S /\ cam.ready \in S /\ << >> \in S
    BY DEF CamOK
<1>4. \A q \in S : Append(q, id) \in S
    BY <1>2, AppendProperties
<1> HIDE DEF id, S
<1>5. CASE ~e.ok
  <2>1. PICK m : m = [cam EXCEPT !.fill = << >>]
      BY Zenon
  <2>2. m = Bus(plug)!cam_handle_event(e)
      BY <1>5, <2>1 DEF Bus!cam_handle_event
  <2>3. /\ DOMAIN m = DOMAIN cam /\ m.fill = << >> /\ m.ready = cam.ready /\ m.fid = cam.fid
        /\ m.on = cam.on /\ m.ctrl = cam.ctrl /\ m.port = cam.port
      BY <1>3, <2>1
  <2>4. CamOK(m)
      BY <1>3, <2>3 DEF CamOK, S
  <2> QED  BY <1>5, <2>2, <2>3, <2>4
<1>6. CASE e.ok
  <2>1. PICK m1 : m1 = IF Bus(plug)!NewFrame(e) THEN [Bus(plug)!Publish(cam) EXCEPT !.fid = e.frame % 2, !.fill = << >>] ELSE cam
      OBVIOUS
  <2>2. PICK m2 : m2 = [m1 EXCEPT !.fill = Append(m1.fill, id)]
      BY Zenon
  <2>3. Bus(plug)!cam_handle_event(e) = IF e.pkt = PKTS THEN Bus(plug)!Publish(m2) ELSE m2
      BY <1>6, <2>1, <2>2 DEF Bus!cam_handle_event, id
  <2>4. /\ DOMAIN m1 = DOMAIN cam /\ m1.fid = e.frame % 2 /\ m1.on = cam.on /\ m1.ctrl = cam.ctrl /\ m1.port = cam.port
        /\ m1.fill \in {<< >>, cam.fill} /\ m1.ready \in {cam.fill, cam.ready}
        /\ m1.fill # << >> => cam.fid = e.frame % 2
        /\ m1.ready = cam.fill /\ m1.ready # cam.ready => m1.ready # << >>
    <3>1. CASE Bus(plug)!NewFrame(e)
      <4>1. PICK m0 : m0 = Bus(plug)!Publish(cam)
          OBVIOUS
      <4>2. /\ DOMAIN m0 = DOMAIN cam /\ m0.on = cam.on /\ m0.ctrl = cam.ctrl /\ m0.port = cam.port
            /\ m0.ready = IF cam.fill = << >> THEN cam.ready ELSE cam.fill
          BY <1>3, <4>1 DEF Bus!Publish
      <4>3. PICK k : k = e.frame % 2
          OBVIOUS
      <4>4. m1 = [m0 EXCEPT !.fid = k, !.fill = << >>]
          BY <2>1, <3>1, <4>1, <4>3
      <4>5. /\ DOMAIN m1 = DOMAIN cam /\ m1.fid = k /\ m1.on = cam.on /\ m1.ctrl = cam.ctrl /\ m1.port = cam.port
            /\ m1.fill = << >> /\ m1.ready = IF cam.fill = << >> THEN cam.ready ELSE cam.fill
          BY <1>3, <4>2, <4>4
      <4> QED  BY <4>3, <4>5
    <3>2. CASE ~Bus(plug)!NewFrame(e)
        BY <2>1, <3>2 DEF Bus!NewFrame
    <3> QED  BY <3>1, <3>2
  <2>5. /\ DOMAIN m2 = DOMAIN cam /\ m2.fid = e.frame % 2 /\ m2.on = cam.on /\ m2.ctrl = cam.ctrl /\ m2.port = cam.port
        /\ m2.fill = Append(m1.fill, id) /\ m2.ready = m1.ready
      BY <1>3, <2>2, <2>4
  <2>6. m2.fill # << >> /\ m2.fill \in S /\ m2.ready \in S
    <3>1. m1.fill \in S /\ m1.ready \in S
        BY <1>3, <2>4
    <3>2. m1.fill \in Seq(Nat \X (1 .. PKTS)) /\ id \in Nat \X (1 .. PKTS)
        BY <1>2, <3>1 DEF S
    <3>3. Append(m1.fill, id) # << >>
      <4>1. PICK q \in Seq(Nat \X (1 .. PKTS)) : q = m1.fill
          BY <3>2
      <4>2. Len(Append(q, id)) = Len(q) + 1 /\ Len(q) \in Nat
          BY <3>2, <4>1, AppendProperties
      <4>3. Append(q, id) # << >>
          BY <4>2
      <4> QED  BY <4>1, <4>3
    <3> QED  BY <1>4, <2>5, <3>1, <3>3
  <2>7. PICK m : m = Bus(plug)!cam_handle_event(e)
      OBVIOUS
  <2>8. /\ DOMAIN m = DOMAIN cam /\ m.fid = e.frame % 2 /\ m.on = cam.on /\ m.ctrl = cam.ctrl /\ m.port = cam.port
        /\ IF e.pkt = PKTS THEN m.ready = m2.fill /\ m.fill = << >> ELSE m.ready = m2.ready /\ m.fill = m2.fill
    <3>1. CASE e.pkt = PKTS
      <4>1. m = [m2 EXCEPT !.ready = m2.fill, !.fill = << >>]
          BY <2>3, <2>6, <2>7, <3>1 DEF Bus!Publish
      <4> QED  BY <1>3, <2>5, <3>1, <4>1
    <3>2. CASE e.pkt # PKTS
        BY <2>3, <2>5, <2>7, <3>2
    <3> QED  BY <3>1, <3>2
  <2>9. CamOK(m)
    <3>1. m.fill \in S /\ m.ready \in S
        BY <1>3, <2>6, <2>8
    <3>2. m.fid \in Int
        BY <1>1, <2>8
    <3> QED  BY <1>3, <2>8, <3>1, <3>2 DEF CamOK, S
  <2> QED
    <3>1. m1.fill \in {<< >>, cam.fill} /\ m1.ready \in {cam.fill, cam.ready}
        BY <2>4
    <3>2. /\ m1.fill # << >> => cam.fid = e.frame % 2
          /\ m1.ready = cam.fill /\ m1.ready # cam.ready => m1.ready # << >>
          /\ IF e.pkt = PKTS THEN m.ready = Append(m1.fill, id) /\ m.fill = << >>
                             ELSE m.ready = m1.ready /\ m.fill = Append(m1.fill, id)
        BY <2>4, <2>5, <2>8
    <3>3. m.fid = e.frame % 2 /\ m.on = cam.on /\ m.ctrl = cam.ctrl /\ m.port = cam.port
        BY <2>8
    <3> QED  BY Zenon, <1>6, <2>7, <2>9, <3>1, <3>2, <3>3 DEF id
<1> QED  BY <1>1, <1>5, <1>6

\* The controllers still to scan.
LEMMA TodoIs ==
    /\ Tail(<<1, 0>>) = <<0>> /\ Head(<<1, 0>>) = 1 /\ <<1, 0>> # << >>
    /\ \A x \in {0, 1} : Tail(<<x>>) = << >> /\ Head(<<x>>) = x /\ <<x>> # << >>
OBVIOUS

LEMMA HidIs ==
    ASSUME NEW plug, UsbTypes(plug), NEW h \in Hids
    PROVE  hid[h] \in HidRec /\ hid[h].on \in BOOLEAN /\ hid[h].ctrl \in {0, 1} /\ hid[h].slot \in Nat
<1>1. hid[h] \in HidRec
    BY DEF UsbTypes
<1> QED  BY <1>1 DEF HidRec

\* What a new attempt to bind forgets and scans.
LEMMA PhaseIs ==
    ASSUME NEW plug, Bus(plug)!ConstantsOK, UsbTypes(plug), Bus(plug)!UsbPhase
    PROVE  /\ usbjob = Bus(plug)!Idle /\ usbtodo = << >>
           /\ UNCHANGED <<inited, slots, armed, cam, evq, usbjob, sends, stolen>>
           /\ hid' \in [Hids -> HidRec] /\ \A h \in Hids : ~hid'[h].on \/ hid'[h] = hid[h]
           /\ usbtodo' \in {<<>>, <<0>>, <<1>>, <<1, 0>>}
           /\ \/ usbtodo' = << >>
              \/ usbtodo' = <<1, 0>> /\ \A h \in Hids : ~hid'[h].on
              \/ \E c \in {0, 1} : usbtodo' = <<c>> /\ \A h \in Hids : ~(hid'[h].on /\ hid'[h].ctrl = c)
<1>1. /\ usbjob = Bus(plug)!Idle /\ usbtodo = << >>
      /\ UNCHANGED <<inited, slots, armed, cam, evq, usbjob, sends, stolen>>
    BY DEF Bus!UsbPhase
<1>2. Bus(plug)!Off \in HidRec /\ ~Bus(plug)!Off.on
    BY DEF Bus!Off, HidRec
<1>3. hid \in [Hids -> HidRec] /\ "mouse" \in Hids
    BY DEF UsbTypes, Hids
<1>4. CASE hid' = [h \in Hids |-> Bus(plug)!Off] /\ usbtodo' = <<1, 0>>
    BY <1>1, <1>2, <1>4
<1>5. CASE hid' = hid /\ usbtodo' = << >>
    BY <1>1, <1>3, <1>5
<1>6. ASSUME NEW c \in {0, 1}, hid' = [h \in Hids |-> IF hid[h].ctrl = c THEN Bus(plug)!Off ELSE hid[h]], usbtodo' = <<c>>
      PROVE  /\ hid' \in [Hids -> HidRec] /\ \A h \in Hids : ~hid'[h].on \/ hid'[h] = hid[h]
             /\ usbtodo' \in {<<>>, <<0>>, <<1>>, <<1, 0>>}
             /\ \E x \in {0, 1} : usbtodo' = <<x>> /\ \A h \in Hids : ~(hid'[h].on /\ hid'[h].ctrl = x)
  <2>1. hid' \in [Hids -> HidRec]
      BY <1>2, <1>3, <1>6
  <2>2. \A h \in Hids : (hid[h].ctrl = c /\ ~hid'[h].on) \/ (hid[h].ctrl # c /\ hid'[h] = hid[h])
      BY <1>2, <1>6
  <2> QED  BY <1>6, <2>1, <2>2
<1>7. \/ hid' = [h \in Hids |-> Bus(plug)!Off] /\ usbtodo' = <<1, 0>>
      \/ hid' = hid /\ usbtodo' = usbtodo
      \/ \E c \in {0, 1} : hid' = [h \in Hids |-> IF hid[h].ctrl = c THEN Bus(plug)!Off ELSE hid[h]] /\ usbtodo' = <<c>>
  <2>1. hid["mouse"].ctrl \in {0, 1}
      BY <1>3, HidIs
  <2>2. PICK c \in {0, 1} : c = IF ~(hid["mouse"].on /\ delivered) THEN IF hid["mouse"].on THEN hid["mouse"].ctrl ELSE 1 ELSE 0
      BY <2>1
  <2> QED  BY <2>2, BusIs DEF Bus!UsbPhase
<1> QED  BY <1>1, <1>4, <1>5, <1>6, <1>7

\* What the start of a scan of a controller does.
LEMMA InitedIs ==
    ASSUME NEW plug, inited \in [{0, 1} -> BOOLEAN], NEW c \in {0, 1}, Bus(plug)!rp1usb_xhci_init(c)
    PROVE  inited' \in [{0, 1} -> BOOLEAN]
<1>1. inited' = inited \/ \E up \in BOOLEAN : inited' = [inited EXCEPT ![c] = up]
    BY DEF Bus!rp1usb_xhci_init
<1> QED  BY <1>1

LEMMA ScanActIs ==
    ASSUME NEW plug, Bus(plug)!ConstantsOK, UsbTypes(plug), Bus(plug)!Scan
    PROVE  /\ usbjob = Bus(plug)!Idle /\ usbtodo # << >> /\ inited' \in [{0, 1} -> BOOLEAN]
           /\ UNCHANGED <<slots, hid, armed, cam, evq, sends, stolen>>
           /\ \E c \in {0, 1} :
                 /\ \/ usbtodo = <<1, 0>> /\ usbtodo' = <<0>> /\ c = 1
                    \/ usbtodo = <<c>> /\ usbtodo' = << >>
                 /\ \/ usbjob' = Bus(plug)!Idle
                    \/ UsbJobOK(plug, usbjob') /\ usbjob'.op = "scan" /\ usbjob'.ctrl = c /\ usbjob'.at = 1 /\ ~usbjob'.sent
<1>1. /\ usbjob = Bus(plug)!Idle /\ usbtodo # << >> /\ UNCHANGED <<slots, hid, armed, cam, evq, sends, stolen>>
      /\ usbtodo' = Tail(usbtodo) /\ Bus(plug)!rp1usb_xhci_init(Head(usbtodo))
      /\ usbjob' = Bus(plug)!Idle \/ usbjob' = Bus(plug)!ScanFrom(Head(usbtodo), 1)
    BY DEF Bus!Scan
<1>2. usbtodo \in {<<0>>, <<1>>, <<1, 0>>} /\ inited \in [{0, 1} -> BOOLEAN]
    BY <1>1 DEF UsbTypes
<1>3. PICK c \in {0, 1} : c = Head(usbtodo) /\ ((usbtodo = <<1, 0>> /\ Tail(usbtodo) = <<0>> /\ c = 1) \/ (usbtodo = <<c>> /\ Tail(usbtodo) = << >>))
  <2>1. ASSUME usbtodo = <<1, 0>>  PROVE Head(usbtodo) = 1 /\ Tail(usbtodo) = <<0>>
      BY <2>1, TodoIs
  <2>2. ASSUME NEW x \in {0, 1}, usbtodo = <<x>>  PROVE Head(usbtodo) = x /\ Tail(usbtodo) = << >>
      BY <2>2, TodoIs
  <2>3. CASE usbtodo = <<1, 0>>
    <3>1. 1 \in {0, 1}
        OBVIOUS
    <3>2. Head(usbtodo) = 1 /\ Tail(usbtodo) = <<0>>
        BY <2>1, <2>3
    <3> QED  BY <2>3, <3>1, <3>2
  <2>4. ASSUME NEW x \in {0, 1}, usbtodo = <<x>>
        PROVE  \E c \in {0, 1} : c = Head(usbtodo) /\ usbtodo = <<c>> /\ Tail(usbtodo) = << >>
      BY <2>2, <2>4
  <2> QED  BY <1>2, <2>3, <2>4
<1>4. inited' \in [{0, 1} -> BOOLEAN]
    BY <1>1, <1>2, <1>3, InitedIs
<1>5. PICK j : j = Bus(plug)!ScanFrom(c, 1)
    OBVIOUS
<1>6. j = Bus(plug)!Idle \/ (UsbJobOK(plug, j) /\ j.op = "scan" /\ j.ctrl = c /\ j.at = 1 /\ ~j.sent)
    BY <1>5, ScanIs
<1> QED  BY <1>1, <1>3, <1>4, <1>5, <1>6

LEMMA RequestIs ==
    ASSUME NEW plug, Bus(plug)!ConstantsOK, UsbTypes(plug), NEW x \in UsbOps \ {"scan"}, NEW c \in {0, 1}, NEW p,
           Bus(plug)!UsbRequest(x, c, p)
    PROVE  /\ usbjob = Bus(plug)!Idle /\ usbtodo = << >> /\ inited' \in [{0, 1} -> BOOLEAN]
           /\ UNCHANGED <<slots, hid, armed, evq, usbtodo, sends, stolen>>
           /\ cam' = Bus(plug)!NoCam \/ cam' = cam
           /\ x = "cam" => plug[c][p] = "cam" /\ cam' = Bus(plug)!NoCam
           /\ \/ usbjob' = Bus(plug)!Idle
              \/ /\ UsbJobOK(plug, usbjob') /\ usbjob'.op = x /\ usbjob'.ctrl = c /\ usbjob'.port = p
                 /\ usbjob'.at = 1 /\ ~usbjob'.sent
<1>1. /\ usbjob = Bus(plug)!Idle /\ usbtodo = << >> /\ UNCHANGED <<slots, hid, armed, evq, usbtodo, sends, stolen>>
      /\ cam' = Bus(plug)!NoCam \/ cam' = cam
      /\ x = "cam" => plug[c][p] = "cam" /\ cam' = Bus(plug)!NoCam
      /\ Bus(plug)!rp1usb_xhci_init(c)
      /\ usbjob' = Bus(plug)!Idle \/ usbjob' = Bus(plug)!Begin(x, c, p)
    BY DEF Bus!UsbRequest
<1>2. inited' \in [{0, 1} -> BOOLEAN]
    BY <1>1, InitedIs DEF UsbTypes
<1>3. PICK j : j = Bus(plug)!Begin(x, c, p)
    OBVIOUS
<1>4. UsbJobOK(plug, j) /\ j.op = x /\ j.ctrl = c /\ j.at = 1 /\ ~j.sent /\ j.port = p
    BY <1>3, BeginIs
<1> QED  BY <1>1, <1>2, <1>3, <1>4

\* The controller's answer.
LEMMA CompleteIs ==
    ASSUME NEW plug, Bus(plug)!ConstantsOK, UsbTypes(plug), Bus(plug)!Complete
    PROVE  /\ usbjob # Bus(plug)!Idle /\ ~usbjob.sent
           /\ UNCHANGED <<inited, hid, armed, cam, usbtodo, sends, stolen>>
           /\ UsbJobOK(plug, usbjob') /\ usbjob'.op = usbjob.op /\ usbjob'.ctrl = usbjob.ctrl /\ usbjob'.at = usbjob.at
           /\ usbjob'.slot = usbjob.slot /\ usbjob'.port = usbjob.port /\ usbjob'.sent
           /\ slots' \in [{0, 1} -> Nat] /\ \A x \in {0, 1} : slots'[x] >= slots[x]
           /\ \E e \in UsbEvent :
                 /\ e.of = "job" /\ e.type = Bus(plug)!Want
                 /\ Bus(plug)!Push(usbjob.ctrl, e)
                 /\ Bus(plug)!Step = "slot" /\ e.ok => slots'[usbjob.ctrl] > slots[usbjob.ctrl]
<1>1. /\ usbjob # Bus(plug)!Idle /\ ~usbjob.sent /\ UNCHANGED <<inited, hid, armed, cam, usbtodo, sends, stolen>>
      /\ usbjob' = [usbjob EXCEPT !.sent = TRUE]
    BY DEF Bus!Complete
<1>2. PICK ok \in BOOLEAN :
        /\ slots' = [slots EXCEPT ![usbjob.ctrl] = IF Bus(plug)!Step = "slot" /\ ok THEN slots[usbjob.ctrl] + 1 ELSE slots[usbjob.ctrl]]
        /\ Bus(plug)!Push(usbjob.ctrl, [type |-> Bus(plug)!Want, of |-> "job", ok |-> ok, slot |-> slots'[usbjob.ctrl]])
    BY Zenon DEF Bus!Complete
<1>3. UsbJobOK(plug, usbjob) /\ usbjob.ctrl \in {0, 1}
    BY <1>1, JobIs
<1>4. /\ slots' \in [{0, 1} -> Nat] /\ \A x \in {0, 1} : slots'[x] >= slots[x]
      /\ Bus(plug)!Step = "slot" /\ ok => slots'[usbjob.ctrl] > slots[usbjob.ctrl]
  <2>1. slots \in [{0, 1} -> Nat]
      BY DEF UsbTypes
  <2>2. PICK k \in Nat : k = IF Bus(plug)!Step = "slot" /\ ok THEN slots[usbjob.ctrl] + 1 ELSE slots[usbjob.ctrl]
      BY <1>3, <2>1
  <2>3. slots' = [slots EXCEPT ![usbjob.ctrl] = k]
      BY <1>2, <2>2
  <2>4. slots' \in [{0, 1} -> Nat] /\ \A x \in {0, 1} : slots'[x] = IF x = usbjob.ctrl THEN k ELSE slots[x]
      BY <1>3, <2>1, <2>2, <2>3
  <2>5. k >= slots[usbjob.ctrl] /\ (Bus(plug)!Step = "slot" /\ ok => k > slots[usbjob.ctrl])
      BY <1>3, <2>1, <2>2
  <2> QED  BY <1>3, <2>1, <2>2, <2>4, <2>5
<1>5. PICK e : e = [type |-> Bus(plug)!Want, of |-> "job", ok |-> ok, slot |-> slots'[usbjob.ctrl]]
    BY Zenon
<1>6. e \in UsbEvent /\ e.of = "job" /\ e.type = Bus(plug)!Want /\ e.ok = ok
    BY <1>3, <1>4, <1>5 DEF UsbEvent, Bus!Want
<1>7. PICK j : j = [usbjob EXCEPT !.sent = TRUE]
    BY Zenon
<1>8. /\ DOMAIN j = DOMAIN usbjob /\ j.op = usbjob.op /\ j.ctrl = usbjob.ctrl /\ j.at = usbjob.at
      /\ j.slot = usbjob.slot /\ j.port = usbjob.port /\ j.sent = TRUE
    BY <1>3, <1>7 DEF UsbJobOK
<1>9. UsbJobOK(plug, j)
  <2>1. j.sent \in BOOLEAN
      BY Zenon, <1>8
  <2> QED  BY <1>3, <1>8, <2>1 DEF UsbJobOK
<1> QED  BY <1>1, <1>2, <1>4, <1>5, <1>6, <1>7, <1>8, <1>9

\* A report of a bound device.
LEMMA ReportIs ==
    ASSUME NEW plug, Bus(plug)!ConstantsOK, UsbTypes(plug), NEW h \in Hids, Bus(plug)!Report(h)
    PROVE  /\ hid[h].on /\ armed[h] > 0
           /\ UNCHANGED <<inited, slots, hid, cam, usbjob, usbtodo, sends, stolen>>
           /\ armed' \in [Hids -> Int]
           /\ \A x \in Hids : armed'[x] = IF x = h THEN armed[h] - 1 ELSE armed[x]
           /\ \E e \in UsbEvent :
                 e.of = h /\ e.type = 32 /\ e.slot = hid[h].slot /\ Bus(plug)!Push(hid[h].ctrl, e)
<1>1. /\ hid[h].on /\ armed[h] > 0 /\ UNCHANGED <<inited, slots, hid, cam, usbjob, usbtodo, sends, stolen>>
      /\ armed' = [armed EXCEPT ![h] = armed[h] - 1]
      /\ Bus(plug)!Push(hid[h].ctrl, [type |-> 32, of |-> h, ok |-> TRUE, slot |-> hid[h].slot])
    BY DEF Bus!Report
<1>2. armed \in [Hids -> Int]
    BY DEF UsbTypes
<1>3. armed' \in [Hids -> Int] /\ \A x \in Hids : armed'[x] = IF x = h THEN armed[h] - 1 ELSE armed[x]
  <2>1. PICK v \in Int : v = armed[h] - 1
      BY <1>2
  <2>2. armed' = [armed EXCEPT ![h] = v]
      BY <1>1, <2>1
  <2> QED  BY <1>2, <2>1, <2>2, ExceptIs, Zenon
<1>4. PICK e : e = [type |-> 32, of |-> h, ok |-> TRUE, slot |-> hid[h].slot]
    BY Zenon
<1>5. e \in UsbEvent /\ e.of = h /\ e.type = 32 /\ e.slot = hid[h].slot
    BY <1>4, HidIs DEF UsbEvent, Hids
<1> QED  BY <1>1, <1>3, <1>4, <1>5

\* The next packet of the camera.
NextPacket(x) == IF x[2] = PKTS THEN <<x[1] + 1, 1>> ELSE <<x[1], x[2] + 1>>

LEMMA PacketIs ==
    ASSUME NEW plug, Bus(plug)!ConstantsOK, UsbTypes(plug), Bus(plug)!Packet
    PROVE  /\ cam.on /\ UNCHANGED <<inited, slots, hid, armed, cam, usbjob, usbtodo, stolen>>
           /\ sends' \in [frame : Nat, pkt : 1 .. PKTS, lost : 0 .. LOSS]
           /\ <<sends'.frame, sends'.pkt>> = NextPacket(<<sends.frame, sends.pkt>>)
           /\ \/ evq' = evq /\ sends'.lost = sends.lost + 1
              \/ /\ sends'.lost = sends.lost
                 /\ \E e \in UsbEvent : /\ e.of = "cam" /\ e.frame = sends.frame /\ e.pkt = sends.pkt
                                         /\ Bus(plug)!Push(cam.ctrl, e)
<1>1. cam.on /\ UNCHANGED <<inited, slots, hid, armed, cam, usbjob, usbtodo, stolen>>
    BY DEF Bus!Packet
<1>2. PICK err \in BOOLEAN, lost \in BOOLEAN :
       /\ lost => sends.lost < LOSS
       /\ sends' = [frame |-> sends.frame + (IF sends.pkt = PKTS THEN 1 ELSE 0), pkt |-> (sends.pkt % PKTS) + 1,
                    lost |-> sends.lost + (IF lost THEN 1 ELSE 0)]
       /\ IF lost THEN UNCHANGED evq
                  ELSE Bus(plug)!Push(cam.ctrl, [type |-> 32, of |-> "cam", ok |-> ~err, slot |-> 0,
                                       frame |-> sends.frame, pkt |-> sends.pkt])
    BY DEF Bus!Packet
<1>3. sends.frame \in Nat /\ sends.pkt \in 1 .. PKTS /\ sends.lost \in 0 .. LOSS /\ PKTS \in Nat \ {0} /\ LOSS \in Nat
    BY BusIs DEF UsbTypes
<1>4. PICK k \in 1 .. PKTS : k = (sends.pkt % PKTS) + 1 /\ k = IF sends.pkt = PKTS THEN 1 ELSE sends.pkt + 1
  <2>1. CASE sends.pkt = PKTS
    <3>1. PKTS % PKTS = 0
        BY <1>3
    <3> QED  BY <1>3, <2>1, <3>1
  <2>2. CASE sends.pkt # PKTS
    <3>1. sends.pkt % PKTS = sends.pkt
        BY <1>3, <2>2
    <3> QED  BY <1>3, <2>2, <3>1
  <2> QED  BY <2>1, <2>2
<1>5. PICK f \in Nat : f = sends.frame + (IF sends.pkt = PKTS THEN 1 ELSE 0)
    BY <1>3
<1>6. PICK l \in 0 .. LOSS : l = sends.lost + (IF lost THEN 1 ELSE 0)
    BY <1>2, <1>3
<1>7. sends' = [frame |-> f, pkt |-> k, lost |-> l]
    BY <1>2, <1>4, <1>5, <1>6
<1>8. /\ sends' \in [frame : Nat, pkt : 1 .. PKTS, lost : 0 .. LOSS]
      /\ sends'.frame = f /\ sends'.pkt = k /\ sends'.lost = l
    BY <1>7
<1>9. <<f, k>> = NextPacket(<<sends.frame, sends.pkt>>)
    BY <1>3, <1>4, <1>5 DEF NextPacket
<1>10. CASE lost
    BY <1>1, <1>2, <1>6, <1>8, <1>9, <1>10
<1>11. CASE ~lost
  <2>1. PICK e : e = [type |-> 32, of |-> "cam", ok |-> ~err, slot |-> 0, frame |-> sends.frame, pkt |-> sends.pkt]
      BY Zenon
  <2>2. e \in UsbEvent /\ e.of = "cam" /\ e.frame = sends.frame /\ e.pkt = sends.pkt
      BY <1>3, <2>1 DEF UsbEvent
  <2>3. l = sends.lost
      BY <1>3, <1>6, <1>11
  <2> QED  BY <1>1, <1>2, <1>8, <1>9, <1>11, <2>1, <2>2, <2>3
<1> QED  BY <1>10, <1>11

\* The pump takes one event, and one of the camera goes into its frame.
LEMMA PumpIs ==
    ASSUME NEW plug, Bus(plug)!ConstantsOK, UsbTypes(plug), NEW c \in {0, 1}, Bus(plug)!rp1usb_mouse_pump(c)
    PROVE  /\ usbjob = Bus(plug)!Idle /\ usbtodo = << >> /\ evq[c] # << >>
           /\ UNCHANGED <<inited, slots, hid, usbjob, usbtodo, sends, stolen>>
           /\ evq' \in [{0, 1} -> Seq(UsbEvent)] /\ evq'[c] = Tail(evq[c])
           /\ \A x \in {0, 1} : x # c => evq'[x] = evq[x]
           /\ armed' \in [Hids -> Int]
           /\ \A h \in Hids : armed'[h] = IF Bus(plug)!Mine(h, c, Head(evq[c])) THEN armed[h] + 1 ELSE armed[h]
           /\ cam' = IF Bus(plug)!CamEvent(c, Head(evq[c])) THEN Bus(plug)!cam_handle_event(Head(evq[c])) ELSE cam
<1>1. /\ usbjob = Bus(plug)!Idle /\ usbtodo = << >> /\ evq[c] # << >>
      /\ UNCHANGED <<inited, slots, hid, usbjob, usbtodo, sends, stolen>>
      /\ evq' = [evq EXCEPT ![c] = Tail(evq[c])]
      /\ cam' = IF Bus(plug)!CamEvent(c, Head(evq[c])) THEN Bus(plug)!cam_handle_event(Head(evq[c])) ELSE cam
      /\ armed' = [h \in Hids |-> IF Bus(plug)!Mine(h, c, Head(evq[c])) THEN armed[h] + 1 ELSE armed[h]]
    BY BusIs DEF Bus!rp1usb_mouse_pump, Bus!Rearm
<1>2. armed \in [Hids -> Int] /\ evq \in [{0, 1} -> Seq(UsbEvent)]
    BY DEF UsbTypes
<1>3. /\ armed' \in [Hids -> Int]
      /\ \A h \in Hids : armed'[h] = IF Bus(plug)!Mine(h, c, Head(evq[c])) THEN armed[h] + 1 ELSE armed[h]
    BY <1>1, <1>2
<1>4. /\ evq' \in [{0, 1} -> Seq(UsbEvent)] /\ evq'[c] = Tail(evq[c]) /\ \A x \in {0, 1} : x # c => evq'[x] = evq[x]
    BY <1>1, <1>2, PopTypes
<1> QED  BY <1>1, <1>3, <1>4

LEMMA StopIs ==
    ASSUME NEW plug, Bus(plug)!ConstantsOK, UsbTypes(plug), Bus(plug)!rp1usb_cam_stop
    PROVE  /\ usbjob = Bus(plug)!Idle /\ usbtodo = << >>
           /\ UNCHANGED <<inited, slots, hid, armed, evq, usbtodo, sends, stolen>>
           /\ CamOK(cam') /\ ~cam'.on /\ cam'.ready = cam.ready
           /\ UsbJobOK(plug, usbjob') /\ usbjob'.op = "ctrl" /\ usbjob'.at = 1 /\ ~usbjob'.sent
<1>1. /\ usbjob = Bus(plug)!Idle /\ usbtodo = << >> /\ UNCHANGED <<inited, slots, hid, armed, evq, usbtodo, sends, stolen>>
      /\ cam' = [cam EXCEPT !.on = FALSE] /\ usbjob' = Bus(plug)!Begin("ctrl", cam.ctrl, cam.port)
    BY DEF Bus!rp1usb_cam_stop
<1>2. CamOK(cam) /\ cam.ctrl \in {0, 1} /\ "ctrl" \in UsbOps
    BY DEF UsbTypes, CamOK, UsbOps
<1>3. PICK m : m = [cam EXCEPT !.on = FALSE]
    BY Zenon
<1>4. /\ DOMAIN m = DOMAIN cam /\ m.on = FALSE /\ m.ctrl = cam.ctrl /\ m.fid = cam.fid /\ m.fill = cam.fill
      /\ m.ready = cam.ready
    BY <1>2, <1>3 DEF CamOK
<1>5. CamOK(m)
    BY Zenon, <1>2, <1>4 DEF CamOK
<1>6. PICK j : j = Bus(plug)!Begin("ctrl", cam.ctrl, cam.port)
    OBVIOUS
<1>7. UsbJobOK(plug, j) /\ j.op = "ctrl" /\ j.at = 1 /\ ~j.sent
    BY <1>2, <1>6, BeginIs
<1> QED  BY <1>1, <1>3, <1>4, <1>5, <1>6, <1>7

LEMMA DroppedIs ==
    ASSUME NEW plug, Bus(plug)!ConstantsOK, UsbTypes(plug), Bus(plug)!EventDropped
    PROVE  /\ usbjob # Bus(plug)!Idle /\ evq[usbjob.ctrl] # << >> /\ Head(evq[usbjob.ctrl]).type # Bus(plug)!Want
           /\ UNCHANGED <<inited, slots, hid, armed, cam, usbjob, usbtodo, sends>>
           /\ Bus(plug)!Consume
BY DEF Bus!EventDropped

\* Nothing of a driver's state changes its type.
LEMMA SameTypes ==
    ASSUME NEW plug, UsbTypes(plug), inited' \in [{0, 1} -> BOOLEAN], slots' \in [{0, 1} -> Nat],
           hid' \in [Hids -> HidRec], armed' \in [Hids -> Int], evq' \in [{0, 1} -> Seq(UsbEvent)],
           usbtodo' \in {<< >>, << 0 >>, << 1 >>, << 1, 0 >>}, usbjob' = Bus(plug)!Idle \/ UsbJobOK(plug, usbjob'),
           sends' \in [frame : Nat, pkt : 1 .. PKTS, lost : 0 .. LOSS], CamOK(cam')
    PROVE  UsbTypes(plug)'
BY Zenon DEF UsbTypes, Bus!Idle, UsbJobOK, Bus!Steps, CamOK

LEMMA TypesNext ==
    ASSUME NEW plug, Bus(plug)!ConstantsOK, UsbTypes(plug), Bus(plug)!Next
    PROVE  UsbTypes(plug)'
<1>1. /\ inited \in [{0, 1} -> BOOLEAN] /\ slots \in [{0, 1} -> Nat] /\ hid \in [Hids -> HidRec]
      /\ armed \in [Hids -> Int] /\ evq \in [{0, 1} -> Seq(UsbEvent)] /\ usbtodo \in {<<>>, <<0>>, <<1>>, <<1, 0>>}
      /\ usbjob = Bus(plug)!Idle \/ UsbJobOK(plug, usbjob)
      /\ sends \in [frame : Nat, pkt : 1 .. PKTS, lost : 0 .. LOSS] /\ CamOK(cam) /\ cam.ctrl \in {0, 1}
    BY DEF UsbTypes, CamOK
<1>2. CamOK(Bus(plug)!NoCam)
    BY DEF CamOK, Bus!NoCam
<1>3. CASE Bus(plug)!UsbPhase
    BY Zenon, <1>1, <1>3, PhaseIs, SameTypes
<1>4. CASE Bus(plug)!Scan
    BY Zenon, <1>1, <1>4, ScanActIs, SameTypes
<1>5. CASE Bus(plug)!Complete
  <2>1. evq' \in [{0, 1} -> Seq(UsbEvent)]
      BY Zenon, <1>1, <1>5, CompleteIs, JobIs, PushTypes
  <2> QED  BY Zenon, <1>1, <1>5, <2>1, CompleteIs, SameTypes
<1>6. CASE Bus(plug)!EventDropped
  <2>1. evq' \in [{0, 1} -> Seq(UsbEvent)]
      BY <1>6, DroppedIs, ConsumeIs
  <2> QED  BY Zenon, <1>1, <1>6, <2>1, DroppedIs, SameTypes
<1>7. CASE Bus(plug)!rp1usb_step
    BY <1>7, TypesStep
<1>8. CASE Bus(plug)!rp1usb_cam_stop
    BY <1>1, <1>8, StopIs, SameTypes
<1>9. CASE Bus(plug)!Packet
  <2>1. evq' \in [{0, 1} -> Seq(UsbEvent)]
      BY ZenonT(40), <1>1, <1>9, PacketIs, PushTypes
  <2> QED  BY Zenon, <1>1, <1>9, <2>1, PacketIs, SameTypes
<1>10. ASSUME NEW h \in Hids, Bus(plug)!Report(h)  PROVE UsbTypes(plug)'
  <2>1. evq' \in [{0, 1} -> Seq(UsbEvent)]
    <3>1. PICK e \in UsbEvent : Bus(plug)!Push(hid[h].ctrl, e)
        BY <1>10, ReportIs
    <3>2. hid[h].ctrl \in {0, 1}
        BY HidIs
    <3> QED  BY Zenon, <1>1, <3>1, <3>2, PushTypes
  <2> QED  BY ZenonT(40), <1>1, <1>10, <2>1, ReportIs, SameTypes
<1>11. ASSUME NEW c \in {0, 1}, Bus(plug)!rp1usb_mouse_pump(c)  PROVE UsbTypes(plug)'
  <2>1. evq[c] \in Seq(UsbEvent) /\ evq[c] # << >>
      BY <1>1, <1>11, PumpIs
  <2>2. CamOK(cam')
    <3>1. CASE Bus(plug)!CamEvent(c, Head(evq[c]))
      <4>1. Head(evq[c]) \in UsbEvent /\ Head(evq[c]).of = "cam"
          BY <2>1, <3>1, RingTail DEF Bus!CamEvent
      <4>2. cam' = Bus(plug)!cam_handle_event(Head(evq[c]))
          BY <1>11, <3>1, PumpIs
      <4> QED  BY <1>1, <4>1, <4>2, CamIs
    <3>2. CASE ~Bus(plug)!CamEvent(c, Head(evq[c]))
        BY <1>1, <1>11, <3>2, PumpIs
    <3> QED  BY <3>1, <3>2
  <2> QED  BY Zenon, <1>1, <1>11, <2>2, PumpIs, SameTypes
<1>12. ASSUME NEW c \in {0, 1}, NEW x \in UsbOps \ {"scan"}, NEW p, Bus(plug)!UsbRequest(x, c, p)  PROVE UsbTypes(plug)'
  <2>1. /\ inited' \in [{0, 1} -> BOOLEAN] /\ UNCHANGED <<slots, hid, armed, evq, usbtodo, sends, stolen>>
        /\ cam' = Bus(plug)!NoCam \/ cam' = cam
        /\ usbjob' = Bus(plug)!Idle \/ UsbJobOK(plug, usbjob')
      BY <1>12, RequestIs
  <2>2. CamOK(cam')
      BY <1>1, <1>2, <2>1
  <2> QED  BY <1>1, <2>1, <2>2, SameTypes
<1> QED  BY <1>3, <1>4, <1>5, <1>6, <1>7, <1>8, <1>9, <1>10, <1>11, <1>12, BusIs DEF Bus!Next

-----------------------------------------------------------------------------
(* The mouse and the keyboard                                              *)

\* A boot scan and what it has still to scan leave the controllers of bound devices alone.
NoneOn(c) == \A h \in Hids : ~(hid[h].on /\ hid[h].ctrl = c)
ScanSafe(plug) ==
    /\ usbjob # Bus(plug)!Idle /\ usbjob.op = "scan" => NoneOn(usbjob.ctrl)
    /\ usbtodo = <<1, 0>> => usbjob = Bus(plug)!Idle /\ \A h \in Hids : ~hid[h].on
    /\ \A c \in {0, 1} :
          usbtodo = <<c>> =>
             /\ NoneOn(c)
             /\ usbjob # Bus(plug)!Idle => usbjob.op = "scan" /\ usbjob.ctrl # c

\* Slots that bound devices and the events of devices carry.
SlotsWithin(c, k) ==
    /\ \A h \in Hids : hid[h].on /\ hid[h].ctrl = c => hid[h].slot <= k
    /\ \A i \in DOMAIN evq[c] : evq[c][i].of \in Hids => evq[c][i].slot <= k

\* A command completion in a ring answers the command in progress; a slot it grants is new.
CmdInv(plug) ==
    \A c \in {0, 1} :
       /\ \A i \in DOMAIN evq[c] : evq[c][i].type = 33 =>
             /\ usbjob # Bus(plug)!Idle /\ usbjob.ctrl = c /\ usbjob.sent /\ Bus(plug)!Want = 33
             /\ Bus(plug)!Step = "slot" /\ evq[c][i].ok => SlotsWithin(c, slots[c] - 1)
       /\ \A i, j \in DOMAIN evq[c] : evq[c][i].type = 33 /\ evq[c][j].type = 33 => i = j

SlotInv == \A c \in {0, 1} : SlotsWithin(c, slots[c])

\* The slot of a device being bound: no bound device has it, and no event of one.
FreshJob(plug) ==
    usbjob # Bus(plug)!Idle /\ usbjob.op \in {"scan", "manual"} /\ usbjob.at > 1 =>
       /\ usbjob.slot <= slots[usbjob.ctrl]
       /\ \A h \in Hids : hid[h].on /\ hid[h].ctrl = usbjob.ctrl => hid[h].slot # usbjob.slot
       /\ \A i \in DOMAIN evq[usbjob.ctrl] :
             evq[usbjob.ctrl][i].of \in Hids => evq[usbjob.ctrl][i].slot # usbjob.slot

\* The two transfers of a device: a with the controller, the others the events M.
Held(a, M) ==
    \/ a = 2 /\ M = {}
    \/ a = 1 /\ \E i \in M : M = {i}
    \/ a = 0 /\ \E i, j \in M : i # j /\ M = {i, j}

Kept(h) == \A x \in UsbOps \ {"scan"} : <<h, x>> \notin stolen
AliveInv(plug) == \A h \in Hids : hid[h].on /\ Kept(h) => Held(armed[h], Bus(plug)!InRing(h))

InputInv(plug) == ScanSafe(plug) /\ CmdInv(plug) /\ SlotInv /\ FreshJob(plug) /\ AliveInv(plug)

\* The marks of a ring whose first event goes, and of one that gets one more.
LEMMA MarksShift ==
    ASSUME NEW k \in Nat, NEW M, M \subseteq 1 .. k, NEW a \in Int, Held(a, M)
    PROVE  LET D == {i \in 1 .. k - 1 : i + 1 \in M}
           IN  (1 \notin M => Held(a, D)) /\ (1 \in M => Held(a + 1, D))
<1> DEFINE D == {i \in 1 .. k - 1 : i + 1 \in M}
<1>1. \A i \in M : i \in Int /\ 1 <= i /\ i <= k
    OBVIOUS
<1>2. CASE a = 2 /\ M = {}
    BY <1>2 DEF Held
<1>3. ASSUME a = 1, NEW i \in M, M = {i}
      PROVE  (1 \notin M => Held(a, D)) /\ (1 \in M => Held(a + 1, D))
  <2>1. CASE i = 1
    <3>1. D = {}
        BY <1>3, <2>1
    <3> QED  BY <1>3, <2>1, <3>1 DEF Held
  <2>2. CASE i # 1
    <3>1. D = {i - 1} /\ i - 1 \in D
        BY <1>1, <1>3, <2>2
    <3> QED  BY <1>3, <2>2, <3>1 DEF Held
  <2> QED  BY <2>1, <2>2
<1>4. ASSUME a = 0, NEW i \in M, NEW j \in M, i # j, M = {i, j}
      PROVE  (1 \notin M => Held(a, D)) /\ (1 \in M => Held(a + 1, D))
  <2>1. CASE i = 1
    <3>1. D = {j - 1} /\ j - 1 \in D
        BY <1>1, <1>4, <2>1
    <3> QED  BY <1>4, <2>1, <3>1 DEF Held
  <2>2. CASE j = 1
    <3>1. D = {i - 1} /\ i - 1 \in D
        BY <1>1, <1>4, <2>2
    <3> QED  BY <1>4, <2>2, <3>1 DEF Held
  <2>3. CASE i # 1 /\ j # 1
    <3>1. D = {i - 1, j - 1} /\ i - 1 \in D /\ j - 1 \in D /\ i - 1 # j - 1
        BY <1>1, <1>4, <2>3
    <3> HIDE DEF D
    <3> QED  BY <1>4, <2>3, <3>1 DEF Held
  <2> QED  BY <2>1, <2>2, <2>3
<1> QED  BY <1>2, <1>3, <1>4 DEF Held

LEMMA MarksMore ==
    ASSUME NEW k \in Nat, NEW M, M \subseteq 1 .. k, NEW a \in Int, a > 0, Held(a, M)
    PROVE  Held(a - 1, M \cup {k + 1})
<1>1. \A i \in M : i # k + 1
    OBVIOUS
<1>2. CASE a = 2 /\ M = {}
  <2>1. M \cup {k + 1} = {k + 1} /\ k + 1 \in M \cup {k + 1} /\ a - 1 = 1
      BY <1>2
  <2> QED  BY <2>1 DEF Held
<1>3. ASSUME a = 1, NEW i \in M, M = {i}  PROVE Held(a - 1, M \cup {k + 1})
  <2>1. M \cup {k + 1} = {i, k + 1} /\ i \in M \cup {k + 1} /\ k + 1 \in M \cup {k + 1} /\ a - 1 = 0 /\ i # k + 1
      BY <1>1, <1>3
  <2> QED  BY <2>1 DEF Held
<1> QED  BY <1>2, <1>3 DEF Held

\* How the rings change: an event goes, or one more comes.
Popped(c) ==
    /\ evq' \in [{0, 1} -> Seq(UsbEvent)] /\ evq[c] # << >> /\ evq'[c] = Tail(evq[c])
    /\ \A x \in {0, 1} : x # c => evq'[x] = evq[x]
Pushed(c, e) ==
    /\ evq' \in [{0, 1} -> Seq(UsbEvent)] /\ evq'[c] = Append(evq[c], e)
    /\ \A x \in {0, 1} : x # c => evq'[x] = evq[x]

LEMMA PoppedIs ==
    ASSUME evq \in [{0, 1} -> Seq(UsbEvent)], NEW c \in {0, 1}, Popped(c), NEW x \in {0, 1}
    PROVE  /\ Head(evq[c]) = evq[c][1] /\ 1 \in DOMAIN evq[c] /\ Head(evq[c]) \in UsbEvent
           /\ Len(evq[x]) \in Nat /\ DOMAIN evq[x] = 1 .. Len(evq[x])
           /\ x = c => /\ DOMAIN evq'[x] = 1 .. Len(evq[x]) - 1
                       /\ \A i \in DOMAIN evq'[x] : i + 1 \in DOMAIN evq[x] /\ evq'[x][i] = evq[x][i + 1]
           /\ x # c => evq'[x] = evq[x]
<1>1. PICK q \in Seq(UsbEvent) : q = evq[c] /\ q # << >>
    BY DEF Popped
<1>2. /\ Head(q) \in UsbEvent /\ Head(q) = q[1] /\ Len(q) \in Nat \ {0}
      /\ \A i \in 1 .. Len(q) - 1 : Tail(q)[i] = q[i + 1]
      /\ DOMAIN q = 1 .. Len(q) /\ DOMAIN Tail(q) = 1 .. Len(q) - 1
    BY <1>1, RingTail
<1>3. PICK l \in Nat \ {0} : l = Len(q)
    BY Zenon, <1>2
<1>4. \A i \in 1 .. l - 1 : i + 1 \in 1 .. l
    OBVIOUS
<1>5. 1 \in DOMAIN q
    BY <1>2, <1>3
<1>6. CASE x = c
  <2>1. evq'[x] = Tail(q) /\ evq[x] = q
      BY <1>1, <1>6 DEF Popped
  <2> QED  BY <1>1, <1>2, <1>3, <1>4, <1>5, <1>6, <2>1
<1>7. CASE x # c
  <2>1. evq'[x] = evq[x] /\ evq[x] \in Seq(UsbEvent)
      BY <1>7 DEF Popped
  <2>2. Len(evq[x]) \in Nat /\ DOMAIN evq[x] = 1 .. Len(evq[x])
      BY <2>1
  <2> QED  BY <1>1, <1>2, <1>5, <1>7, <2>1, <2>2
<1> QED  BY <1>6, <1>7

LEMMA PushedIs ==
    ASSUME evq \in [{0, 1} -> Seq(UsbEvent)], NEW c \in {0, 1}, NEW e \in UsbEvent, Pushed(c, e), NEW x \in {0, 1}
    PROVE  /\ Len(evq[x]) \in Nat /\ DOMAIN evq[x] = 1 .. Len(evq[x])
           /\ x = c => /\ DOMAIN evq'[x] = 1 .. Len(evq[x]) + 1 /\ evq'[x][Len(evq[x]) + 1] = e
                       /\ \A i \in 1 .. Len(evq[x]) : evq'[x][i] = evq[x][i]
           /\ x # c => evq'[x] = evq[x]
<1>1. PICK q \in Seq(UsbEvent) : q = evq[x]
    OBVIOUS
<1>2. /\ Len(q) \in Nat /\ DOMAIN q = 1 .. Len(q)
      /\ DOMAIN Append(q, e) = 1 .. Len(q) + 1 /\ Append(q, e)[Len(q) + 1] = e
      /\ \A i \in 1 .. Len(q) : Append(q, e)[i] = q[i]
    BY RingAppend
<1>3. CASE x = c
  <2>1. evq'[x] = Append(q, e)
      BY <1>1, <1>3 DEF Pushed
  <2> QED  BY <1>1, <1>2, <1>3, <2>1
<1>4. CASE x # c
  <2>1. evq'[x] = evq[x]
      BY <1>4 DEF Pushed
  <2> QED  BY <1>1, <1>2, <1>4, <2>1
<1> QED  BY <1>3, <1>4

\* Where the events of a ring after a step come from.
EventsFrom(x) ==
    \A i \in DOMAIN evq'[x] :
       \/ \E j \in DOMAIN evq[x] : evq'[x][i] = evq[x][j]
       \/ evq'[x][i].of \notin Hids
       \/ \E h \in Hids : hid[h].on /\ hid[h].ctrl = x /\ hid[h].slot = evq'[x][i].slot
HidWere == \A h \in Hids : ~hid'[h].on \/ hid'[h] = hid[h]

\* The command completions of a ring after a step, d places further on before.
Shifted(x, k) ==
    \A i \in DOMAIN evq'[x] : evq'[x][i].type = 33 => i + k \in DOMAIN evq[x] /\ evq'[x][i] = evq[x][i + k]

LEMMA PoppedFrom ==
    ASSUME evq \in [{0, 1} -> Seq(UsbEvent)], NEW c \in {0, 1}, Popped(c), NEW x \in {0, 1}
    PROVE  EventsFrom(x) /\ \E k \in {0, 1} : Shifted(x, k)
<1>1. CASE x = c
  <2>1. \A i \in DOMAIN evq'[x] : i + 1 \in DOMAIN evq[x] /\ evq'[x][i] = evq[x][i + 1]
      BY <1>1, PoppedIs
  <2> QED  BY <2>1 DEF EventsFrom, Shifted
<1>2. CASE x # c
  <2>1. evq'[x] = evq[x] /\ DOMAIN evq[x] = 1 .. Len(evq[x]) /\ Len(evq[x]) \in Nat
      BY <1>2, PoppedIs
  <2>2. \A i \in DOMAIN evq[x] : i + 0 = i
      BY <2>1
  <2> QED  BY <2>1, <2>2 DEF EventsFrom, Shifted
<1> QED  BY <1>1, <1>2

LEMMA PushedFrom ==
    ASSUME evq \in [{0, 1} -> Seq(UsbEvent)], NEW c \in {0, 1}, NEW e \in UsbEvent, Pushed(c, e), NEW x \in {0, 1},
           e.of \notin Hids \/ \E h \in Hids : hid[h].on /\ hid[h].ctrl = c /\ hid[h].slot = e.slot
    PROVE  EventsFrom(x) /\ (e.type # 33 => Shifted(x, 0))
<1>1. Len(evq[x]) \in Nat /\ DOMAIN evq[x] = 1 .. Len(evq[x])
    BY PushedIs
<1>2. \A i \in DOMAIN evq'[x] : (i \in DOMAIN evq[x] /\ evq'[x][i] = evq[x][i]) \/ (x = c /\ evq'[x][i] = e)
  <2>1. CASE x = c
    <3>1. /\ DOMAIN evq'[x] = 1 .. Len(evq[x]) + 1 /\ evq'[x][Len(evq[x]) + 1] = e
          /\ \A i \in 1 .. Len(evq[x]) : evq'[x][i] = evq[x][i]
        BY <2>1, PushedIs
    <3>2. PICK l \in Nat : l = Len(evq[x])
        BY <1>1
    <3>3. \A i \in 1 .. l + 1 : i \in 1 .. l \/ i = l + 1
        OBVIOUS
    <3> QED  BY <1>1, <2>1, <3>1, <3>2, <3>3
  <2>2. CASE x # c
      BY <2>2, PushedIs
  <2> QED  BY <2>1, <2>2
<1>3. \A i \in DOMAIN evq[x] : i + 0 = i
    BY <1>1
<1>4. EventsFrom(x)
    BY <1>2 DEF EventsFrom
<1>5. ASSUME e.type # 33  PROVE Shifted(x, 0)
    BY <1>2, <1>3, <1>5 DEF Shifted
<1> QED  BY <1>4, <1>5

\* Slots stay within their bound, and the slot being bound stays new.
LEMMA WithinKept ==
    ASSUME NEW c \in {0, 1}, NEW k, EventsFrom(c), HidWere, SlotsWithin(c, k)
    PROVE  /\ \A h \in Hids : hid'[h].on /\ hid'[h].ctrl = c => hid'[h].slot <= k
           /\ \A i \in DOMAIN evq'[c] : evq'[c][i].of \in Hids => evq'[c][i].slot <= k
BY DEF EventsFrom, HidWere, SlotsWithin

LEMMA FreshKept ==
    ASSUME NEW plug, UsbTypes(plug), FreshJob(plug), usbjob # Bus(plug)!Idle,
           usbjob'.op = usbjob.op, usbjob'.ctrl = usbjob.ctrl,
           usbjob.at > 1, usbjob'.slot = usbjob.slot,
           EventsFrom(usbjob.ctrl), HidWere, slots' \in [{0, 1} -> Nat], slots'[usbjob.ctrl] >= slots[usbjob.ctrl]
    PROVE  FreshJob(plug)'
<1>0. usbjob.ctrl \in {0, 1} /\ usbjob.slot \in Nat /\ slots[usbjob.ctrl] \in Nat /\ slots'[usbjob.ctrl] \in Nat
    BY Zenon, JobIs DEF UsbTypes, UsbJobOK
<1> SUFFICES ASSUME usbjob.op \in {"scan", "manual"}
             PROVE  /\ usbjob.slot <= slots'[usbjob.ctrl]
                    /\ \A h \in Hids : hid'[h].on /\ hid'[h].ctrl = usbjob.ctrl => hid'[h].slot # usbjob.slot
                    /\ \A i \in DOMAIN evq'[usbjob.ctrl] :
                           evq'[usbjob.ctrl][i].of \in Hids => evq'[usbjob.ctrl][i].slot # usbjob.slot
    BY DEF FreshJob
<1>1. /\ usbjob.slot <= slots[usbjob.ctrl]
      /\ \A h \in Hids : hid[h].on /\ hid[h].ctrl = usbjob.ctrl => hid[h].slot # usbjob.slot
      /\ \A i \in DOMAIN evq[usbjob.ctrl] :
            evq[usbjob.ctrl][i].of \in Hids => evq[usbjob.ctrl][i].slot # usbjob.slot
    BY DEF FreshJob
<1>2. usbjob.slot <= slots'[usbjob.ctrl]
    BY <1>0, <1>1
<1> QED  BY <1>1, <1>2 DEF EventsFrom, HidWere

\* No command completion in a ring, and what a wait leaves of one.
No33 == \A c \in {0, 1} : \A i \in DOMAIN evq[c] : evq[c][i].type # 33

LEMMA CmdNone ==
    ASSUME NEW plug, No33  PROVE CmdInv(plug)
BY DEF No33, CmdInv

LEMMA IdleNo33 ==
    ASSUME NEW plug, CmdInv(plug), usbjob = Bus(plug)!Idle  PROVE No33
BY DEF No33, CmdInv

LEMMA ShiftedNo33 ==
    ASSUME No33, \A x \in {0, 1} : \E k \in {0, 1} : Shifted(x, k)
    PROVE  No33'
<1> SUFFICES ASSUME NEW x \in {0, 1}, NEW i \in DOMAIN evq'[x], evq'[x][i].type = 33  PROVE FALSE
    BY DEF No33
<1>1. PICK k \in {0, 1} : Shifted(x, k)
    OBVIOUS
<1>2. i + k \in DOMAIN evq[x] /\ evq'[x][i] = evq[x][i + k]
    BY <1>1 DEF Shifted
<1> QED  BY <1>2 DEF No33

LEMMA CmdKept ==
    ASSUME NEW plug, UsbTypes(plug), CmdInv(plug), usbjob' = usbjob, slots' = slots, HidWere,
           evq' \in [{0, 1} -> Seq(UsbEvent)],
           \A x \in {0, 1} : EventsFrom(x) /\ \E k \in {0, 1} : Shifted(x, k)
    PROVE  CmdInv(plug)'
<1>1. Bus(plug)!Want' = Bus(plug)!Want /\ Bus(plug)!Step' = Bus(plug)!Step
    BY DEF Bus!Want, Bus!Step, Bus!Steps
<1>2. ASSUME NEW x \in {0, 1}, NEW i \in DOMAIN evq'[x], evq'[x][i].type = 33
      PROVE  /\ usbjob' # Bus(plug)!Idle /\ usbjob'.ctrl = x /\ usbjob'.sent /\ Bus(plug)!Want' = 33
             /\ Bus(plug)!Step' = "slot" /\ evq'[x][i].ok =>
                   /\ \A h \in Hids : hid'[h].on /\ hid'[h].ctrl = x => hid'[h].slot <= slots[x] - 1
                   /\ \A m \in DOMAIN evq'[x] : evq'[x][m].of \in Hids => evq'[x][m].slot <= slots[x] - 1
  <2>1. PICK k \in {0, 1} : Shifted(x, k)
      OBVIOUS
  <2>2. i + k \in DOMAIN evq[x] /\ evq'[x][i] = evq[x][i + k]
      BY <1>2, <2>1 DEF Shifted
  <2>3. /\ usbjob # Bus(plug)!Idle /\ usbjob.ctrl = x /\ usbjob.sent /\ Bus(plug)!Want = 33
        /\ Bus(plug)!Step = "slot" /\ evq'[x][i].ok => SlotsWithin(x, slots[x] - 1)
      BY <1>2, <2>2 DEF CmdInv
  <2> QED  BY <1>1, <2>3, WithinKept
<1>3. ASSUME NEW x \in {0, 1}, NEW i \in DOMAIN evq'[x], NEW j \in DOMAIN evq'[x], evq'[x][i].type = 33, evq'[x][j].type = 33
      PROVE  i = j
  <2>1. PICK k \in {0, 1} : Shifted(x, k)
      OBVIOUS
  <2>2. /\ i + k \in DOMAIN evq[x] /\ evq'[x][i] = evq[x][i + k]
        /\ j + k \in DOMAIN evq[x] /\ evq'[x][j] = evq[x][j + k]
      BY <1>3, <2>1 DEF Shifted
  <2>3. i + k = j + k
      BY <1>3, <2>2 DEF CmdInv
  <2>4. i \in Int /\ j \in Int
    <3>1. evq'[x] \in Seq(UsbEvent)
        OBVIOUS
    <3> QED  BY <3>1
  <2> QED  BY <2>3, <2>4
<1> QED
  <2>1. \A x \in {0, 1} : \A i \in DOMAIN evq'[x] : evq'[x][i].type = 33 =>
             /\ usbjob' # Bus(plug)!Idle /\ usbjob'.ctrl = x /\ usbjob'.sent /\ Bus(plug)!Want' = 33
             /\ Bus(plug)!Step' = "slot" /\ evq'[x][i].ok => SlotsWithin(x, slots[x] - 1)'
      BY <1>2 DEF SlotsWithin
  <2>2. Bus(plug)!Idle' = Bus(plug)!Idle
      BY DEF Bus!Idle
  <2> QED  BY <1>3, <2>1, <2>2 DEF CmdInv

\* The events of a bound device in its ring.
LEMMA InRingIs ==
    ASSUME NEW plug, UsbTypes(plug), NEW h \in Hids, hid[h].on
    PROVE  LET q == evq[hid[h].ctrl]
           IN  /\ Len(q) \in Nat /\ DOMAIN q = 1 .. Len(q)
               /\ Bus(plug)!InRing(h) = {i \in 1 .. Len(q) : q[i].of = h /\ q[i].slot = hid[h].slot}
<1>1. hid[h].ctrl \in {0, 1} /\ evq \in [{0, 1} -> Seq(UsbEvent)]
    BY Zenon, HidIs DEF UsbTypes
<1>2. PICK q \in Seq(UsbEvent) : q = evq[hid[h].ctrl]
    BY <1>1
<1>3. Len(q) \in Nat /\ DOMAIN q = 1 .. Len(q)
    OBVIOUS
<1> QED  BY <1>2, <1>3 DEF Bus!InRing, Bus!Mine

\* The marks of the events of one device in a ring that loses its first event, and
\* in one that gains an event.
LEMMA MarksTail ==
    ASSUME NEW l \in Nat, NEW q, NEW p, NEW h, NEW k, \A i \in 1 .. l - 1 : p[i] = q[i + 1]
    PROVE  {i \in 1 .. l - 1 : p[i].of = h /\ p[i].slot = k} =
           {i \in 1 .. l - 1 : i + 1 \in {m \in 1 .. l : q[m].of = h /\ q[m].slot = k}}
<1>1. \A i \in 1 .. l - 1 : i + 1 \in 1 .. l
    OBVIOUS
<1> QED  BY <1>1

LEMMA MarksAppend ==
    ASSUME NEW l \in Nat, NEW q, NEW p, NEW h, NEW k, \A i \in 1 .. l : p[i] = q[i]
    PROVE  {i \in 1 .. l + 1 : p[i].of = h /\ p[i].slot = k} =
           {m \in 1 .. l : q[m].of = h /\ q[m].slot = k}
           \cup (IF p[l + 1].of = h /\ p[l + 1].slot = k THEN {l + 1} ELSE {})
<1>1. \A i \in 1 .. l + 1 : i \in 1 .. l \/ i = l + 1
    OBVIOUS
<1>2. (\A i \in 1 .. l : i \in 1 .. l + 1) /\ l + 1 \in 1 .. l + 1
    OBVIOUS
<1> QED  BY <1>1, <1>2

\* Its transfers when the driver takes an event of a ring, and when one more comes.
LEMMA AlivePopped ==
    ASSUME NEW plug, UsbTypes(plug), UsbTypes(plug)', NEW c \in {0, 1}, Popped(c), NEW h \in Hids, hid[h].on, hid'[h] = hid[h],
           Held(armed[h], Bus(plug)!InRing(h)),
           armed'[h] = IF Bus(plug)!Mine(h, c, Head(evq[c])) THEN armed[h] + 1 ELSE armed[h]
    PROVE  Held(armed'[h], Bus(plug)!InRing(h)')
<1>0. hid[h].ctrl \in {0, 1} /\ armed[h] \in Int /\ evq \in [{0, 1} -> Seq(UsbEvent)] /\ hid'[h].on
    BY Zenon, HidIs DEF UsbTypes
<1> DEFINE q == evq[hid[h].ctrl]
           p == evq'[hid[h].ctrl]
<1>1. /\ Len(q) \in Nat /\ DOMAIN q = 1 .. Len(q)
      /\ Bus(plug)!InRing(h) = {i \in 1 .. Len(q) : q[i].of = h /\ q[i].slot = hid[h].slot}
    BY InRingIs
<1>2. Bus(plug)!InRing(h)' = {i \in DOMAIN p : p[i].of = h /\ p[i].slot = hid[h].slot}
    BY <1>0 DEF Bus!InRing, Bus!Mine
<1>3. CASE hid[h].ctrl # c
  <2>1. p = q
      BY <1>0, <1>3, PoppedIs
  <2>2. ~Bus(plug)!Mine(h, c, Head(evq[c]))
      BY <1>3 DEF Bus!Mine
  <2> QED  BY ZenonT(40), <1>1, <1>2, <2>1, <2>2
<1>4. CASE hid[h].ctrl = c
  <2>1. /\ DOMAIN p = 1 .. Len(q) - 1 /\ \A i \in DOMAIN p : i + 1 \in DOMAIN q /\ p[i] = q[i + 1]
        /\ Head(evq[c]) = q[1] /\ 1 \in DOMAIN q
      BY <1>0, <1>4, PoppedIs
  <2>2. PICK l \in Nat : l = Len(q)
      BY <1>1
  <2>3. PICK M : M = {m \in 1 .. l : q[m].of = h /\ q[m].slot = hid[h].slot}
      BY Zenon
  <2>4. M \subseteq 1 .. l /\ M = Bus(plug)!InRing(h)
      BY <1>1, <2>2, <2>3
  <2>5. Bus(plug)!InRing(h)' = {i \in 1 .. l - 1 : i + 1 \in M}
    <3>1. \A i \in 1 .. l - 1 : p[i] = q[i + 1]
        BY <2>1, <2>2
    <3>2. {i \in 1 .. l - 1 : p[i].of = h /\ p[i].slot = hid[h].slot} = {i \in 1 .. l - 1 : i + 1 \in M}
      <4> HIDE DEF p, q
      <4> QED  BY <2>3, <3>1, MarksTail
    <3> QED  BY <1>2, <2>1, <2>2, <3>2
  <2>6. 1 \in M <=> Bus(plug)!Mine(h, c, Head(evq[c]))
    <3>1. 1 \in 1 .. l
        BY <1>1, <2>1, <2>2
    <3> QED  BY <1>4, <2>1, <2>3, <3>1 DEF Bus!Mine
  <2>7. PICK a \in Int : a = armed[h]
      BY <1>0
  <2>8. PICK D : D = {i \in 1 .. l - 1 : i + 1 \in M}
      BY Zenon
  <2>9. (1 \notin M => Held(a, D)) /\ (1 \in M => Held(a + 1, D))
      BY <2>4, <2>7, <2>8, MarksShift
  <2> QED  BY <2>5, <2>6, <2>7, <2>8, <2>9
<1> QED  BY <1>3, <1>4

LEMMA AlivePushed ==
    ASSUME NEW plug, UsbTypes(plug), UsbTypes(plug)', NEW c \in {0, 1}, NEW e \in UsbEvent, Pushed(c, e), NEW h \in Hids,
           hid[h].on, hid'[h] = hid[h], Held(armed[h], Bus(plug)!InRing(h)),
           IF Bus(plug)!Mine(h, c, e) THEN armed[h] > 0 /\ armed'[h] = armed[h] - 1 ELSE armed'[h] = armed[h]
    PROVE  Held(armed'[h], Bus(plug)!InRing(h)')
<1>0. hid[h].ctrl \in {0, 1} /\ armed[h] \in Int /\ evq \in [{0, 1} -> Seq(UsbEvent)] /\ hid'[h].on
    BY Zenon, HidIs DEF UsbTypes
<1> DEFINE q == evq[hid[h].ctrl]
           p == evq'[hid[h].ctrl]
<1>1. /\ Len(q) \in Nat /\ DOMAIN q = 1 .. Len(q)
      /\ Bus(plug)!InRing(h) = {i \in 1 .. Len(q) : q[i].of = h /\ q[i].slot = hid[h].slot}
    BY InRingIs
<1>2. Bus(plug)!InRing(h)' = {i \in DOMAIN p : p[i].of = h /\ p[i].slot = hid[h].slot}
    BY <1>0 DEF Bus!InRing, Bus!Mine
<1>3. CASE hid[h].ctrl # c
  <2>1. p = q
      BY <1>0, <1>3, PushedIs
  <2>2. ~Bus(plug)!Mine(h, c, e)
      BY <1>3 DEF Bus!Mine
  <2> QED  BY ZenonT(40), <1>1, <1>2, <2>1, <2>2
<1>4. CASE hid[h].ctrl = c
  <2>1. /\ DOMAIN p = 1 .. Len(q) + 1 /\ \A i \in 1 .. Len(q) : p[i] = q[i]
        /\ p[Len(q) + 1] = e
      BY <1>0, <1>4, PushedIs
  <2>2. PICK l \in Nat : l = Len(q)
      BY <1>1
  <2>3. PICK M : M = {m \in 1 .. l : q[m].of = h /\ q[m].slot = hid[h].slot}
      BY Zenon
  <2>4. M \subseteq 1 .. l /\ M = Bus(plug)!InRing(h)
      BY <1>1, <2>2, <2>3
  <2>5. Bus(plug)!InRing(h)' = M \cup (IF e.of = h /\ e.slot = hid[h].slot THEN {l + 1} ELSE {})
    <3>1. (\A i \in 1 .. l : p[i] = q[i]) /\ p[l + 1] = e
        BY <2>1, <2>2
    <3>2. {i \in 1 .. l + 1 : p[i].of = h /\ p[i].slot = hid[h].slot} =
          M \cup (IF e.of = h /\ e.slot = hid[h].slot THEN {l + 1} ELSE {})
      <4> HIDE DEF p, q
      <4> QED  BY <2>3, <3>1, MarksAppend
    <3> QED  BY <1>2, <2>1, <2>2, <3>2
  <2>6. Bus(plug)!Mine(h, c, e) <=> e.of = h /\ e.slot = hid[h].slot
      BY <1>4 DEF Bus!Mine
  <2>7. PICK a \in Int : a = armed[h]
      BY <1>0
  <2>8. Held(a, M)
      BY <2>4, <2>7
  <2>9. CASE Bus(plug)!Mine(h, c, e)
    <3>1. Held(a - 1, M \cup {l + 1})
        BY <2>4, <2>7, <2>8, <2>9, MarksMore
    <3> QED  BY Zenon, <2>5, <2>6, <2>7, <2>9, <3>1
  <2>10. CASE ~Bus(plug)!Mine(h, c, e)
    <3>1. M \cup {} = M
        OBVIOUS
    <3> QED  BY Zenon, <2>5, <2>6, <2>7, <2>8, <2>10, <3>1
  <2> QED  BY <2>9, <2>10
<1> QED  BY <1>3, <1>4

LEMMA FreshStart ==
    ASSUME NEW plug, \/ usbjob' = Bus(plug)!Idle \/ usbjob'.op \notin {"scan", "manual"} \/ usbjob'.at = 1
    PROVE  FreshJob(plug)'
BY DEF FreshJob, Bus!Idle

LEMMA SlotKept ==
    ASSUME SlotInv, slots' = slots, HidWere, \A x \in {0, 1} : EventsFrom(x)
    PROVE  SlotInv'
<1> SUFFICES ASSUME NEW c \in {0, 1}
             PROVE  /\ \A h \in Hids : hid'[h].on /\ hid'[h].ctrl = c => hid'[h].slot <= slots[c]
                    /\ \A i \in DOMAIN evq'[c] : evq'[c][i].of \in Hids => evq'[c][i].slot <= slots[c]
    BY DEF SlotInv, SlotsWithin
<1> QED  BY WithinKept DEF SlotInv

LEMMA SameEvents ==
    ASSUME evq \in [{0, 1} -> Seq(UsbEvent)], evq' = evq
    PROVE  \A x \in {0, 1} : EventsFrom(x) /\ \E k \in {0, 1} : Shifted(x, k)
<1>1. ASSUME NEW x \in {0, 1}  PROVE EventsFrom(x) /\ Shifted(x, 0)
  <2>1. evq[x] \in Seq(UsbEvent)
      OBVIOUS
  <2>2. \A i \in DOMAIN evq[x] : i + 0 = i
      BY <2>1
  <2> QED  BY <2>2 DEF EventsFrom, Shifted
<1> QED  BY <1>1

LEMMA SameHid ==
    ASSUME hid' = hid  PROVE HidWere
BY DEF HidWere

LEMMA AliveSame ==
    ASSUME NEW plug, AliveInv(plug), HidWere, armed' = armed, evq' = evq, stolen' = stolen
    PROVE  AliveInv(plug)'
<1> SUFFICES ASSUME NEW h \in Hids, hid'[h].on, Kept(h)'  PROVE Held(armed'[h], Bus(plug)!InRing(h)')
    BY DEF AliveInv, Held
<1>1. hid'[h] = hid[h] /\ Kept(h)
    BY DEF HidWere, Kept
<1>2. Bus(plug)!InRing(h)' = Bus(plug)!InRing(h)
    BY <1>1 DEF Bus!InRing, Bus!Mine
<1> QED  BY <1>1, <1>2 DEF AliveInv

\* From an idle driver: nothing is in flight, so what starts is safe.
LEMMA InputIdle ==
    ASSUME NEW plug, UsbTypes(plug), UsbTypes(plug)', InputInv(plug), usbjob = Bus(plug)!Idle, HidWere, slots' = slots,
           \A x \in {0, 1} : EventsFrom(x) /\ \E k \in {0, 1} : Shifted(x, k),
           \/ usbjob' = Bus(plug)!Idle \/ usbjob'.op \notin {"scan", "manual"} \/ usbjob'.at = 1
    PROVE  CmdInv(plug)' /\ SlotInv' /\ FreshJob(plug)'
<1>1. No33'
    BY IdleNo33, ShiftedNo33 DEF InputInv
<1>2. CmdInv(plug)'
    BY <1>1 DEF No33, CmdInv
<1> QED  BY <1>2, SlotKept, FreshStart DEF InputInv

LEMMA InputPhase ==
    ASSUME NEW plug, Bus(plug)!ConstantsOK, UsbTypes(plug), UsbTypes(plug)', InputInv(plug), Bus(plug)!UsbPhase
    PROVE  InputInv(plug)'
<1>1. /\ usbjob = Bus(plug)!Idle /\ usbjob' = usbjob /\ UNCHANGED <<slots, armed, evq, stolen>> /\ HidWere
      /\ \/ usbtodo' = << >>
         \/ usbtodo' = <<1, 0>> /\ \A h \in Hids : ~hid'[h].on
         \/ \E c \in {0, 1} : usbtodo' = <<c>> /\ \A h \in Hids : ~(hid'[h].on /\ hid'[h].ctrl = c)
    BY PhaseIs DEF HidWere
<1>2. CmdInv(plug)' /\ SlotInv' /\ FreshJob(plug)'
    BY Zenon, <1>1, SameEvents, InputIdle DEF UsbTypes
<1>3. AliveInv(plug)'
    BY <1>1, AliveSame DEF InputInv
<1>4. ScanSafe(plug)'
  <2>1. usbjob' = Bus(plug)!Idle /\ Bus(plug)!Idle' = Bus(plug)!Idle
      BY <1>1 DEF Bus!Idle
  <2>2. <<1, 0>> # << >> /\ (\A x \in {0, 1} : <<x>> # << >> /\ <<x>> # <<1, 0>>) /\ \A x, y \in {0, 1} : <<x>> = <<y>> => x = y
      OBVIOUS
  <2>3. CASE usbtodo' = << >>
      BY <2>1, <2>2, <2>3 DEF ScanSafe
  <2>4. CASE usbtodo' = <<1, 0>> /\ \A h \in Hids : ~hid'[h].on
      BY <2>1, <2>2, <2>4 DEF ScanSafe
  <2>5. ASSUME NEW c \in {0, 1}, usbtodo' = <<c>>, \A h \in Hids : ~(hid'[h].on /\ hid'[h].ctrl = c)
        PROVE  ScanSafe(plug)'
      BY <2>1, <2>2, <2>5 DEF ScanSafe, NoneOn
  <2> QED  BY <1>1, <2>3, <2>4, <2>5
<1> QED  BY <1>2, <1>3, <1>4 DEF InputInv

LEMMA InputScan ==
    ASSUME NEW plug, Bus(plug)!ConstantsOK, UsbTypes(plug), UsbTypes(plug)', InputInv(plug), Bus(plug)!Scan
    PROVE  InputInv(plug)'
<1>1. usbjob = Bus(plug)!Idle /\ UNCHANGED <<slots, hid, armed, evq, stolen>> /\ HidWere
    BY ScanActIs, SameHid
<1>2. PICK c \in {0, 1} :
        /\ \/ usbtodo = <<1, 0>> /\ usbtodo' = <<0>> /\ c = 1
           \/ usbtodo = <<c>> /\ usbtodo' = << >>
        /\ \/ usbjob' = Bus(plug)!Idle
           \/ UsbJobOK(plug, usbjob') /\ usbjob'.op = "scan" /\ usbjob'.ctrl = c /\ usbjob'.at = 1 /\ ~usbjob'.sent
    BY ScanActIs
<1>3. CmdInv(plug)' /\ SlotInv' /\ FreshJob(plug)'
    BY Zenon, <1>1, <1>2, SameEvents, InputIdle DEF UsbTypes
<1>4. AliveInv(plug)'
    BY <1>1, AliveSame DEF InputInv
<1>5. ScanSafe(plug)'
  <2>1. Bus(plug)!Idle' = Bus(plug)!Idle
      BY DEF Bus!Idle
  <2>2. <<1, 0>> # << >> /\ (\A x \in {0, 1} : <<x>> # << >> /\ <<x>> # <<1, 0>>) /\ \A x, y \in {0, 1} : <<x>> = <<y>> => x = y
      OBVIOUS
  <2>3. ScanSafe(plug)
      BY DEF InputInv
  <2>4. CASE usbtodo = <<1, 0>> /\ usbtodo' = <<0>> /\ c = 1
    <3>1. \A h \in Hids : ~hid'[h].on
        BY <1>1, <2>3, <2>4 DEF ScanSafe
    <3>2. ASSUME NEW x \in {0, 1}, usbtodo' = <<x>>  PROVE x = 0
      <4>1. <<x>>[1] = x /\ <<0>>[1] = 0 /\ <<x>> = <<0>>
          BY <2>4, <3>2
      <4> QED  BY <4>1
    <3> QED  BY <1>2, <2>1, <2>2, <2>4, <3>1, <3>2 DEF ScanSafe, NoneOn
  <2>5. CASE usbtodo = <<c>> /\ usbtodo' = << >>
    <3>0. NoneOn(c)
        BY <2>3, <2>5 DEF ScanSafe
    <3>1. \A h \in Hids : ~(hid'[h].on /\ hid'[h].ctrl = c)
        BY <1>1, <3>0 DEF NoneOn
    <3> QED  BY <1>2, <2>1, <2>2, <2>5, <3>1 DEF ScanSafe, NoneOn
  <2> QED  BY <1>2, <2>4, <2>5
<1> QED  BY <1>3, <1>4, <1>5 DEF InputInv

\* A ring scan is not in progress, or the controllers still to scan are the same.
LEMMA SafeNone ==
    ASSUME NEW plug, usbtodo' = << >>, \/ usbjob' = Bus(plug)!Idle \/ usbjob'.op # "scan"
    PROVE  ScanSafe(plug)'
<1>1. <<1, 0>> # << >> /\ (\A x \in {0, 1} : <<x>> # << >>) /\ Bus(plug)!Idle' = Bus(plug)!Idle
    BY DEF Bus!Idle
<1> QED  BY <1>1 DEF ScanSafe

LEMMA InputRequest ==
    ASSUME NEW plug, Bus(plug)!ConstantsOK, UsbTypes(plug), UsbTypes(plug)', InputInv(plug),
           NEW x \in UsbOps \ {"scan"}, NEW c \in {0, 1}, NEW p, Bus(plug)!UsbRequest(x, c, p)
    PROVE  InputInv(plug)'
<1>1. /\ usbjob = Bus(plug)!Idle /\ usbtodo = << >> /\ UNCHANGED <<slots, hid, armed, evq, usbtodo, stolen>>
      /\ \/ usbjob' = Bus(plug)!Idle
         \/ usbjob'.op = x /\ usbjob'.at = 1
    BY RequestIs
<1>2. HidWere
    BY <1>1, SameHid
<1>3. CmdInv(plug)' /\ SlotInv' /\ FreshJob(plug)'
    BY Zenon, <1>1, <1>2, SameEvents, InputIdle DEF UsbTypes
<1>4. AliveInv(plug)'
    BY <1>1, <1>2, AliveSame DEF InputInv
<1>5. ScanSafe(plug)'
    BY <1>1, SafeNone
<1> QED  BY <1>3, <1>4, <1>5 DEF InputInv

LEMMA InputStop ==
    ASSUME NEW plug, Bus(plug)!ConstantsOK, UsbTypes(plug), UsbTypes(plug)', InputInv(plug), Bus(plug)!rp1usb_cam_stop
    PROVE  InputInv(plug)'
<1>1. /\ usbjob = Bus(plug)!Idle /\ usbtodo = << >> /\ UNCHANGED <<slots, hid, armed, evq, usbtodo, stolen>>
      /\ usbjob'.op = "ctrl"
    BY StopIs
<1>2. HidWere
    BY <1>1, SameHid
<1>3. CmdInv(plug)' /\ SlotInv' /\ FreshJob(plug)'
    BY Zenon, <1>1, <1>2, SameEvents, InputIdle DEF UsbTypes
<1>4. AliveInv(plug)'
    BY <1>1, <1>2, AliveSame DEF InputInv
<1>5. ScanSafe(plug)'
    BY <1>1, SafeNone
<1> QED  BY <1>3, <1>4, <1>5 DEF InputInv

LEMMA InputPump ==
    ASSUME NEW plug, Bus(plug)!ConstantsOK, UsbTypes(plug), UsbTypes(plug)', InputInv(plug),
           NEW c \in {0, 1}, Bus(plug)!rp1usb_mouse_pump(c)
    PROVE  InputInv(plug)'
<1>1. /\ usbjob = Bus(plug)!Idle /\ usbtodo = << >> /\ UNCHANGED <<slots, hid, usbjob, usbtodo, stolen>> /\ Popped(c)
      /\ \A h \in Hids : armed'[h] = IF Bus(plug)!Mine(h, c, Head(evq[c])) THEN armed[h] + 1 ELSE armed[h]
    BY PumpIs DEF Popped
<1>2. HidWere
    BY <1>1, SameHid
<1>3. CmdInv(plug)' /\ SlotInv' /\ FreshJob(plug)'
    BY Zenon, <1>1, <1>2, PoppedFrom, InputIdle DEF UsbTypes
<1>4. AliveInv(plug)'
  <2>1. ASSUME NEW h \in Hids, hid'[h].on, Kept(h)'  PROVE Held(armed'[h], Bus(plug)!InRing(h)')
    <3>1. hid[h].on /\ hid'[h] = hid[h] /\ Held(armed[h], Bus(plug)!InRing(h))
        BY <1>1, <2>1 DEF InputInv, AliveInv, Kept
    <3> QED  BY <1>1, <3>1, AlivePopped
  <2> QED  BY <2>1 DEF AliveInv, Held
<1>5. ScanSafe(plug)'
    BY <1>1, SafeNone
<1> QED  BY <1>3, <1>4, <1>5 DEF InputInv

\* The mouse and the keyboard while a wait consumes an event of a ring: what it takes
\* of a bound device is counted as taken, and a boot scan takes nothing of one.
LEMMA AliveConsumed ==
    ASSUME NEW plug, Bus(plug)!ConstantsOK, UsbTypes(plug), UsbTypes(plug)', InputInv(plug), usbjob # Bus(plug)!Idle,
           evq[usbjob.ctrl] # << >>, Bus(plug)!Consume,
           NEW h \in Hids, hid[h].on, hid'[h] = hid[h], armed'[h] = armed[h], Kept(h)'
    PROVE  Held(armed'[h], Bus(plug)!InRing(h)')
<1>1. /\ usbjob.ctrl \in {0, 1} /\ usbjob.op \in UsbOps /\ Popped(usbjob.ctrl) /\ stolen \subseteq stolen'
      /\ Bus(plug)!Mine(h, usbjob.ctrl, Head(evq[usbjob.ctrl])) => <<h, usbjob.op>> \in stolen'
    BY JobIs, ConsumeIs DEF Popped
<1>2. Kept(h) /\ Held(armed[h], Bus(plug)!InRing(h))
    BY <1>1 DEF Kept, InputInv, AliveInv
<1>3. ~Bus(plug)!Mine(h, usbjob.ctrl, Head(evq[usbjob.ctrl]))
  <2>1. CASE usbjob.op = "scan"
      BY <2>1 DEF InputInv, ScanSafe, NoneOn, Bus!Mine
  <2>2. CASE usbjob.op # "scan"
      BY <1>1, <2>2 DEF Kept
  <2> QED  BY <2>1, <2>2
<1> QED  BY <1>1, <1>2, <1>3, AlivePopped

\* A wait that goes on: the event it dropped.
LEMMA InputDropped ==
    ASSUME NEW plug, Bus(plug)!ConstantsOK, UsbTypes(plug), UsbTypes(plug)', InputInv(plug), Bus(plug)!EventDropped
    PROVE  InputInv(plug)'
<1>1. /\ usbjob # Bus(plug)!Idle /\ evq[usbjob.ctrl] # << >> /\ Bus(plug)!Consume
      /\ UNCHANGED <<slots, hid, armed, usbjob, usbtodo>>
    BY DroppedIs
<1>2. usbjob.ctrl \in {0, 1} /\ Popped(usbjob.ctrl) /\ HidWere
    BY <1>1, JobIs, ConsumeIs, SameHid DEF Popped
<1>3. \A x \in {0, 1} : EventsFrom(x) /\ \E k \in {0, 1} : Shifted(x, k)
    BY Zenon, <1>2, PoppedFrom DEF UsbTypes
<1>4. CmdInv(plug)' /\ SlotInv'
    BY Zenon, <1>1, <1>2, <1>3, CmdKept, SlotKept DEF InputInv, UsbTypes
<1>5. FreshJob(plug)'
  <2>1. CASE usbjob.at > 1
    <3>1. slots \in [{0, 1} -> Nat]
        BY DEF UsbTypes
    <3>2. slots'[usbjob.ctrl] >= slots[usbjob.ctrl]
        BY <1>1, <1>2, <3>1
    <3> QED  BY <1>1, <1>2, <1>3, <2>1, <3>1, <3>2, FreshKept DEF InputInv
  <2>2. CASE ~(usbjob.at > 1)
      BY <1>1, <2>2 DEF FreshJob
  <2> QED  BY <2>1, <2>2
<1>6. AliveInv(plug)'
  <2>1. ASSUME NEW h \in Hids, hid'[h].on, Kept(h)'  PROVE Held(armed'[h], Bus(plug)!InRing(h)')
      BY <1>1, <2>1, AliveConsumed
  <2> QED  BY <2>1 DEF AliveInv, Held
<1>7. ScanSafe(plug)'
    BY <1>1 DEF InputInv, ScanSafe, NoneOn, Bus!Idle
<1> QED  BY <1>4, <1>5, <1>6, <1>7 DEF InputInv

\* A report, and a packet of the camera.
LEMMA InputPushed ==
    ASSUME NEW plug, Bus(plug)!ConstantsOK, UsbTypes(plug), UsbTypes(plug)', InputInv(plug),
           UNCHANGED <<slots, hid, usbjob, usbtodo, stolen>>, NEW c \in {0, 1}, NEW e \in UsbEvent, Pushed(c, e), e.type # 33,
           e.of \notin Hids \/ \E h \in Hids : hid[h].on /\ hid[h].ctrl = c /\ hid[h].slot = e.slot,
           \A h \in Hids : hid[h].on =>
              IF Bus(plug)!Mine(h, c, e) THEN armed[h] > 0 /\ armed'[h] = armed[h] - 1 ELSE armed'[h] = armed[h]
    PROVE  InputInv(plug)'
<1>1. HidWere
    BY SameHid
<1>2. \A x \in {0, 1} : EventsFrom(x) /\ Shifted(x, 0)
    BY SMTT(40), PushedFrom DEF UsbTypes
<1>3. \A x \in {0, 1} : EventsFrom(x) /\ \E k \in {0, 1} : Shifted(x, k)
    BY <1>2
<1>4. CmdInv(plug)' /\ SlotInv'
    BY Zenon, <1>1, <1>3, CmdKept, SlotKept DEF InputInv, UsbTypes
<1>5. FreshJob(plug)'
  <2>1. CASE usbjob # Bus(plug)!Idle /\ usbjob.at > 1
    <3>1. slots \in [{0, 1} -> Nat] /\ usbjob.ctrl \in {0, 1}
        BY Zenon, <2>1, JobIs DEF UsbTypes
    <3>2. slots'[usbjob.ctrl] >= slots[usbjob.ctrl]
        BY <3>1
    <3> QED  BY <1>1, <1>2, <2>1, <3>1, <3>2, FreshKept DEF InputInv
  <2>2. CASE ~(usbjob # Bus(plug)!Idle /\ usbjob.at > 1)
      BY <2>2 DEF FreshJob, Bus!Idle
  <2> QED  BY <2>1, <2>2
<1>6. AliveInv(plug)'
  <2>1. ASSUME NEW h \in Hids, hid'[h].on, Kept(h)'  PROVE Held(armed'[h], Bus(plug)!InRing(h)')
    <3>1. hid[h].on /\ hid'[h] = hid[h] /\ Held(armed[h], Bus(plug)!InRing(h))
        BY <2>1 DEF InputInv, AliveInv, Kept
    <3>2. IF Bus(plug)!Mine(h, c, e) THEN armed[h] > 0 /\ armed'[h] = armed[h] - 1 ELSE armed'[h] = armed[h]
        BY <3>1
    <3> QED  BY <3>1, <3>2, AlivePushed
  <2> QED  BY <2>1 DEF AliveInv, Held
<1>7. ScanSafe(plug)'
    BY DEF InputInv, ScanSafe, NoneOn, Bus!Idle
<1> QED  BY <1>4, <1>5, <1>6, <1>7 DEF InputInv

LEMMA InputReport ==
    ASSUME NEW plug, Bus(plug)!ConstantsOK, UsbTypes(plug), UsbTypes(plug)', InputInv(plug), NEW h \in Hids, Bus(plug)!Report(h)
    PROVE  InputInv(plug)'
<1>1. /\ hid[h].on /\ armed[h] > 0 /\ UNCHANGED <<slots, hid, usbjob, usbtodo, stolen>>
      /\ \A x \in Hids : armed'[x] = IF x = h THEN armed[h] - 1 ELSE armed[x]
    BY ReportIs
<1>2. PICK e \in UsbEvent : e.of = h /\ e.type = 32 /\ e.slot = hid[h].slot /\ Bus(plug)!Push(hid[h].ctrl, e)
    BY ReportIs
<1>3. hid[h].ctrl \in {0, 1} /\ evq \in [{0, 1} -> Seq(UsbEvent)]
    BY Zenon, HidIs DEF UsbTypes
<1>4. Pushed(hid[h].ctrl, e)
    BY Zenon, <1>2, <1>3, PushTypes DEF Pushed
<1>5. \A x \in Hids : Bus(plug)!Mine(x, hid[h].ctrl, e) <=> x = h
    BY <1>1, <1>2 DEF Bus!Mine
<1>6. e.type # 33 /\ \E x \in Hids : hid[x].on /\ hid[x].ctrl = hid[h].ctrl /\ hid[x].slot = e.slot
    BY <1>1, <1>2
<1>7. \A x \in Hids : hid[x].on =>
         IF Bus(plug)!Mine(x, hid[h].ctrl, e) THEN armed[x] > 0 /\ armed'[x] = armed[x] - 1 ELSE armed'[x] = armed[x]
    BY <1>1, <1>5
<1> QED  BY <1>1, <1>3, <1>4, <1>6, <1>7, InputPushed

LEMMA InputPacket ==
    ASSUME NEW plug, Bus(plug)!ConstantsOK, UsbTypes(plug), UsbTypes(plug)', InputInv(plug), Bus(plug)!Packet
    PROVE  InputInv(plug)'
<1>1. UNCHANGED <<slots, hid, armed, usbjob, usbtodo, stolen>>
    BY PacketIs
<1>2. CASE evq' = evq
  <2>1. HidWere /\ \A x \in {0, 1} : EventsFrom(x) /\ \E k \in {0, 1} : Shifted(x, k)
      BY <1>1, <1>2, SameHid, SameEvents DEF UsbTypes
  <2>2. CmdInv(plug)' /\ SlotInv' /\ AliveInv(plug)'
      BY Zenon, <1>1, <1>2, <2>1, CmdKept, SlotKept, AliveSame DEF InputInv, UsbTypes
  <2>3. FreshJob(plug)' /\ ScanSafe(plug)'
      BY <1>1, <1>2 DEF InputInv, FreshJob, ScanSafe, NoneOn, Bus!Idle
  <2> QED  BY <2>2, <2>3 DEF InputInv
<1>3. CASE \E e \in UsbEvent : e.of = "cam" /\ Bus(plug)!Push(cam.ctrl, e)
  <2>1. PICK e \in UsbEvent : e.of = "cam" /\ Bus(plug)!Push(cam.ctrl, e)
      BY <1>3
  <2>2. cam.ctrl \in {0, 1} /\ evq \in [{0, 1} -> Seq(UsbEvent)]
      BY DEF UsbTypes, CamOK
  <2>3. Pushed(cam.ctrl, e)
      BY Zenon, <2>1, <2>2, PushTypes DEF Pushed
  <2>4. e.type # 33 /\ e.of \notin Hids
      BY <2>1 DEF UsbEvent, Hids
  <2>5. \A h \in Hids : hid[h].on =>
           IF Bus(plug)!Mine(h, cam.ctrl, e) THEN armed[h] > 0 /\ armed'[h] = armed[h] - 1 ELSE armed'[h] = armed[h]
      BY <1>1, <2>4 DEF Bus!Mine
  <2> QED  BY <1>1, <2>2, <2>3, <2>4, <2>5, InputPushed
<1> QED  BY <1>2, <1>3, PacketIs

\* The answer of the controller.
LEMMA InputComplete ==
    ASSUME NEW plug, Bus(plug)!ConstantsOK, UsbTypes(plug), UsbTypes(plug)', InputInv(plug), Bus(plug)!Complete
    PROVE  InputInv(plug)'
<1> DEFINE c == usbjob.ctrl
<1>1. /\ usbjob # Bus(plug)!Idle /\ ~usbjob.sent /\ UNCHANGED <<hid, armed, usbtodo, stolen>>
      /\ UsbJobOK(plug, usbjob') /\ usbjob'.op = usbjob.op /\ usbjob'.ctrl = usbjob.ctrl /\ usbjob'.at = usbjob.at
      /\ usbjob'.slot = usbjob.slot /\ usbjob'.sent
      /\ slots' \in [{0, 1} -> Nat] /\ \A x \in {0, 1} : slots'[x] >= slots[x]
    BY CompleteIs
<1>2. PICK e \in UsbEvent :
        /\ e.of = "job" /\ e.type = Bus(plug)!Want /\ Bus(plug)!Push(c, e)
        /\ Bus(plug)!Step = "slot" /\ e.ok => slots'[c] > slots[c]
    BY CompleteIs
<1>3. c \in {0, 1} /\ evq \in [{0, 1} -> Seq(UsbEvent)] /\ HidWere /\ slots \in [{0, 1} -> Nat]
    BY Zenon, <1>1, JobIs, SameHid DEF UsbTypes
<1>4. Pushed(c, e) /\ e.of \notin Hids
    BY Zenon, <1>2, <1>3, PushTypes DEF Pushed, Hids
<1>5. \A x \in {0, 1} : EventsFrom(x)
    BY <1>2, <1>3, <1>4, PushedFrom
<1>6. Bus(plug)!Want' = Bus(plug)!Want /\ Bus(plug)!Step' = Bus(plug)!Step /\ Bus(plug)!Idle' = Bus(plug)!Idle
    BY <1>1 DEF Bus!Want, Bus!Step, Bus!Steps, Bus!Idle
<1>7. usbjob' # Bus(plug)!Idle
    BY <1>1 DEF UsbJobOK, UsbOps, Bus!Idle
<1>8. ASSUME NEW x \in {0, 1}, NEW k \in Int, slots[x] <= k
      PROVE  SlotsWithin(x, k)'
  <2>1. SlotsWithin(x, slots[x])
      BY DEF InputInv, SlotInv
  <2>2. /\ \A h \in Hids : hid'[h].on /\ hid'[h].ctrl = x => hid'[h].slot <= slots[x]
        /\ \A i \in DOMAIN evq'[x] : evq'[x][i].of \in Hids => evq'[x][i].slot <= slots[x]
      BY <1>3, <1>5, <2>1, WithinKept
  <2>3. \A h \in Hids : hid'[h].slot \in Nat
      BY <1>1, HidIs
  <2>4. \A i \in DOMAIN evq'[x] : evq'[x][i] \in UsbEvent /\ evq'[x][i].slot \in Nat
    <3>1. evq'[x] \in Seq(UsbEvent)
        BY <1>4 DEF Pushed
    <3>2. \A y \in UsbEvent : y.slot \in Nat
        BY DEF UsbEvent
    <3> QED  BY <3>1, <3>2
  <2>5. slots[x] \in Nat
      BY <1>3
  <2>6. \A a \in Nat : a <= slots[x] => a <= k
      BY <1>8, <2>5
  <2> QED  BY <2>2, <2>3, <2>4, <2>6 DEF SlotsWithin
<1>9. SlotInv'
  <2>1. ASSUME NEW x \in {0, 1}  PROVE SlotsWithin(x, slots[x])'
    <3>1. PICK k \in Int : k = slots'[x] /\ slots[x] <= k
        BY <1>1, <1>3
    <3>2. SlotsWithin(x, k)'
        BY <1>8, <3>1
    <3> QED  BY <3>1, <3>2 DEF SlotsWithin
  <2> QED  BY <2>1 DEF SlotInv, SlotsWithin
<1>10. CmdInv(plug)'
  <2>1. No33
      BY <1>1 DEF InputInv, CmdInv, No33
  <2>2. ASSUME NEW x \in {0, 1}, NEW i \in DOMAIN evq'[x], evq'[x][i].type = 33
        PROVE  x = c /\ i = Len(evq[c]) + 1 /\ evq'[x][i] = e
    <3>1. Len(evq[x]) \in Nat /\ DOMAIN evq[x] = 1 .. Len(evq[x])
        BY <1>3, <1>4, PushedIs
    <3>2. x = c
      <4> SUFFICES ASSUME x # c  PROVE FALSE
          OBVIOUS
      <4>1. evq'[x] = evq[x]
          BY <1>3, <1>4, PushedIs
      <4> QED  BY <2>1, <2>2, <4>1 DEF No33
    <3>3. /\ DOMAIN evq'[x] = 1 .. Len(evq[x]) + 1 /\ evq'[x][Len(evq[x]) + 1] = e
          /\ \A m \in 1 .. Len(evq[x]) : evq'[x][m] = evq[x][m]
        BY ZenonT(40), <1>3, <1>4, <3>2, PushedIs
    <3>4. i \notin 1 .. Len(evq[x])
        BY <2>1, <2>2, <3>1, <3>3 DEF No33
    <3>5. PICK l \in Nat : l = Len(evq[x])
        BY <3>1
    <3>6. i = l + 1
        BY <3>3, <3>4, <3>5
    <3> QED  BY <3>2, <3>3, <3>5, <3>6
  <2>3. ASSUME NEW x \in {0, 1}, NEW i \in DOMAIN evq'[x], evq'[x][i].type = 33
        PROVE  /\ usbjob' # Bus(plug)!Idle' /\ usbjob'.ctrl = x /\ usbjob'.sent /\ Bus(plug)!Want' = 33
               /\ Bus(plug)!Step' = "slot" /\ evq'[x][i].ok => SlotsWithin(x, slots[x] - 1)'
    <3>1. x = c /\ evq'[x][i] = e
        BY <2>2, <2>3
    <3>2. ASSUME Bus(plug)!Step' = "slot", evq'[x][i].ok  PROVE SlotsWithin(x, slots[x] - 1)'
      <4>1. PICK k \in Int : k = slots'[x] - 1 /\ slots[x] <= k
          BY <1>1, <1>2, <1>3, <1>6, <3>1, <3>2
      <4>2. SlotsWithin(x, k)'
          BY <1>8, <4>1
      <4> QED  BY <4>1, <4>2 DEF SlotsWithin
    <3> QED  BY <1>1, <1>2, <1>6, <1>7, <2>3, <3>1, <3>2
  <2> HIDE DEF c
  <2>4. \A x \in {0, 1} : \A i, j \in DOMAIN evq'[x] : evq'[x][i].type = 33 /\ evq'[x][j].type = 33 => i = j
      BY <2>2
  <2> QED  BY <2>3, <2>4 DEF CmdInv, SlotsWithin
<1>11. FreshJob(plug)'
  <2>1. CASE usbjob.at > 1
    <3>1. slots'[usbjob.ctrl] >= slots[usbjob.ctrl]
        BY <1>1, <1>3
    <3> QED  BY <1>1, <1>3, <1>5, <2>1, <3>1, FreshKept DEF InputInv
  <2>2. CASE ~(usbjob.at > 1)
      BY <1>1, <2>2 DEF FreshJob
  <2> QED  BY <2>1, <2>2
<1>12. AliveInv(plug)'
  <2>1. ASSUME NEW h \in Hids, hid'[h].on, Kept(h)'  PROVE Held(armed'[h], Bus(plug)!InRing(h)')
    <3>1. hid[h].on /\ hid'[h] = hid[h] /\ armed'[h] = armed[h] /\ Held(armed[h], Bus(plug)!InRing(h))
        BY <1>1, <2>1 DEF InputInv, AliveInv, Kept
    <3>2. ~Bus(plug)!Mine(h, c, e)
        BY <1>4 DEF Bus!Mine
    <3> QED  BY <1>3, <1>4, <3>1, <3>2, AlivePushed
  <2> QED  BY <2>1 DEF AliveInv, Held
<1>13. ScanSafe(plug)'
  <2>1. ScanSafe(plug) /\ (\A x : NoneOn(x) => NoneOn(x)')
      BY <1>1 DEF InputInv, NoneOn
  <2> HIDE DEF c
  <2> QED  BY <1>1, <1>6, <1>7, <2>1 DEF ScanSafe
<1> QED  BY <1>9, <1>10, <1>11, <1>12, <1>13 DEF InputInv

\* What the wait of a step does to the rings: no command completion is left.
LEMMA AnswerRings ==
    ASSUME NEW plug, Bus(plug)!ConstantsOK, UsbTypes(plug), UsbTypes(plug)', InputInv(plug), usbjob # Bus(plug)!Idle,
           NEW ok \in BOOLEAN, Bus(plug)!Answer(ok)
    PROVE  /\ \A x \in {0, 1} : EventsFrom(x) /\ \E k \in {0, 1} : Shifted(x, k)
           /\ No33'
<1>0. usbjob.ctrl \in {0, 1} /\ evq \in [{0, 1} -> Seq(UsbEvent)] /\ CmdInv(plug)
    BY Zenon, JobIs DEF UsbTypes, InputInv
<1>1. CASE /\ evq[usbjob.ctrl] # << >> /\ Bus(plug)!Consume
           /\ Head(evq[usbjob.ctrl]).type = Bus(plug)!Want /\ ok = Head(evq[usbjob.ctrl]).ok
  <2>1. Popped(usbjob.ctrl)
      BY <1>1, ConsumeIs DEF Popped
  <2>2. \A x \in {0, 1} : EventsFrom(x) /\ \E k \in {0, 1} : Shifted(x, k)
      BY <1>0, <2>1, PoppedFrom
  <2>3. ASSUME NEW x \in {0, 1}, NEW i \in DOMAIN evq'[x], evq'[x][i].type = 33  PROVE FALSE
    <3>1. PICK k \in {0, 1} : Shifted(x, k)
        BY <2>2
    <3>2. i + k \in DOMAIN evq[x] /\ evq[x][i + k].type = 33
        BY <2>3, <3>1 DEF Shifted
    <3>3. x = usbjob.ctrl /\ Bus(plug)!Want = 33
        BY <1>0, <3>2 DEF CmdInv
    <3>4. /\ 1 \in DOMAIN evq[x] /\ evq[x][1].type = 33 /\ DOMAIN evq'[x] = 1 .. Len(evq[x]) - 1 /\ Len(evq[x]) \in Nat
          /\ i + 1 \in DOMAIN evq[x] /\ evq'[x][i] = evq[x][i + 1]
        BY Zenon, <1>0, <1>1, <2>1, <2>3, <3>3, PoppedIs
    <3>5. i + 1 = 1
        BY <1>0, <2>3, <3>4 DEF CmdInv
    <3>6. i \in Int /\ i >= 1
        BY <3>4
    <3> QED  BY <3>5, <3>6
  <2> QED  BY <2>2, <2>3 DEF No33
<1>2. CASE evq[usbjob.ctrl] = << >> /\ evq' = evq
  <2>1. DOMAIN evq[usbjob.ctrl] = {}
      BY <1>2
  <2>2. ASSUME NEW x \in {0, 1}, NEW i \in DOMAIN evq[x], evq[x][i].type = 33  PROVE FALSE
      BY <1>0, <2>1, <2>2 DEF CmdInv
  <2>3. No33'
      BY <1>2, <2>2 DEF No33
  <2> QED  BY <1>0, <1>2, <2>3, SameEvents
<1> QED  BY Zenon, <1>1, <1>2, AnswerIs

\* A bound device the step does not touch.
LEMMA AliveAnswered ==
    ASSUME NEW plug, Bus(plug)!ConstantsOK, UsbTypes(plug), UsbTypes(plug)', InputInv(plug), usbjob # Bus(plug)!Idle,
           NEW ok \in BOOLEAN, Bus(plug)!Answer(ok), NEW h \in Hids, hid[h].on, hid'[h] = hid[h], armed'[h] = armed[h], Kept(h)'
    PROVE  Held(armed'[h], Bus(plug)!InRing(h)')
<1>1. CASE /\ evq[usbjob.ctrl] # << >> /\ Bus(plug)!Consume
    BY <1>1, AliveConsumed
<1>2. CASE evq' = evq /\ stolen' = stolen
  <2>1. Held(armed[h], Bus(plug)!InRing(h))
      BY <1>2 DEF InputInv, AliveInv, Kept
  <2>2. Bus(plug)!InRing(h)' = Bus(plug)!InRing(h)
      BY <1>2 DEF Bus!InRing, Bus!Mine
  <2> QED  BY <2>1, <2>2
<1> QED  BY Zenon, <1>1, <1>2, AnswerIs

\* The slot of the device being bound after a step that is not the last.
LEMMA FreshAdvanced ==
    ASSUME NEW plug, Bus(plug)!ConstantsOK, UsbTypes(plug), UsbTypes(plug)', InputInv(plug), usbjob # Bus(plug)!Idle,
           NEW ok \in BOOLEAN, Bus(plug)!Answer(ok), ~Bus(plug)!Abandons(ok), usbjob.at # Len(Bus(plug)!Steps[usbjob.op]),
           usbjob' = Advanced(plug, ok), UNCHANGED <<slots, hid>>
    PROVE  FreshJob(plug)'
<1>1. /\ UsbJobOK(plug, usbjob) /\ usbjob.ctrl \in {0, 1} /\ evq \in [{0, 1} -> Seq(UsbEvent)] /\ HidWere
      /\ slots \in [{0, 1} -> Nat] /\ usbjob.at \in 1 .. Len(Bus(plug)!Steps[usbjob.op]) /\ usbjob.op \in UsbOps
    BY JobIs, SameHid DEF UsbTypes, UsbJobOK
<1>2. /\ usbjob'.op = usbjob.op /\ usbjob'.ctrl = usbjob.ctrl /\ usbjob'.at = usbjob.at + 1
      /\ usbjob'.slot = IF Bus(plug)!Step = "slot" THEN slots[usbjob.ctrl] ELSE usbjob.slot
    BY Zenon, <1>1, AdvancedIs
<1>3. \A x \in {0, 1} : EventsFrom(x)
    BY AnswerRings
<1>4. CASE usbjob.op \notin {"scan", "manual"}
    BY <1>2, <1>4, FreshStart
<1>5. CASE usbjob.op \in {"scan", "manual"} /\ usbjob.at = 1
  <2>1. Bus(plug)!Step = "slot"
      BY <1>5, StepsAre DEF Bus!Step
  <2>2. ok
      BY <2>1 DEF Bus!Abandons
  <2>3. evq[usbjob.ctrl] # << >> /\ Head(evq[usbjob.ctrl]).type = 33 /\ Head(evq[usbjob.ctrl]).ok
      BY Zenon, <2>1, <2>2, AnswerIs DEF Bus!Want
  <2>4. Head(evq[usbjob.ctrl]) = evq[usbjob.ctrl][1] /\ 1 \in DOMAIN evq[usbjob.ctrl]
    <3>1. PICK q \in Seq(UsbEvent) : q = evq[usbjob.ctrl] /\ q # << >>
        BY <1>1, <2>3
    <3>2. Head(q) = q[1] /\ Len(q) \in Nat \ {0} /\ DOMAIN q = 1 .. Len(q)
        BY <3>1, RingTail
    <3>3. 1 \in DOMAIN q
        BY <3>2
    <3> QED  BY <3>1, <3>2, <3>3
  <2>5. SlotsWithin(usbjob.ctrl, slots[usbjob.ctrl] - 1)
      BY <1>1, <2>1, <2>3, <2>4 DEF InputInv, CmdInv
  <2>6. /\ \A h \in Hids : hid'[h].on /\ hid'[h].ctrl = usbjob.ctrl => hid'[h].slot <= slots[usbjob.ctrl] - 1
        /\ \A i \in DOMAIN evq'[usbjob.ctrl] :
              evq'[usbjob.ctrl][i].of \in Hids => evq'[usbjob.ctrl][i].slot <= slots[usbjob.ctrl] - 1
      BY <1>1, <1>3, <2>5, WithinKept
  <2>7. PICK k \in Nat : k = slots[usbjob.ctrl]
      BY <1>1
  <2>8. ~(k <= k - 1) /\ k <= k
      OBVIOUS
  <2>9. /\ \A h \in Hids : hid'[h].on /\ hid'[h].ctrl = usbjob.ctrl => hid'[h].slot # k
        /\ \A i \in DOMAIN evq'[usbjob.ctrl] : evq'[usbjob.ctrl][i].of \in Hids => evq'[usbjob.ctrl][i].slot # k
    <3>1. k - 1 = slots[usbjob.ctrl] - 1
        BY <2>7
    <3> QED  BY <2>6, <2>7, <2>8
  <2>10. usbjob'.slot = k /\ slots'[usbjob'.ctrl] = k /\ usbjob'.ctrl = usbjob.ctrl
      BY <1>2, <2>1, <2>7
  <2> QED  BY <2>8, <2>9, <2>10 DEF FreshJob
<1>6. CASE usbjob.op \in {"scan", "manual"} /\ usbjob.at # 1
  <2>1. usbjob.at > 1 /\ usbjob.at \in 2 .. 7
    <3>1. Len(Bus(plug)!Steps[usbjob.op]) = 7
        BY <1>6, StepsAre
    <3>2. usbjob.at \in 1 .. 7
        BY <1>1, <3>1
    <3> QED  BY <1>6, <3>2
  <2>2. Bus(plug)!Step # "slot"
    <3>1. PICK t : t = Bus(plug)!Steps[usbjob.op]
        OBVIOUS
    <3>2. /\ t[2] = "address" /\ t[3] = "desc" /\ t[4] = "setcfg"
          /\ t[5] = "cfgep" /\ t[6] = "idle" /\ t[7] = "proto"
        BY <1>6, <3>1, StepsAre
    <3>3. t[usbjob.at] # "slot"
        BY <2>1, <3>2
    <3> QED  BY <3>1, <3>3 DEF Bus!Step
  <2>3. slots'[usbjob.ctrl] >= slots[usbjob.ctrl] /\ slots' \in [{0, 1} -> Nat]
      BY <1>1
  <2> QED  BY <1>1, <1>2, <1>3, <2>1, <2>2, <2>3, FreshKept DEF InputInv
<1> QED  BY <1>4, <1>5, <1>6

\* The job moves on, or ends, or the next port begins, and the devices stay.
LEMMA InputMoves ==
    ASSUME NEW plug, Bus(plug)!ConstantsOK, UsbTypes(plug), UsbTypes(plug)', InputInv(plug), usbjob # Bus(plug)!Idle,
           NEW ok \in BOOLEAN, Bus(plug)!Answer(ok), UNCHANGED <<slots, hid, armed, usbtodo>>,
           usbjob' = Bus(plug)!Idle \/ (usbjob'.op = usbjob.op /\ (usbjob.op = "scan" => usbjob'.ctrl = usbjob.ctrl)),
           FreshJob(plug)'
    PROVE  InputInv(plug)'
<1>1. HidWere /\ \A x \in {0, 1} : EventsFrom(x)
    BY SameHid, AnswerRings
<1>2. CmdInv(plug)'
    BY AnswerRings DEF No33, CmdInv
<1>3. SlotInv'
    BY <1>1, SlotKept DEF InputInv
<1>4. AliveInv(plug)'
  <2>1. ASSUME NEW h \in Hids, hid'[h].on, Kept(h)'  PROVE Held(armed'[h], Bus(plug)!InRing(h)')
      BY <2>1, AliveAnswered
  <2> QED  BY <2>1 DEF AliveInv, Held
<1>5. ScanSafe(plug)'
  <2>1. ScanSafe(plug) /\ (\A x : NoneOn(x) => NoneOn(x)') /\ Bus(plug)!Idle' = Bus(plug)!Idle
      BY DEF InputInv, NoneOn, Bus!Idle
  <2> QED  BY <2>1 DEF ScanSafe
<1> QED  BY <1>2, <1>3, <1>4, <1>5 DEF InputInv

\* The device is bound.
LEMMA InputBind ==
    ASSUME NEW plug, Bus(plug)!ConstantsOK, UsbTypes(plug), UsbTypes(plug)', InputInv(plug), usbjob # Bus(plug)!Idle,
           NEW ok \in BOOLEAN, Bus(plug)!Answer(ok), UNCHANGED <<slots, usbtodo>>,
           usbjob.op \in {"scan", "manual"}, usbjob.at = Len(Bus(plug)!Steps[usbjob.op]),
           usbjob' = Bus(plug)!Idle, Bus(plug)!Bind(Bus(plug)!Found)
    PROVE  InputInv(plug)'
<1> DEFINE c == usbjob.ctrl
           r == [on |-> TRUE, ctrl |-> usbjob.ctrl, slot |-> usbjob.slot]
<1>1. /\ UsbJobOK(plug, usbjob) /\ c \in {0, 1} /\ usbjob.at > 1 /\ usbjob.slot \in Nat
  <2>1. Len(Bus(plug)!Steps[usbjob.op]) = 7
      BY StepsAre
  <2> QED  BY <2>1, JobIs DEF UsbJobOK
<1>2. \A h \in Hids : IF h = Bus(plug)!Found THEN hid'[h] = r /\ armed'[h] = 2
                                            ELSE hid'[h] = hid[h] /\ armed'[h] = armed[h]
    BY Zenon, <1>1, BindIs
<1>3. /\ usbjob.slot <= slots[c]
      /\ \A i \in DOMAIN evq[c] : evq[c][i].of \in Hids => evq[c][i].slot # usbjob.slot
    BY <1>1 DEF InputInv, FreshJob
<1>4. \A x \in {0, 1} : EventsFrom(x)
    BY AnswerRings
<1>5. r.on /\ r.ctrl = c /\ r.slot = usbjob.slot
    OBVIOUS
<1> HIDE DEF r
<1>6. CmdInv(plug)'
    BY AnswerRings DEF No33, CmdInv
<1>7. SlotInv'
  <2>1. ASSUME NEW x \in {0, 1}
        PROVE  /\ \A h \in Hids : hid'[h].on /\ hid'[h].ctrl = x => hid'[h].slot <= slots[x]
               /\ \A i \in DOMAIN evq'[x] : evq'[x][i].of \in Hids => evq'[x][i].slot <= slots[x]
    <3>1. SlotsWithin(x, slots[x])
        BY DEF InputInv, SlotInv
    <3>2. \A h \in Hids : hid'[h].on /\ hid'[h].ctrl = x => hid'[h].slot <= slots[x]
        BY <1>2, <1>3, <1>5, <3>1 DEF SlotsWithin
    <3>3. \A i \in DOMAIN evq'[x] : evq'[x][i].of \in Hids => evq'[x][i].slot <= slots[x]
        BY <1>4, <3>1 DEF EventsFrom, SlotsWithin
    <3> QED  BY <3>2, <3>3
  <2> QED  BY <2>1 DEF SlotInv, SlotsWithin
<1>8. FreshJob(plug)'
    BY FreshStart
<1>9. AliveInv(plug)'
  <2>1. ASSUME NEW h \in Hids, hid'[h].on, Kept(h)'  PROVE Held(armed'[h], Bus(plug)!InRing(h)')
    <3>1. CASE h # Bus(plug)!Found
        BY <1>2, <2>1, <3>1, AliveAnswered
    <3>2. CASE h = Bus(plug)!Found
      <4>1. hid'[h] = r /\ armed'[h] = 2
          BY <1>2, <3>2
      <4>2. \A i \in DOMAIN evq'[c] : ~(evq'[c][i].of = h /\ evq'[c][i].slot = usbjob.slot)
        <5>1. ASSUME NEW i \in DOMAIN evq'[c], evq'[c][i].of = h, evq'[c][i].slot = usbjob.slot  PROVE FALSE
          <6>1. CASE \E j \in DOMAIN evq[c] : evq'[c][i] = evq[c][j]
              BY <1>3, <5>1, <6>1
          <6>2. CASE \E y \in Hids : hid[y].on /\ hid[y].ctrl = c /\ hid[y].slot = evq'[c][i].slot
              BY <1>1, <5>1, <6>2 DEF InputInv, FreshJob
          <6> QED  BY <1>1, <1>4, <5>1, <6>1, <6>2 DEF EventsFrom
        <5> QED  BY <5>1
      <4>3. Bus(plug)!InRing(h)' = {}
          BY <1>5, <4>1, <4>2 DEF Bus!InRing, Bus!Mine
      <4> QED  BY <4>1, <4>3 DEF Held
    <3> QED  BY <3>1, <3>2
  <2> QED  BY <2>1 DEF AliveInv, Held
<1>10. ScanSafe(plug)'
  <2>1. ScanSafe(plug) /\ Bus(plug)!Idle' = Bus(plug)!Idle
      BY DEF InputInv, Bus!Idle
  <2>2. ASSUME NEW x \in {0, 1}, usbtodo = <<x>>  PROVE NoneOn(x)'
    <3>1. NoneOn(x) /\ c # x
        BY <2>1, <2>2 DEF ScanSafe
    <3> QED  BY <1>2, <1>5, <3>1 DEF NoneOn
  <2>3. usbtodo # <<1, 0>>
      BY <2>1 DEF ScanSafe
  <2> QED  BY <2>1, <2>2, <2>3 DEF ScanSafe
<1> QED  BY <1>6, <1>7, <1>8, <1>9, <1>10 DEF InputInv

LEMMA InputStep ==
    ASSUME NEW plug, Bus(plug)!ConstantsOK, UsbTypes(plug), UsbTypes(plug)', InputInv(plug), Bus(plug)!rp1usb_step
    PROVE  InputInv(plug)'
<1>1. usbjob # Bus(plug)!Idle /\ UNCHANGED <<slots, usbtodo>>
    BY StepIs
<1>2. PICK ok \in BOOLEAN : Bus(plug)!Answer(ok) /\ StepCase(plug, ok)
    BY StepIs
<1>3. UsbJobOK(plug, usbjob)
    BY <1>1, JobIs
<1>4. CASE usbjob' = Bus(plug)!NextPort /\ UNCHANGED <<hid, armed, cam>>
  <2>1. \/ usbjob' = Bus(plug)!Idle
        \/ usbjob'.at = 1 /\ usbjob'.op = usbjob.op /\ (usbjob.op = "scan" => usbjob'.ctrl = usbjob.ctrl)
      BY <1>3, <1>4, NextPortIs
  <2>2. FreshJob(plug)'
      BY <2>1, FreshStart
  <2> QED  BY <1>1, <1>2, <1>4, <2>1, <2>2, InputMoves
<1>5. CASE /\ ~Bus(plug)!Abandons(ok) /\ usbjob.at # Len(Bus(plug)!Steps[usbjob.op])
           /\ usbjob' = Advanced(plug, ok) /\ UNCHANGED <<hid, armed, cam>>
  <2>1. usbjob'.op = usbjob.op /\ usbjob'.ctrl = usbjob.ctrl
      BY Zenon, <1>3, <1>5, AdvancedIs
  <2>2. FreshJob(plug)'
      BY <1>1, <1>2, <1>5, FreshAdvanced
  <2> QED  BY <1>1, <1>2, <1>5, <2>1, <2>2, InputMoves
<1>6. CASE /\ usbjob.op \in {"scan", "manual"} /\ usbjob.at = Len(Bus(plug)!Steps[usbjob.op])
           /\ usbjob' = Bus(plug)!Idle /\ Bus(plug)!Bind(Bus(plug)!Found) /\ UNCHANGED cam
    BY <1>1, <1>2, <1>6, InputBind
<1>7. CASE usbjob' = Bus(plug)!Idle /\ UNCHANGED <<hid, armed>>
  <2>1. FreshJob(plug)'
      BY <1>7, FreshStart
  <2> QED  BY <1>1, <1>2, <1>7, <2>1, InputMoves
<1> QED  BY <1>2, <1>4, <1>5, <1>6, <1>7 DEF StepCase

LEMMA InputNext ==
    ASSUME NEW plug, Bus(plug)!ConstantsOK, UsbTypes(plug), InputInv(plug), Bus(plug)!Next
    PROVE  InputInv(plug)'
<1>1. UsbTypes(plug)'
    BY TypesNext
<1>2. CASE Bus(plug)!UsbPhase
    BY <1>1, <1>2, InputPhase
<1>3. CASE Bus(plug)!Scan
    BY <1>1, <1>3, InputScan
<1>4. CASE Bus(plug)!Complete
    BY <1>1, <1>4, InputComplete
<1>5. CASE Bus(plug)!EventDropped
    BY <1>1, <1>5, InputDropped
<1>6. CASE Bus(plug)!rp1usb_step
    BY <1>1, <1>6, InputStep
<1>7. CASE Bus(plug)!rp1usb_cam_stop
    BY <1>1, <1>7, InputStop
<1>8. CASE Bus(plug)!Packet
    BY <1>1, <1>8, InputPacket
<1>9. ASSUME NEW h \in Hids, Bus(plug)!Report(h)  PROVE InputInv(plug)'
    BY <1>1, <1>9, InputReport
<1>10. ASSUME NEW c \in {0, 1}, Bus(plug)!rp1usb_mouse_pump(c)  PROVE InputInv(plug)'
    BY <1>1, <1>10, InputPump
<1>11. ASSUME NEW c \in {0, 1}, NEW x \in UsbOps \ {"scan"}, NEW p, Bus(plug)!UsbRequest(x, c, p)  PROVE InputInv(plug)'
    BY <1>1, <1>11, InputRequest
<1> QED  BY <1>2, <1>3, <1>4, <1>5, <1>6, <1>7, <1>8, <1>9, <1>10, <1>11, BusIs DEF Bus!Next

LEMMA InputInit ==
    ASSUME NEW plug, Bus(plug)!ConstantsOK, Bus(plug)!Init
    PROVE  InputInv(plug)
<1>1. /\ usbjob = Bus(plug)!Idle /\ usbtodo = << >> /\ \A c \in {0, 1} : evq[c] = << >> /\ DOMAIN evq[c] = {}
      /\ \A h \in Hids : ~hid[h].on
    BY BusIs DEF Bus!Init, Bus!Off
<1>2. <<1, 0>> # << >> /\ \A x \in {0, 1} : <<x>> # << >>
    OBVIOUS
<1>3. ScanSafe(plug)
    BY <1>1, <1>2 DEF ScanSafe
<1>4. CmdInv(plug) /\ SlotInv /\ FreshJob(plug) /\ AliveInv(plug)
    BY <1>1 DEF CmdInv, SlotInv, SlotsWithin, FreshJob, AliveInv
<1> QED  BY <1>3, <1>4 DEF InputInv

LEMMA InputWorks ==
    ASSUME NEW plug, Bus(plug)!ConstantsOK, InputInv(plug)
    PROVE  Bus(plug)!InputAlive
BY BusIs DEF InputInv, AliveInv, Held, Kept, Bus!InputAlive

-----------------------------------------------------------------------------
(* The camera: packets in the ring, packets lost, the frame being filled.  *)

\* The packets of the camera in the order it sends them.
Packets == Nat \X (1 .. PKTS)
Before(x, y) == x[1] < y[1] \/ (x[1] = y[1] /\ x[2] < y[2])

\* Packets S are in the ring, M (at most one) is the last of the frame being filled
\* and nx the next the camera sends; what lies between any of them and nx is in the
\* ring or one of the l packets that were lost.
Gapless(S, M, nx, l) ==
    /\ S \subseteq Packets /\ M \subseteq Packets
    /\ \A y \in S \cup M : Before(y, nx)
    /\ \A y \in M, x \in S : Before(y, x)
    /\ \E T : /\ IsFiniteSet(T) /\ Cardinality(T) <= l
              /\ \A y \in S \cup M, x \in Packets : Before(y, x) /\ Before(x, nx) => x \in T \/ x \in S

LEMMA PacketOrder ==
    ASSUME NEW x \in Packets, NEW y \in Packets
    PROVE  /\ x[1] \in Nat /\ x[2] \in 1 .. PKTS /\ ~Before(x, x)
           /\ Before(x, y) \/ x = y \/ Before(y, x)
           /\ \A z \in Packets : Before(x, y) /\ Before(y, z) => Before(x, z)
           /\ ~(Before(x, y) /\ Before(y, x))
BY DEF Packets, Before

\* The successor of a packet.
LEMMA PacketNext ==
    ASSUME PKTS \in Nat \ {0}, NEW x \in Packets
    PROVE  /\ NextPacket(x) \in Packets /\ Before(x, NextPacket(x))
           /\ \A y \in Packets : Before(y, NextPacket(x)) => Before(y, x) \/ y = x
<1>1. x[1] \in Nat /\ x[2] \in 1 .. PKTS
    BY DEF Packets
<1>2. CASE x[2] = PKTS
  <2>1. NextPacket(x) = <<x[1] + 1, 1>>
      BY <1>2 DEF NextPacket
  <2>2. ASSUME NEW y \in Packets, Before(y, NextPacket(x))  PROVE Before(y, x) \/ y = x
    <3>1. y[1] \in Nat /\ y[2] \in 1 .. PKTS /\ y = <<y[1], y[2]>> /\ x = <<x[1], x[2]>>
        BY DEF Packets
    <3>2. y[1] < x[1] + 1 \/ (y[1] = x[1] + 1 /\ y[2] < 1)
        BY <2>1, <2>2 DEF Before
    <3>3. y[1] < x[1] \/ (y[1] = x[1] /\ y[2] < x[2]) \/ (y[1] = x[1] /\ y[2] = x[2])
        BY <1>1, <1>2, <3>1, <3>2
    <3> QED  BY <3>1, <3>3 DEF Before
  <2> QED  BY <1>1, <2>1, <2>2 DEF Packets, Before
<1>3. CASE x[2] # PKTS
  <2>1. NextPacket(x) = <<x[1], x[2] + 1>>
      BY <1>3 DEF NextPacket
  <2>2. ASSUME NEW y \in Packets, Before(y, NextPacket(x))  PROVE Before(y, x) \/ y = x
    <3>1. y[1] \in Nat /\ y[2] \in 1 .. PKTS /\ y = <<y[1], y[2]>> /\ x = <<x[1], x[2]>>
        BY DEF Packets
    <3>2. y[1] < x[1] \/ (y[1] = x[1] /\ y[2] < x[2] + 1)
        BY <2>1, <2>2 DEF Before
    <3>3. y[1] < x[1] \/ (y[1] = x[1] /\ y[2] < x[2]) \/ (y[1] = x[1] /\ y[2] = x[2])
        BY <1>1, <3>1, <3>2
    <3> QED  BY <3>1, <3>3 DEF Before
  <2> QED  BY <1>1, <1>3, <2>1, <2>2 DEF Packets, Before
<1> QED  BY <1>2, <1>3

\* Nothing is being filled.
LEMMA GapNone ==
    ASSUME NEW S, NEW M, NEW nx, NEW l, Gapless(S, M, nx, l)
    PROVE  Gapless(S, {}, nx, l)
BY DEF Gapless

\* The first packet of the ring is taken into the frame.
LEMMA GapTake ==
    ASSUME NEW S, NEW M, NEW nx \in Packets, NEW l, Gapless(S, M, nx, l),
           NEW x \in S, \A z \in S \ {x} : Before(x, z)
    PROVE  Gapless(S \ {x}, {x}, nx, l)
<1>1. PICK T : /\ IsFiniteSet(T) /\ Cardinality(T) <= l
               /\ \A y \in S \cup M, z \in Packets : Before(y, z) /\ Before(z, nx) => z \in T \/ z \in S
    BY DEF Gapless
<1>2. S \subseteq Packets /\ \A y \in S : Before(y, nx)
    BY DEF Gapless
<1>3. ASSUME NEW y \in (S \ {x}) \cup {x}, NEW z \in Packets, Before(y, z), Before(z, nx)
      PROVE  z \in T \/ z \in S \ {x}
  <2>1. z \in T \/ z \in S
      BY <1>1, <1>3
  <2>2. y = x \/ Before(x, y)
      BY <1>3
  <2>3. z # x
      BY <1>2, <1>3, <2>2, PacketOrder
  <2> QED  BY <2>1, <2>3
<1> QED  BY <1>1, <1>2, <1>3 DEF Gapless

\* The camera sends a packet, or one is lost.
LEMMA GapSend ==
    ASSUME PKTS \in Nat \ {0}, NEW S, NEW M, NEW nx \in Packets, NEW l, Gapless(S, M, nx, l)
    PROVE  Gapless(S \cup {nx}, M, NextPacket(nx), l)
<1> DEFINE nn == NextPacket(nx)
<1>1. PICK T : /\ IsFiniteSet(T) /\ Cardinality(T) <= l
               /\ \A y \in S \cup M, z \in Packets : Before(y, z) /\ Before(z, nx) => z \in T \/ z \in S
    BY DEF Gapless
<1>2. /\ S \subseteq Packets /\ M \subseteq Packets /\ \A y \in S \cup M : Before(y, nx)
      /\ \A y \in M, x \in S : Before(y, x)
    BY DEF Gapless
<1>3. nn \in Packets /\ Before(nx, nn) /\ \A y \in Packets : Before(y, nn) => Before(y, nx) \/ y = nx
    BY PacketNext
<1> HIDE DEF nn
<1>4. ASSUME NEW y \in (S \cup {nx}) \cup M  PROVE Before(y, nn)
    BY <1>2, <1>3, PacketOrder
<1>5. ASSUME NEW y \in (S \cup {nx}) \cup M, NEW z \in Packets, Before(y, z), Before(z, nn)
      PROVE  z \in T \/ z \in S \cup {nx}
  <2>1. CASE z = nx
      BY <2>1
  <2>2. CASE z # nx
    <3>1. Before(z, nx)
        BY <1>3, <1>5, <2>2
    <3>2. y # nx
        BY <1>5, <3>1, PacketOrder
    <3> QED  BY <1>1, <1>5, <3>1, <3>2
  <2> QED  BY <2>1, <2>2
<1>6. Gapless(S \cup {nx}, M, nn, l)
  <2>1. /\ S \cup {nx} \subseteq Packets /\ M \subseteq Packets
        /\ \A y \in M, x \in S \cup {nx} : Before(y, x)
      BY <1>2
  <2> QED  BY <1>1, <1>4, <1>5, <2>1 DEF Gapless
<1> QED  BY <1>6 DEF nn

LEMMA GapLose ==
    ASSUME PKTS \in Nat \ {0}, NEW S, NEW M, NEW nx \in Packets, NEW l \in Nat, Gapless(S, M, nx, l)
    PROVE  Gapless(S, M, NextPacket(nx), l + 1)
<1> DEFINE nn == NextPacket(nx)
<1>1. PICK T : /\ IsFiniteSet(T) /\ Cardinality(T) <= l
               /\ \A y \in S \cup M, z \in Packets : Before(y, z) /\ Before(z, nx) => z \in T \/ z \in S
    BY DEF Gapless
<1>2. /\ S \subseteq Packets /\ M \subseteq Packets /\ \A y \in S \cup M : Before(y, nx)
      /\ \A y \in M, x \in S : Before(y, x)
    BY DEF Gapless
<1>3. nn \in Packets /\ Before(nx, nn) /\ \A y \in Packets : Before(y, nn) => Before(y, nx) \/ y = nx
    BY PacketNext
<1> HIDE DEF nn
<1>4. ASSUME NEW y \in S \cup M  PROVE Before(y, nn)
    BY <1>2, <1>3, PacketOrder
<1>5. ASSUME NEW y \in S \cup M, NEW z \in Packets, Before(y, z), Before(z, nn)
      PROVE  z \in T \cup {nx} \/ z \in S
    BY <1>1, <1>3, <1>5
<1>6. IsFiniteSet(T \cup {nx}) /\ Cardinality(T \cup {nx}) <= l + 1
  <2>1. Cardinality(T) \in Nat
      BY <1>1, FS_CardinalityType
  <2>2. /\ IsFiniteSet(T \cup {nx})
        /\ Cardinality(T \cup {nx}) = IF nx \in T THEN Cardinality(T) ELSE Cardinality(T) + 1
      BY <1>1, FS_AddElement
  <2> QED  BY <1>1, <2>1, <2>2
<1>7. Gapless(S, M, nn, l + 1)
    BY <1>2, <1>4, <1>5, <1>6 DEF Gapless
<1> QED  BY <1>7 DEF nn

\* Too few packets are lost to hide the end of a frame and the whole of the next.
LEMMA GapParity ==
    ASSUME PKTS \in Nat \ {0}, NEW S, NEW y \in Packets, NEW nx \in Packets, NEW l \in Nat, l <= PKTS,
           Gapless(S, {y}, nx, l), NEW x \in S, \A z \in S \ {x} : Before(x, z),
           y[2] # PKTS, x[1] % 2 = y[1] % 2
    PROVE  x[1] = y[1] /\ y[2] < x[2]
<1>1. PICK T : /\ IsFiniteSet(T) /\ Cardinality(T) <= l
               /\ \A z \in Packets : Before(y, z) /\ Before(z, nx) => z \in T \/ z \in S
    BY DEF Gapless
<1>2. x \in Packets /\ Before(y, x) /\ Before(x, nx)
    BY DEF Gapless
<1>3. /\ x[1] \in Nat /\ x[2] \in 1 .. PKTS /\ y[1] \in Nat /\ y[2] \in 1 .. PKTS
    BY <1>2 DEF Packets
<1>4. SUFFICES ASSUME x[1] # y[1]  PROVE FALSE
    BY <1>2, <1>3 DEF Before
<1>5. x[1] >= y[1] + 2
    BY <1>2, <1>3, <1>4 DEF Before
<1> DEFINE f == [k \in 1 .. PKTS + 1 |-> IF k <= PKTS THEN <<y[1] + 1, k>> ELSE <<y[1], PKTS>>]
<1>6. ASSUME NEW k \in 1 .. PKTS + 1  PROVE f[k] \in T
  <2>1. PICK z : z = f[k]
      BY Zenon
  <2>2. \/ k <= PKTS /\ z = <<y[1] + 1, k>>
        \/ k > PKTS /\ z = <<y[1], PKTS>>
      BY <2>1
  <2>3. z \in Packets /\ Before(y, z) /\ Before(z, x)
    <3>1. CASE k <= PKTS /\ z = <<y[1] + 1, k>>
      <4>1. z[1] = y[1] + 1 /\ z[2] = k /\ k \in 1 .. PKTS /\ y[1] + 1 \in Nat
          BY <1>3, <3>1
      <4>2. z \in Packets
          BY <3>1, <4>1 DEF Packets
      <4> QED  BY <1>3, <1>5, <4>1, <4>2 DEF Before
    <3>2. CASE z = <<y[1], PKTS>>
      <4>1. z[1] = y[1] /\ z[2] = PKTS
          BY <3>2
      <4>2. z \in Packets
          BY <1>3, <3>2 DEF Packets
      <4> QED  BY <1>3, <1>5, <4>1, <4>2 DEF Before
    <3> QED  BY <2>2, <3>1, <3>2
  <2>4. Before(z, nx)
      BY <1>2, <2>3, PacketOrder
  <2>5. z \notin S
    <3>1. z # x /\ ~Before(x, z)
        BY <1>2, <2>3, PacketOrder
    <3> QED  BY <3>1
  <2> QED  BY <1>1, <2>1, <2>3, <2>4, <2>5
<1>7. \A k, m \in 1 .. PKTS + 1 : f[k] = f[m] => k = m
  <2>1. ASSUME NEW k \in 1 .. PKTS + 1, NEW m \in 1 .. PKTS + 1, f[k] = f[m]  PROVE k = m
    <3>1. /\ f[k][1] = IF k <= PKTS THEN y[1] + 1 ELSE y[1]
          /\ f[m][1] = IF m <= PKTS THEN y[1] + 1 ELSE y[1]
        OBVIOUS
    <3>2. k <= PKTS <=> m <= PKTS
        BY <1>3, <2>1, <3>1
    <3>3. CASE k <= PKTS
      <4>1. f[k] = <<y[1] + 1, k>> /\ f[m] = <<y[1] + 1, m>>
          BY <3>2, <3>3
      <4> QED  BY <2>1, <4>1
    <3>4. CASE ~(k <= PKTS)
        BY <3>2, <3>4
    <3> QED  BY <3>3, <3>4
  <2> QED  BY <2>1
<1>8. f \in Injection(1 .. PKTS + 1, T)
  <2>1. f \in [1 .. PKTS + 1 -> T]
    <3>1. f = [k \in 1 .. PKTS + 1 |-> f[k]]
        OBVIOUS
    <3> HIDE DEF f
    <3> QED  BY <1>6, <3>1
  <2>2. DOMAIN f = 1 .. PKTS + 1
      OBVIOUS
  <2> HIDE DEF f
  <2> QED  BY <1>7, <2>1, <2>2 DEF Injection, IsInjective
<1>9. Cardinality(1 .. PKTS + 1) = PKTS + 1
  <2>1. 1 \in Int /\ PKTS + 1 \in Int /\ ~(1 > PKTS + 1) /\ PKTS + 1 - 1 + 1 = PKTS + 1
      OBVIOUS
  <2> QED  BY <2>1, FS_Interval
<1>10. Cardinality(1 .. PKTS + 1) <= Cardinality(T) /\ Cardinality(T) \in Nat
    BY <1>1, <1>8, FS_Injection, FS_CardinalityType
<1> QED  BY <1>1, <1>9, <1>10

\* The packets of the camera in a ring, and that they lie in it in order.
Id(e) == <<e.frame, e.pkt>>
Ids(q) == {Id(q[i]) : i \in {j \in DOMAIN q : q[j].of = "cam"}}
Ordered(q) == \A i, j \in DOMAIN q : i < j /\ q[i].of = "cam" /\ q[j].of = "cam" => Before(Id(q[i]), Id(q[j]))

LEMMA CamEventIs ==
    ASSUME NEW e \in UsbEvent, e.of = "cam"
    PROVE  /\ e.type = 32 /\ e.ok \in BOOLEAN /\ e.frame \in Nat /\ e.pkt \in 1 .. PKTS
           /\ Id(e) \in Packets /\ Id(e)[1] = e.frame /\ Id(e)[2] = e.pkt
<1>1. e.type = 32 /\ e.ok \in BOOLEAN /\ e.frame \in Nat /\ e.pkt \in 1 .. PKTS
    BY DEF UsbEvent
<1> QED  BY <1>1 DEF Id, Packets

LEMMA IdsAre ==
    ASSUME NEW q \in Seq(UsbEvent)
    PROVE  Ids(q) \subseteq Packets
BY CamEventIs DEF Ids

\* The ring loses its first event.
LEMMA IdsTail ==
    ASSUME NEW q \in Seq(UsbEvent), q # << >>, Ordered(q)
    PROVE  /\ Ordered(Tail(q))
           /\ Head(q).of # "cam" => Ids(Tail(q)) = Ids(q)
           /\ Head(q).of = "cam" => /\ Id(Head(q)) \in Ids(q) /\ Ids(Tail(q)) = Ids(q) \ {Id(Head(q))}
                                    /\ \A z \in Ids(q) \ {Id(Head(q))} : Before(Id(Head(q)), z)
<1>1. PICK l \in Nat \ {0} : l = Len(q)
    BY RingTail
<1>2. PICK p : p = Tail(q)
    BY Zenon
<1>3. /\ p \in Seq(UsbEvent) /\ Head(q) = q[1] /\ DOMAIN q = 1 .. l /\ DOMAIN p = 1 .. l - 1
      /\ \A i \in 1 .. l - 1 : p[i] = q[i + 1]
    BY <1>1, <1>2, RingTail
<1>4. \A i \in 1 .. l - 1 : i + 1 \in 1 .. l /\ 1 < i + 1
    OBVIOUS
<1>5. \A i \in 1 .. l : i = 1 \/ (i - 1 \in 1 .. l - 1 /\ (i - 1) + 1 = i)
    OBVIOUS
<1>6. Ordered(p)
  <2>1. ASSUME NEW i \in 1 .. l - 1, NEW j \in 1 .. l - 1, i < j, p[i].of = "cam", p[j].of = "cam"
        PROVE  Before(Id(p[i]), Id(p[j]))
    <3>1. i + 1 \in 1 .. l /\ j + 1 \in 1 .. l /\ i + 1 < j + 1
        BY <2>1
    <3>2. p[i] = q[i + 1] /\ p[j] = q[j + 1]
        BY <1>3
    <3> QED  BY Zenon, <1>3, <2>1, <3>1, <3>2 DEF Ordered
  <2> QED  BY <1>3, <2>1 DEF Ordered
<1>7. Ids(p) \subseteq Ids(q)
    BY Zenon, <1>3, <1>4 DEF Ids
<1>8. ASSUME NEW z \in Ids(q)  PROVE z \in Ids(p) \/ (q[1].of = "cam" /\ z = Id(q[1]))
  <2>1. PICK i \in 1 .. l : q[i].of = "cam" /\ z = Id(q[i])
      BY <1>3 DEF Ids
  <2>2. CASE i = 1
      BY <2>1, <2>2
  <2>3. CASE i # 1
    <3>1. i - 1 \in 1 .. l - 1 /\ p[i - 1] = q[i]
        BY <1>3, <1>5, <2>3
    <3> QED  BY <1>3, <2>1, <3>1 DEF Ids
  <2> QED  BY <2>2, <2>3
<1>9. ASSUME q[1].of = "cam"
      PROVE  /\ Id(q[1]) \in Ids(q) /\ \A z \in Ids(p) : Before(Id(q[1]), z) /\ z # Id(q[1])
  <2>1. 1 \in 1 .. l
      OBVIOUS
  <2>2. Id(q[1]) \in Ids(q)
      BY <1>3, <1>9, <2>1 DEF Ids
  <2>3. ASSUME NEW z \in Ids(p)  PROVE Before(Id(q[1]), z) /\ z # Id(q[1])
    <3>1. PICK i \in 1 .. l - 1 : p[i].of = "cam" /\ z = Id(p[i])
        BY <1>3 DEF Ids
    <3>2. i + 1 \in 1 .. l /\ 1 < i + 1 /\ p[i] = q[i + 1]
        BY <1>3, <1>4
    <3>3. Before(Id(q[1]), z)
        BY Zenon, <1>3, <1>9, <2>1, <3>1, <3>2 DEF Ordered
    <3>4. Id(q[1]) \in Packets
        BY <2>2, IdsAre
    <3> QED  BY <3>3, <3>4, PacketOrder
  <2> QED  BY <2>2, <2>3
<1> QED  BY Zenon, <1>2, <1>3, <1>6, <1>7, <1>8, <1>9

\* The ring gains an event; one of the camera is later than those in it.
LEMMA IdsAppend ==
    ASSUME NEW q \in Seq(UsbEvent), NEW e \in UsbEvent, Ordered(q),
           e.of = "cam" => \A z \in Ids(q) : Before(z, Id(e))
    PROVE  /\ Ordered(Append(q, e))
           /\ e.of # "cam" => Ids(Append(q, e)) = Ids(q)
           /\ e.of = "cam" => Ids(Append(q, e)) = Ids(q) \cup {Id(e)}
<1>1. PICK l \in Nat : l = Len(q)
    BY RingAppend
<1>2. PICK p : p = Append(q, e)
    BY Zenon
<1>3. /\ DOMAIN q = 1 .. l /\ DOMAIN p = 1 .. l + 1 /\ p[l + 1] = e /\ \A i \in 1 .. l : p[i] = q[i]
    BY <1>1, <1>2, RingAppend
<1>4. \A i \in 1 .. l + 1 : i = l + 1 \/ i \in 1 .. l
    OBVIOUS
<1>5. \A i \in 1 .. l : i \in 1 .. l + 1 /\ ~(l + 1 < i)
    OBVIOUS
<1>6. l + 1 \in 1 .. l + 1 /\ ~(l + 1 < l + 1)
    OBVIOUS
<1>7. Ordered(p)
  <2>1. ASSUME NEW i \in 1 .. l + 1, NEW j \in 1 .. l + 1, i < j, p[i].of = "cam", p[j].of = "cam"
        PROVE  Before(Id(p[i]), Id(p[j]))
    <3>1. i \in 1 .. l
        BY <2>1
    <3>2. CASE j \in 1 .. l
        BY <1>3, <2>1, <3>1, <3>2 DEF Ordered
    <3>3. CASE j = l + 1
      <4>1. Id(q[i]) \in Ids(q)
          BY <1>3, <2>1, <3>1 DEF Ids
      <4> QED  BY <1>3, <2>1, <3>1, <3>3, <4>1
    <3> QED  BY <1>4, <3>2, <3>3
  <2> QED  BY <1>3, <2>1 DEF Ordered
<1>8. Ids(q) \subseteq Ids(p)
    BY <1>3, <1>5 DEF Ids
<1>9. \A z \in Ids(p) : z \in Ids(q) \/ (e.of = "cam" /\ z = Id(e))
    BY <1>3, <1>4 DEF Ids
<1>10. e.of = "cam" => Id(e) \in Ids(p)
    BY <1>3, <1>6 DEF Ids
<1> QED  BY Zenon, <1>2, <1>7, <1>8, <1>9, <1>10

\* The controller the camera is plugged into.
CamCtrl(plug) == IF \E p \in DOMAIN plug[0] : plug[0][p] = "cam" THEN 0 ELSE 1

LEMMA CamCtrlIs ==
    ASSUME NEW plug, Bus(plug)!ConstantsOK
    PROVE  /\ CamCtrl(plug) \in {0, 1}
           /\ \A c \in {0, 1} : \A p \in DOMAIN plug[c] : plug[c][p] = "cam" => c = CamCtrl(plug)
<1>1. \A c, x \in {0, 1} : \A p \in DOMAIN plug[c], y \in DOMAIN plug[x] :
        plug[c][p] = "cam" /\ plug[x][y] = "cam" => c = x /\ p = y
    BY DEF Bus!ConstantsOK, Bus!Ctrl
<1> QED  BY <1>1 DEF CamCtrl

\* The camera, the operation that starts it and its packets are on that controller.
CamWhere(plug) ==
    /\ cam.on => cam.ctrl = CamCtrl(plug)
    /\ usbjob # Bus(plug)!Idle /\ usbjob.op = "cam" => usbjob.ctrl = CamCtrl(plug)
    /\ \A c \in {0, 1} : \A i \in DOMAIN evq[c] : evq[c][i].of = "cam" => c = CamCtrl(plug)

\* No wait took a packet of the running camera; then a frame holds packets of one
\* exposure in order, and the one being filled lacks its last packet.
Clean == \A x \in UsbOps : <<"cam", x>> \notin stolen
OneFrame(s) == \A i, j \in DOMAIN s : i < j => s[i][1] = s[j][1] /\ s[i][2] < s[j][2]
Filling == Clean /\ cam.on /\ cam.fill # << >>
LastIn == cam.fill[Len(cam.fill)]
Mark == IF Filling THEN {LastIn} ELSE {}
Exposure ==
    /\ Clean => OneFrame(cam.ready)
    /\ Filling => OneFrame(cam.fill) /\ LastIn[2] # PKTS /\ cam.fid = LastIn[1] % 2

InFlight(plug) ==
    /\ Ordered(evq[CamCtrl(plug)])
    /\ Gapless(Ids(evq[CamCtrl(plug)]), Mark, <<sends.frame, sends.pkt>>, sends.lost)

CamInv(plug) == CamWhere(plug) /\ Exposure /\ InFlight(plug)

\* The packet the camera sends next.
LEMMA SendsIs ==
    ASSUME NEW plug, UsbTypes(plug)
    PROVE  /\ sends.frame \in Nat /\ sends.pkt \in 1 .. PKTS /\ sends.lost \in 0 .. LOSS
           /\ <<sends.frame, sends.pkt>> \in Packets
<1>1. sends.frame \in Nat /\ sends.pkt \in 1 .. PKTS /\ sends.lost \in 0 .. LOSS
    BY DEF UsbTypes
<1> QED  BY <1>1 DEF Packets

\* The camera is not touched: its frames stay, and what is being filled stays or is
\* given up.
LEMMA CamSame ==
    ASSUME Exposure, Clean' => Clean, cam' = cam
    PROVE  /\ Exposure' /\ (Mark' = {} \/ (Mark' = Mark /\ Clean'))
           /\ cam.on /\ ~Clean' => Mark' = {}
<1>1. (cam.on)' = cam.on /\ (cam.fill)' = cam.fill /\ (cam.ready)' = cam.ready /\ (cam.fid)' = cam.fid /\ LastIn' = LastIn
    BY DEF LastIn
<1>2. Filling' => Filling /\ Clean'
    BY <1>1 DEF Filling
<1>3. Exposure'
    BY <1>1, <1>2 DEF Exposure, OneFrame
<1>4. Mark' = {} \/ (Mark' = Mark /\ Clean')
    BY <1>1, <1>2 DEF Mark
<1>5. ~Clean' => Mark' = {}
    BY DEF Mark, Filling
<1> QED  BY <1>3, <1>4, <1>5

\* The camera is off or has just been started.
LEMMA CamEmpty ==
    ASSUME Clean' => OneFrame(cam'.ready), ~cam'.on \/ cam'.fill = << >>
    PROVE  Exposure' /\ Mark' = {}
BY DEF Exposure, Mark, Filling, OneFrame

\* The rings stay, or lose an event that is not of a frame being filled, or gain one
\* that is not the camera's.
LEMMA FlightSame ==
    ASSUME NEW plug, InFlight(plug), evq' = evq, sends' = sends, Mark' = {} \/ Mark' = Mark
    PROVE  InFlight(plug)'
<1>1. Ordered(evq'[CamCtrl(plug)])
    BY DEF InFlight
<1>2. Gapless(Ids(evq[CamCtrl(plug)]), Mark, <<sends.frame, sends.pkt>>, sends.lost)
    BY DEF InFlight
<1>3. Gapless(Ids(evq[CamCtrl(plug)]), {}, <<sends.frame, sends.pkt>>, sends.lost)
    BY <1>2, GapNone
<1>4. Gapless(Ids(evq'[CamCtrl(plug)]), Mark', <<sends'.frame, sends'.pkt>>, sends'.lost)
    BY <1>2, <1>3
<1> QED  BY <1>1, <1>4 DEF InFlight, Ordered, Gapless, Ids, CamCtrl

LEMMA FlightPopped ==
    ASSUME NEW plug, Bus(plug)!ConstantsOK, UsbTypes(plug), InFlight(plug), NEW c \in {0, 1}, Popped(c), sends' = sends,
           Mark' = {} \/ (Mark' = Mark /\ ~(c = CamCtrl(plug) /\ Head(evq[c]).of = "cam"))
    PROVE  InFlight(plug)'
<1> DEFINE K == CamCtrl(plug)
           nx == <<sends.frame, sends.pkt>>
<1>1. /\ K \in {0, 1} /\ nx \in Packets /\ evq \in [{0, 1} -> Seq(UsbEvent)] /\ sends'.lost = sends.lost
      /\ <<sends'.frame, sends'.pkt>> = nx
    BY Zenon, CamCtrlIs, SendsIs DEF UsbTypes
<1>2. Ordered(evq[K]) /\ Gapless(Ids(evq[K]), Mark, nx, sends.lost)
    BY DEF InFlight
<1>3. Gapless(Ids(evq[K]), {}, nx, sends.lost)
    BY <1>2, GapNone
<1> HIDE DEF K, nx
<1>4. Ordered(evq'[K]) /\ Gapless(Ids(evq'[K]), Mark', nx, sends.lost)
  <2>1. CASE c # K
    <3>1. evq'[K] = evq[K]
        BY <1>1, <2>1 DEF Popped
    <3> QED  BY <1>2, <1>3, <3>1
  <2>2. CASE c = K /\ Head(evq[c]).of # "cam"
    <3>1. evq'[K] = Tail(evq[K]) /\ evq[K] # << >> /\ evq[K] \in Seq(UsbEvent)
        BY <1>1, <2>2 DEF Popped
    <3>2. Ordered(evq'[K]) /\ Ids(evq'[K]) = Ids(evq[K])
        BY <1>2, <2>2, <3>1, IdsTail
    <3> QED  BY <1>2, <1>3, <3>2
  <2>3. CASE c = K /\ Head(evq[c]).of = "cam"
    <3>1. evq'[K] = Tail(evq[K]) /\ evq[K] # << >> /\ evq[K] \in Seq(UsbEvent) /\ Mark' = {}
        BY <1>1, <2>3 DEF Popped, K
    <3>2. PICK h : h = Id(Head(evq[K]))
        OBVIOUS
    <3>3. /\ Ordered(evq'[K]) /\ Ids(evq'[K]) = Ids(evq[K]) \ {h} /\ h \in Ids(evq[K])
          /\ \A z \in Ids(evq[K]) \ {h} : Before(h, z)
        BY <1>2, <2>3, <3>1, <3>2, IdsTail
    <3>4. Gapless(Ids(evq[K]) \ {h}, {h}, nx, sends.lost)
        BY <1>1, <1>2, <3>3, GapTake
    <3> QED  BY Zenon, <3>1, <3>3, <3>4, GapNone
  <2> QED  BY <2>1, <2>2, <2>3
<1> QED  BY Zenon, <1>1, <1>4 DEF InFlight, K, nx, Gapless, Ordered, Ids

LEMMA FlightPushed ==
    ASSUME NEW plug, Bus(plug)!ConstantsOK, UsbTypes(plug), InFlight(plug), NEW c \in {0, 1}, NEW e \in UsbEvent, Pushed(c, e),
           e.of # "cam", sends' = sends, Mark' = {} \/ Mark' = Mark
    PROVE  InFlight(plug)'
<1> DEFINE K == CamCtrl(plug)
           nx == <<sends.frame, sends.pkt>>
<1>1. /\ K \in {0, 1} /\ nx \in Packets /\ evq \in [{0, 1} -> Seq(UsbEvent)] /\ sends'.lost = sends.lost
      /\ <<sends'.frame, sends'.pkt>> = nx
    BY Zenon, CamCtrlIs, SendsIs DEF UsbTypes
<1>2. Ordered(evq[K]) /\ Gapless(Ids(evq[K]), Mark, nx, sends.lost)
    BY DEF InFlight
<1>3. Gapless(Ids(evq[K]), {}, nx, sends.lost)
    BY <1>2, GapNone
<1> HIDE DEF K, nx
<1>4. Ordered(evq'[K]) /\ Ids(evq'[K]) = Ids(evq[K])
  <2>1. CASE c # K
    <3>1. evq'[K] = evq[K]
        BY <1>1, <2>1 DEF Pushed
    <3> QED  BY <1>2, <3>1
  <2>2. CASE c = K
    <3>1. evq'[K] = Append(evq[K], e) /\ evq[K] \in Seq(UsbEvent)
        BY <1>1, <2>2 DEF Pushed
    <3> QED  BY <1>2, <3>1, IdsAppend
  <2> QED  BY <2>1, <2>2
<1> QED  BY Zenon, <1>1, <1>2, <1>3, <1>4 DEF InFlight, K, nx, Gapless, Ordered, Ids

\* Where the packets are: a job that is not the camera's, rings that only lose events
\* or gain one that is not the camera's.
LEMMA WherePopped ==
    ASSUME NEW plug, UsbTypes(plug), CamWhere(plug), NEW c \in {0, 1}, Popped(c)
    PROVE  \A x \in {0, 1} : \A i \in DOMAIN evq'[x] : evq'[x][i].of = "cam" => x = CamCtrl(plug)
<1>1. evq \in [{0, 1} -> Seq(UsbEvent)]
    BY DEF UsbTypes
<1>2. ASSUME NEW x \in {0, 1}, NEW i \in DOMAIN evq'[x], evq'[x][i].of = "cam"  PROVE x = CamCtrl(plug)
  <2>1. CASE x = c
    <3>1. i + 1 \in DOMAIN evq[x] /\ evq'[x][i] = evq[x][i + 1]
        BY <1>1, <1>2, <2>1, PoppedIs
    <3> QED  BY <1>2, <3>1 DEF CamWhere
  <2>2. CASE x # c
    <3>1. evq'[x] = evq[x]
        BY <2>2 DEF Popped
    <3> QED  BY <1>2, <3>1 DEF CamWhere
  <2> QED  BY <2>1, <2>2
<1> QED  BY <1>2

LEMMA WherePushed ==
    ASSUME NEW plug, UsbTypes(plug), CamWhere(plug), NEW c \in {0, 1}, NEW e \in UsbEvent, Pushed(c, e),
           e.of = "cam" => c = CamCtrl(plug)
    PROVE  \A x \in {0, 1} : \A i \in DOMAIN evq'[x] : evq'[x][i].of = "cam" => x = CamCtrl(plug)
<1>1. evq \in [{0, 1} -> Seq(UsbEvent)]
    BY DEF UsbTypes
<1>2. ASSUME NEW x \in {0, 1}, NEW i \in DOMAIN evq'[x], evq'[x][i].of = "cam"  PROVE x = CamCtrl(plug)
  <2>1. CASE x = c
    <3>1. PICK l \in Nat : l = Len(evq[x])
        BY <1>1, PushedIs
    <3>2. /\ DOMAIN evq[x] = 1 .. l /\ DOMAIN evq'[x] = 1 .. l + 1 /\ evq'[x][l + 1] = e
          /\ \A k \in 1 .. l : evq'[x][k] = evq[x][k]
        BY <1>1, <2>1, <3>1, PushedIs
    <3>3. i = l + 1 \/ i \in 1 .. l
        BY <1>2, <3>1, <3>2
    <3> QED  BY <1>2, <2>1, <3>2, <3>3 DEF CamWhere
  <2>2. CASE x # c
    <3>1. evq'[x] = evq[x]
        BY <2>2 DEF Pushed
    <3> QED  BY <1>2, <3>1 DEF CamWhere
  <2> QED  BY <2>1, <2>2
<1> QED  BY <1>2

\* An event of a wait's ring: if the camera is on it is counted as taken.
LEMMA CamAnswered ==
    ASSUME NEW plug, Bus(plug)!ConstantsOK, UsbTypes(plug), CamInv(plug), usbjob # Bus(plug)!Idle, sends' = sends,
           \/ evq[usbjob.ctrl] # << >> /\ Bus(plug)!Consume
           \/ evq' = evq /\ stolen' = stolen,
           \/ cam' = cam
           \/ cam'.fill = << >> /\ cam'.ready = << >>
    PROVE  /\ Exposure' /\ InFlight(plug)'
           /\ \A x \in {0, 1} : \A i \in DOMAIN evq'[x] : evq'[x][i].of = "cam" => x = CamCtrl(plug)
<1>1. CamWhere(plug) /\ Exposure /\ InFlight(plug)
    BY DEF CamInv
<1>2. (Clean' => Clean) /\ usbjob.ctrl \in {0, 1} /\ usbjob.op \in UsbOps
    BY ConsumeIs, JobIs DEF Clean
<1>3. Exposure' /\ (Mark' = {} \/ (Mark' = Mark /\ Clean' /\ cam' = cam))
  <2>1. CASE cam' = cam
      BY <1>1, <1>2, <2>1, CamSame
  <2>2. CASE cam'.fill = << >> /\ cam'.ready = << >>
    <3>1. OneFrame(cam'.ready)
        BY <2>2 DEF OneFrame
    <3> QED  BY <2>2, <3>1, CamEmpty
  <2> QED  BY <2>1, <2>2
<1>4. CASE evq' = evq /\ stolen' = stolen
    BY <1>1, <1>3, <1>4, FlightSame DEF CamWhere
<1>5. CASE evq[usbjob.ctrl] # << >> /\ Bus(plug)!Consume
  <2>1. Popped(usbjob.ctrl)
      BY <1>5, ConsumeIs DEF Popped
  <2>2. Bus(plug)!CamEvent(usbjob.ctrl, Head(evq[usbjob.ctrl])) => ~Clean'
      BY <1>2, <1>5, ConsumeIs DEF Clean
  <2>3. ASSUME Mark' = Mark, Clean', Mark' # {}  PROVE ~(usbjob.ctrl = CamCtrl(plug) /\ Head(evq[usbjob.ctrl]).of = "cam")
    <3>1. cam.on
        BY <2>3 DEF Mark, Filling
    <3> QED  BY <1>1, <2>2, <2>3, <3>1 DEF CamWhere, Bus!CamEvent
  <2>4. Mark' = {} \/ (Mark' = Mark /\ ~(usbjob.ctrl = CamCtrl(plug) /\ Head(evq[usbjob.ctrl]).of = "cam"))
      BY <1>3, <2>3
  <2>5. InFlight(plug)'
      BY <1>1, <1>2, <2>1, <2>4, FlightPopped
  <2> QED  BY <1>1, <1>2, <1>3, <2>1, <2>5, WherePopped
<1> QED  BY <1>4, <1>5

LEMMA CamStep ==
    ASSUME NEW plug, Bus(plug)!ConstantsOK, UsbTypes(plug), UsbTypes(plug)', CamInv(plug), Bus(plug)!rp1usb_step
    PROVE  CamInv(plug)'
<1>1. usbjob # Bus(plug)!Idle /\ sends' = sends
    BY StepIs
<1>2. PICK ok \in BOOLEAN : Bus(plug)!Answer(ok) /\ StepCase(plug, ok)
    BY StepIs
<1>3. UsbJobOK(plug, usbjob)
    BY <1>1, JobIs
<1>4. \/ evq[usbjob.ctrl] # << >> /\ Bus(plug)!Consume
      \/ evq' = evq /\ stolen' = stolen
    BY Zenon, <1>1, <1>2, AnswerIs
<1>5. CamWhere(plug)
    BY DEF CamInv
<1>6. CASE /\ usbjob.op = "cam" /\ usbjob' = Bus(plug)!Idle /\ UNCHANGED <<hid, armed>>
           /\ cam' = [Bus(plug)!NoCam EXCEPT !.on = TRUE, !.ctrl = usbjob.ctrl, !.port = usbjob.port]
  <2>1. PICK m : m = [Bus(plug)!NoCam EXCEPT !.on = TRUE, !.ctrl = usbjob.ctrl, !.port = usbjob.port]
      OBVIOUS
  <2>2. m.fill = << >> /\ m.ready = << >> /\ m.ctrl = usbjob.ctrl
      BY <2>1 DEF Bus!NoCam
  <2>3. cam' = m
      BY <1>6, <2>1
  <2>4. /\ Exposure' /\ InFlight(plug)'
        /\ \A x \in {0, 1} : \A i \in DOMAIN evq'[x] : evq'[x][i].of = "cam" => x = CamCtrl(plug)
      BY <1>1, <1>4, <2>2, <2>3, CamAnswered
  <2>5. CamWhere(plug)'
      BY <1>1, <1>5, <1>6, <2>2, <2>3, <2>4 DEF CamWhere, CamCtrl, Bus!Idle
  <2> QED  BY <2>4, <2>5 DEF CamInv
<1>7. ASSUME cam' = cam, usbjob' = Bus(plug)!Idle \/ usbjob'.op # "cam" \/ usbjob'.ctrl = CamCtrl(plug)
      PROVE  CamInv(plug)'
  <2>1. /\ Exposure' /\ InFlight(plug)'
        /\ \A x \in {0, 1} : \A i \in DOMAIN evq'[x] : evq'[x][i].of = "cam" => x = CamCtrl(plug)
      BY <1>1, <1>4, <1>7, CamAnswered
  <2>2. CamWhere(plug)'
      BY <1>5, <1>7, <2>1 DEF CamWhere, CamCtrl, Bus!Idle
  <2> QED  BY <2>1, <2>2 DEF CamInv
<1>8. CASE usbjob' = Bus(plug)!NextPort /\ UNCHANGED <<hid, armed, cam>>
  <2>1. usbjob' = Bus(plug)!Idle \/ usbjob'.op # "cam"
      BY <1>3, <1>8, NextPortIs
  <2> QED  BY <1>7, <1>8, <2>1
<1>9. CASE /\ ~Bus(plug)!Abandons(ok) /\ usbjob.at # Len(Bus(plug)!Steps[usbjob.op])
           /\ usbjob' = Advanced(plug, ok) /\ UNCHANGED <<hid, armed, cam>>
  <2>1. usbjob'.op = usbjob.op /\ usbjob'.ctrl = usbjob.ctrl
      BY Zenon, <1>3, <1>9, AdvancedIs
  <2>2. usbjob.op = "cam" => usbjob.ctrl = CamCtrl(plug)
      BY <1>1, <1>5 DEF CamWhere
  <2> QED  BY <1>7, <1>9, <2>1, <2>2
<1>10. CASE usbjob' = Bus(plug)!Idle /\ UNCHANGED cam
    BY <1>7, <1>10
<1> QED  BY <1>2, <1>6, <1>8, <1>9, <1>10 DEF StepCase

\* Steps that leave the camera and its packets alone.
LEMMA CamStays ==
    ASSUME NEW plug, CamInv(plug), cam' = cam, evq' = evq, sends' = sends, stolen' = stolen,
           usbjob' = Bus(plug)!Idle \/ usbjob'.op # "cam" \/ usbjob'.ctrl = CamCtrl(plug)
    PROVE  CamInv(plug)'
<1>1. CamWhere(plug) /\ Exposure /\ InFlight(plug)
    BY DEF CamInv
<1>2. Clean' = Clean
    BY DEF Clean
<1>3. Exposure' /\ (Mark' = {} \/ Mark' = Mark)
    BY <1>1, <1>2, CamSame
<1>4. InFlight(plug)'
    BY <1>1, <1>3, FlightSame
<1>5. CamWhere(plug)'
    BY <1>1 DEF CamWhere, CamCtrl, Bus!Idle
<1> QED  BY <1>3, <1>4, <1>5 DEF CamInv

LEMMA CamClears ==
    ASSUME NEW plug, CamInv(plug), ~cam'.on, cam'.ready = cam.ready \/ cam'.ready = << >>,
           evq' = evq, sends' = sends, stolen' = stolen,
           usbjob' = Bus(plug)!Idle \/ usbjob'.op # "cam" \/ usbjob'.ctrl = CamCtrl(plug)
    PROVE  CamInv(plug)'
<1>1. CamWhere(plug) /\ Exposure /\ InFlight(plug)
    BY DEF CamInv
<1>2. Clean' = Clean /\ OneFrame(<< >>)
    BY DEF Clean, OneFrame
<1>3. Clean' => OneFrame(cam'.ready)
    BY <1>1, <1>2 DEF Exposure
<1>4. Exposure' /\ Mark' = {}
    BY <1>3, CamEmpty
<1>5. InFlight(plug)'
    BY <1>1, <1>4, FlightSame
<1>6. CamWhere(plug)'
    BY <1>1 DEF CamWhere, CamCtrl, Bus!Idle
<1> QED  BY <1>4, <1>5, <1>6 DEF CamInv

LEMMA CamGains ==
    ASSUME NEW plug, Bus(plug)!ConstantsOK, UsbTypes(plug), CamInv(plug), cam' = cam, sends' = sends, stolen' = stolen,
           NEW c \in {0, 1}, NEW e \in UsbEvent, Pushed(c, e), e.of # "cam",
           usbjob' = Bus(plug)!Idle \/ usbjob'.op # "cam" \/ usbjob'.ctrl = CamCtrl(plug)
    PROVE  CamInv(plug)'
<1>1. CamWhere(plug) /\ Exposure /\ InFlight(plug)
    BY DEF CamInv
<1>2. Clean' = Clean
    BY DEF Clean
<1>3. Exposure' /\ (Mark' = {} \/ Mark' = Mark)
    BY <1>1, <1>2, CamSame
<1>4. InFlight(plug)'
    BY <1>1, <1>3, FlightPushed
<1>5. \A x \in {0, 1} : \A i \in DOMAIN evq'[x] : evq'[x][i].of = "cam" => x = CamCtrl(plug)
    BY <1>1, WherePushed
<1>6. CamWhere(plug)'
    BY <1>1, <1>5 DEF CamWhere, CamCtrl, Bus!Idle
<1> QED  BY <1>3, <1>4, <1>6 DEF CamInv

\* The camera sends a packet, or it is lost.
LEMMA CamPacket ==
    ASSUME NEW plug, Bus(plug)!ConstantsOK, UsbTypes(plug), CamInv(plug), Bus(plug)!Packet
    PROVE  CamInv(plug)'
<1> DEFINE K == CamCtrl(plug)
           nx == <<sends.frame, sends.pkt>>
<1>1. CamWhere(plug) /\ Exposure /\ InFlight(plug)
    BY DEF CamInv
<1>2. /\ K \in {0, 1} /\ nx \in Packets /\ evq \in [{0, 1} -> Seq(UsbEvent)] /\ sends.lost \in Nat
      /\ PKTS \in Nat \ {0} /\ LOSS \in Nat
  <2>1. evq \in [{0, 1} -> Seq(UsbEvent)]
      BY DEF UsbTypes
  <2>2. K \in {0, 1} /\ PKTS \in Nat \ {0} /\ LOSS \in Nat
      BY CamCtrlIs, BusIs
  <2>3. nx \in Packets /\ sends.lost \in 0 .. LOSS
      BY SendsIs
  <2> QED  BY <2>1, <2>2, <2>3
<1>3. Ordered(evq[K]) /\ Gapless(Ids(evq[K]), Mark, nx, sends.lost)
    BY <1>1 DEF InFlight
<1>4. cam.on /\ cam' = cam /\ usbjob' = usbjob /\ stolen' = stolen /\ <<sends'.frame, sends'.pkt>> = NextPacket(nx)
    BY PacketIs
<1>5. cam.ctrl = K
    BY <1>1, <1>4 DEF CamWhere
<1>6. Clean' = Clean /\ Exposure' /\ Mark' = Mark
  <2>1. Clean' = Clean /\ (cam.fill)' = cam.fill /\ (cam.on)' = cam.on /\ LastIn' = LastIn
      BY Zenon, <1>4 DEF Clean, LastIn
  <2>2. Mark' = Mark
      BY <2>1 DEF Mark, Filling
  <2> QED  BY <1>1, <1>4, <2>1, <2>2, CamSame
<1> HIDE DEF K, nx
<1>7. /\ Ordered(evq'[K]) /\ Gapless(Ids(evq'[K]), Mark, NextPacket(nx), sends'.lost)
      /\ \A x \in {0, 1} : \A i \in DOMAIN evq'[x] : evq'[x][i].of = "cam" => x = K
  <2>1. CASE evq' = evq /\ sends'.lost = sends.lost + 1
    <3>1. Gapless(Ids(evq[K]), Mark, NextPacket(nx), sends.lost + 1)
        BY <1>2, <1>3, GapLose
    <3> QED  BY <1>1, <1>3, <2>1, <3>1 DEF CamWhere, K
  <2>2. ASSUME sends'.lost = sends.lost, NEW e \in UsbEvent, e.of = "cam", e.frame = sends.frame, e.pkt = sends.pkt,
               Bus(plug)!Push(cam.ctrl, e)
        PROVE  /\ Ordered(evq'[K]) /\ Gapless(Ids(evq'[K]), Mark, NextPacket(nx), sends'.lost)
               /\ \A x \in {0, 1} : \A i \in DOMAIN evq'[x] : evq'[x][i].of = "cam" => x = K
    <3>1. Pushed(K, e)
        BY Zenon, <1>2, <1>5, <2>2, PushTypes DEF Pushed
    <3>2. Id(e) = nx
        BY <2>2 DEF Id, nx
    <3>3. \A z \in Ids(evq[K]) : Before(z, nx)
        BY <1>3 DEF Gapless
    <3>4. evq[K] \in Seq(UsbEvent) /\ evq'[K] = Append(evq[K], e)
        BY <1>2, <3>1 DEF Pushed
    <3>5. Ordered(evq'[K]) /\ Ids(evq'[K]) = Ids(evq[K]) \cup {nx}
        BY <1>3, <2>2, <3>2, <3>3, <3>4, IdsAppend
    <3>6. Gapless(Ids(evq[K]) \cup {nx}, Mark, NextPacket(nx), sends.lost)
        BY <1>2, <1>3, GapSend
    <3>7. \A x \in {0, 1} : \A i \in DOMAIN evq'[x] : evq'[x][i].of = "cam" => x = K
        BY <1>1, <1>2, <2>2, <3>1, WherePushed DEF K
    <3> QED  BY <2>2, <3>5, <3>6, <3>7
  <2> QED  BY <2>1, <2>2, PacketIs
<1>8. InFlight(plug)'
    BY <1>4, <1>6, <1>7 DEF InFlight, K, Gapless, Ordered, Ids
<1>9. CamWhere(plug)'
    BY <1>1, <1>4, <1>7 DEF CamWhere, K, CamCtrl, Bus!Idle
<1> QED  BY <1>6, <1>8, <1>9 DEF CamInv

\* A packet of the same exposure goes on the frame.
LEMMA FrameGrows ==
    ASSUME NEW s \in Seq(Packets), OneFrame(s), NEW x \in Packets,
           s # << >> => s[Len(s)][1] = x[1] /\ s[Len(s)][2] < x[2]
    PROVE  /\ Append(s, x) \in Seq(Packets) /\ OneFrame(Append(s, x)) /\ Append(s, x) # << >>
           /\ Append(s, x)[Len(Append(s, x))] = x
<1>1. PICK l \in Nat : l = Len(s)
    BY LenProperties
<1>2. PICK p : p = Append(s, x)
    BY Zenon
<1>3. /\ p \in Seq(Packets) /\ Len(p) = l + 1 /\ p[l + 1] = x /\ \A i \in 1 .. l : p[i] = s[i]
      /\ DOMAIN s = 1 .. l /\ DOMAIN p = 1 .. l + 1
    BY <1>1, <1>2, AppendProperties, LenProperties
<1>4. p # << >>
    BY <1>3, EmptySeq
<1>5. ASSUME NEW i \in 1 .. l + 1, NEW j \in 1 .. l + 1, i < j  PROVE p[i][1] = p[j][1] /\ p[i][2] < p[j][2]
  <2>1. i \in 1 .. l /\ l \in 1 .. l
      BY <1>5
  <2>2. CASE j \in 1 .. l
      BY <1>3, <1>5, <2>1, <2>2 DEF OneFrame
  <2>3. CASE j = l + 1
    <3>1. s # << >>
        BY <1>3, <2>1, EmptySeq
    <3>2. s[l][1] = x[1] /\ s[l][2] < x[2]
        BY <1>1, <3>1
    <3>3. s[i] \in Packets /\ s[l] \in Packets
        BY <1>3, <2>1, ElementOfSeq
    <3>4. s[i][2] \in Int /\ s[l][2] \in Int /\ x[2] \in Int
        BY <3>3, PacketOrder
    <3>5. i = l \/ (s[i][1] = s[l][1] /\ s[i][2] < s[l][2])
        BY <1>3, <2>1 DEF OneFrame
    <3>6. s[i][1] = x[1] /\ s[i][2] < x[2]
        BY <3>2, <3>4, <3>5
    <3> QED  BY <1>3, <2>1, <2>3, <3>6
  <2> QED  BY <1>5, <2>2, <2>3
<1> QED  BY <1>2, <1>3, <1>4, <1>5 DEF OneFrame

\* The camera's event in the pump.
LEMMA CamHandled ==
    ASSUME NEW plug, Bus(plug)!ConstantsOK, UsbTypes(plug), CamInv(plug), NEW c \in {0, 1}, Popped(c),
           stolen' = stolen, sends' = sends, Bus(plug)!CamEvent(c, Head(evq[c])),
           cam' = Bus(plug)!cam_handle_event(Head(evq[c]))
    PROVE  Exposure' /\ InFlight(plug)' /\ cam'.on = cam.on /\ cam'.ctrl = cam.ctrl
<1> DEFINE K == CamCtrl(plug)
           nx == <<sends.frame, sends.pkt>>
<1>1. PICK e : e = Head(evq[c])
    OBVIOUS
<1>2. /\ CamWhere(plug) /\ Exposure /\ Ordered(evq[K]) /\ Gapless(Ids(evq[K]), Mark, nx, sends.lost)
      /\ InFlight(plug)
    BY DEF CamInv, InFlight
<1>3. /\ nx \in Packets /\ evq \in [{0, 1} -> Seq(UsbEvent)] /\ sends.lost \in Nat /\ sends.lost <= PKTS
      /\ PKTS \in Nat \ {0} /\ CamOK(cam) /\ sends'.lost = sends.lost /\ <<sends'.frame, sends'.pkt>> = nx
  <2>1. evq \in [{0, 1} -> Seq(UsbEvent)] /\ CamOK(cam)
      BY DEF UsbTypes
  <2>2. PKTS \in Nat \ {0} /\ LOSS \in Nat /\ LOSS <= PKTS
      BY BusIs
  <2>3. nx \in Packets /\ sends.lost \in 0 .. LOSS
      BY SendsIs
  <2>4. sends.lost \in Nat /\ sends.lost <= PKTS
      BY <2>2, <2>3
  <2> QED  BY <2>1, <2>2, <2>3, <2>4
<1>4. c = K /\ cam.on /\ e.of = "cam"
    BY <1>1, <1>2 DEF CamWhere, Bus!CamEvent
<1>5. evq'[K] = Tail(evq[K]) /\ evq[K] # << >> /\ evq[K] \in Seq(UsbEvent) /\ e = Head(evq[K]) /\ e \in UsbEvent
    BY <1>1, <1>3, <1>4, RingTail DEF Popped
<1>6. PICK h : h = Id(e)
    OBVIOUS
<1>7. /\ h \in Packets /\ h[1] = e.frame /\ h[2] = e.pkt /\ h = <<e.frame, e.pkt>> /\ e.ok \in BOOLEAN
    BY <1>4, <1>5, <1>6, CamEventIs DEF Id
<1> HIDE DEF K, nx
<1>8. /\ Ordered(evq'[K]) /\ Ids(evq'[K]) = Ids(evq[K]) \ {h} /\ h \in Ids(evq[K])
      /\ \A z \in Ids(evq[K]) \ {h} : Before(h, z)
    BY <1>2, <1>4, <1>5, <1>6, IdsTail
<1>9. Gapless(Ids(evq'[K]), {h}, nx, sends.lost)
    BY <1>2, <1>3, <1>8, GapTake
<1>10. Gapless(Ids(evq'[K]), {}, nx, sends.lost)
    BY <1>9, GapNone
<1>16. PICK m : m = Bus(plug)!cam_handle_event(e)
    BY Zenon
<1>17. /\ CamOK(m) /\ m.on = cam.on /\ m.ctrl = cam.ctrl
       /\ ~e.ok => m.fill = << >> /\ m.ready = cam.ready
       /\ e.ok => m.fid = e.frame % 2
       /\ e.ok => \E f \in {<< >>, cam.fill}, r \in {cam.fill, cam.ready} :
             /\ f # << >> => cam.fid = e.frame % 2
             /\ IF e.pkt = PKTS THEN m.ready = Append(f, h) /\ m.fill = << >>
                                ELSE m.ready = r /\ m.fill = Append(f, h)
  <2>1. CamOK(cam) /\ e \in UsbEvent /\ e.of = "cam"
      BY <1>3, <1>4, <1>5
  <2>2. /\ CamOK(m) /\ m.on = cam.on /\ m.ctrl = cam.ctrl /\ m.port = cam.port
        /\ ~e.ok => m.fill = << >> /\ m.ready = cam.ready /\ m.fid = cam.fid
        /\ e.ok => m.fid = e.frame % 2
        /\ \E f \in {<< >>, cam.fill}, r \in {cam.fill, cam.ready} :
              /\ e.ok => /\ f # << >> => cam.fid = e.frame % 2
                         /\ r = cam.fill /\ r # cam.ready => r # << >>
                         /\ IF e.pkt = PKTS THEN m.ready = Append(f, <<e.frame, e.pkt>>) /\ m.fill = << >>
                                            ELSE m.ready = r /\ m.fill = Append(f, <<e.frame, e.pkt>>)
      BY <1>16, <2>1, CamIs, Zenon
  <2> QED  BY <1>7, <2>2, Zenon
<1>18. cam' = m
    BY <1>1, <1>16
<1>11. cam'.on = cam.on /\ cam'.ctrl = cam.ctrl /\ CamOK(cam')
    BY <1>17, <1>18
<1>12. Clean' = Clean
    BY DEF Clean
<1>13. Exposure' /\ (Mark' = {} \/ Mark' = {h})
  <2>1. CASE ~Clean
    <3>1. ~Clean'
        BY <1>12, <2>1
    <3> QED  BY <3>1 DEF Exposure, Filling, Mark
  <2>2. CASE Clean /\ ~e.ok
    <3>1. cam'.fill = << >> /\ cam'.ready = cam.ready
        BY <1>17, <1>18, <2>2
    <3>2. OneFrame(cam'.ready)
        BY <1>2, <2>2, <3>1 DEF Exposure
    <3> QED  BY <3>1, <3>2, CamEmpty
  <2>3. CASE Clean /\ e.ok
    <3>1. PICK f \in {<< >>, cam.fill}, r \in {cam.fill, cam.ready} :
             /\ f # << >> => cam.fid = e.frame % 2
             /\ IF e.pkt = PKTS THEN cam'.ready = Append(f, h) /\ cam'.fill = << >>
                                ELSE cam'.ready = r /\ cam'.fill = Append(f, h)
        BY <1>17, <1>18, <2>3
    <3>2. cam'.fid = e.frame % 2
        BY <1>17, <1>18, <2>3
    <3>3. OneFrame(<< >>) /\ << >> \in Seq(Packets)
        BY DEF OneFrame
    <3>4. cam.fill \in Seq(Packets)
        BY <1>3 DEF CamOK, Packets
    <3>5. OneFrame(cam.fill) /\ OneFrame(cam.ready)
        BY <1>2, <1>4, <2>3, <3>3 DEF Exposure, Filling
    <3>6. f # << >> => f[Len(f)][1] = h[1] /\ f[Len(f)][2] < h[2]
      <4>1. SUFFICES ASSUME f # << >>  PROVE f[Len(f)][1] = h[1] /\ f[Len(f)][2] < h[2]
          OBVIOUS
      <4>2. f = cam.fill /\ Filling /\ Mark = {LastIn}
          BY <1>4, <2>3, <3>1, <4>1 DEF Filling, Mark
      <4>3. LastIn \in Packets
        <5>1. PICK l \in Nat : l = Len(cam.fill)
            BY <3>4, LenProperties
        <5>2. l \in 1 .. l
            BY <3>4, <4>2, <5>1, EmptySeq DEF Filling
        <5> QED  BY <3>4, <5>1, <5>2, ElementOfSeq DEF LastIn
      <4>4. LastIn[2] # PKTS /\ cam.fid = LastIn[1] % 2
          BY <1>2, <4>2 DEF Exposure
      <4>5. h[1] % 2 = LastIn[1] % 2
          BY <1>7, <3>1, <4>1, <4>4
      <4>6. Gapless(Ids(evq[K]), {LastIn}, nx, sends.lost)
          BY <1>2, <4>2
      <4>7. h[1] = LastIn[1] /\ LastIn[2] < h[2]
          BY Zenon, <1>3, <1>8, <4>3, <4>4, <4>5, <4>6, GapParity
      <4> QED  BY <4>2, <4>7 DEF LastIn
    <3>7. /\ OneFrame(Append(f, h)) /\ Append(f, h) # << >> /\ Append(f, h)[Len(Append(f, h))] = h
        BY ZenonT(40), <1>7, <3>1, <3>3, <3>4, <3>5, <3>6, FrameGrows
    <3>8. CASE e.pkt = PKTS
      <4>1. OneFrame(cam'.ready) /\ cam'.fill = << >>
          BY Zenon, <3>1, <3>7, <3>8
      <4> QED  BY <4>1, CamEmpty
    <3>9. CASE e.pkt # PKTS
      <4>1. PICK g : g = Append(f, h)
          BY Zenon
      <4>2. cam'.fill = g /\ cam'.ready = r /\ OneFrame(r) /\ OneFrame(g) /\ g # << >> /\ g[Len(g)] = h
          BY <3>1, <3>5, <3>7, <3>9, <4>1
      <4>3. LastIn' = h /\ Filling'
          BY Zenon, <1>4, <1>11, <1>12, <2>3, <4>2 DEF LastIn, Filling
      <4>4. h[2] # PKTS /\ cam'.fid = h[1] % 2
          BY <1>7, <3>2, <3>9
      <4> QED  BY <4>2, <4>3, <4>4 DEF Exposure, Mark, OneFrame
    <3> QED  BY <3>8, <3>9
  <2> QED  BY <1>7, <2>1, <2>2, <2>3
<1>14. Gapless(Ids(evq'[K]), Mark', nx, sends.lost)
    BY <1>9, <1>10, <1>13
<1>15. InFlight(plug)'
    BY Zenon, <1>3, <1>8, <1>14 DEF InFlight, K, Gapless, Ordered, Ids
<1> QED  BY <1>11, <1>13, <1>15

LEMMA CamPump ==
    ASSUME NEW plug, Bus(plug)!ConstantsOK, UsbTypes(plug), CamInv(plug), NEW c \in {0, 1}, Bus(plug)!rp1usb_mouse_pump(c)
    PROVE  CamInv(plug)'
<1>1. CamWhere(plug) /\ Exposure /\ InFlight(plug)
    BY DEF CamInv
<1>2. /\ usbjob = Bus(plug)!Idle /\ usbjob' = usbjob /\ sends' = sends /\ stolen' = stolen /\ Popped(c)
      /\ cam' = IF Bus(plug)!CamEvent(c, Head(evq[c])) THEN Bus(plug)!cam_handle_event(Head(evq[c])) ELSE cam
    BY PumpIs DEF Popped
<1>3. \A x \in {0, 1} : \A i \in DOMAIN evq'[x] : evq'[x][i].of = "cam" => x = CamCtrl(plug)
    BY <1>1, <1>2, WherePopped
<1>4. Exposure' /\ InFlight(plug)' /\ cam'.on = cam.on /\ cam'.ctrl = cam.ctrl
  <2>1. CASE Bus(plug)!CamEvent(c, Head(evq[c]))
    <3>1. cam' = Bus(plug)!cam_handle_event(Head(evq[c]))
        BY <1>2, <2>1
    <3> QED  BY <1>2, <2>1, <3>1, CamHandled
  <2>2. CASE ~Bus(plug)!CamEvent(c, Head(evq[c]))
    <3>1. cam' = cam /\ Clean' = Clean
        BY <1>2, <2>2 DEF Clean
    <3>2. Exposure' /\ (Mark' = {} \/ Mark' = Mark)
        BY <1>1, <3>1, CamSame
    <3>3. Mark # {} => cam.on
        BY DEF Mark, Filling
    <3>4. cam.on => ~(c = CamCtrl(plug) /\ Head(evq[c]).of = "cam")
        BY <1>1, <2>2 DEF CamWhere, Bus!CamEvent
    <3>5. InFlight(plug)'
        BY <1>1, <1>2, <3>2, <3>3, <3>4, FlightPopped
    <3> QED  BY <3>1, <3>2, <3>5
  <2> QED  BY <2>1, <2>2
<1>5. CamWhere(plug)'
    BY <1>1, <1>2, <1>3, <1>4 DEF CamWhere, CamCtrl, Bus!Idle
<1> QED  BY <1>4, <1>5 DEF CamInv

LEMMA CamNext ==
    ASSUME NEW plug, Bus(plug)!ConstantsOK, UsbTypes(plug), CamInv(plug), Bus(plug)!Next
    PROVE  CamInv(plug)'
<1>1. UsbTypes(plug)'
    BY TypesNext
<1>2. CASE Bus(plug)!UsbPhase
    BY <1>2, PhaseIs, CamStays
<1>3. CASE Bus(plug)!Scan
  <2>1. usbjob' = Bus(plug)!Idle \/ usbjob'.op = "scan"
      BY <1>3, ScanActIs
  <2> QED  BY <1>3, <2>1, ScanActIs, CamStays
<1>4. CASE Bus(plug)!Complete
  <2>1. /\ usbjob # Bus(plug)!Idle /\ usbjob'.op = usbjob.op /\ usbjob'.ctrl = usbjob.ctrl
        /\ UNCHANGED <<cam, sends, stolen>>
      BY <1>4, CompleteIs
  <2>2. PICK e \in UsbEvent : e.of = "job" /\ Bus(plug)!Push(usbjob.ctrl, e)
      BY <1>4, CompleteIs
  <2>3. usbjob.ctrl \in {0, 1} /\ evq \in [{0, 1} -> Seq(UsbEvent)]
      BY <2>1, JobIs DEF UsbTypes
  <2>4. Pushed(usbjob.ctrl, e)
      BY Zenon, <2>2, <2>3, PushTypes DEF Pushed
  <2>5. usbjob'.op # "cam" \/ usbjob'.ctrl = CamCtrl(plug)
      BY <2>1 DEF CamInv, CamWhere
  <2> QED  BY <2>1, <2>2, <2>3, <2>4, <2>5, CamGains
<1>5. CASE Bus(plug)!EventDropped
  <2>1. /\ usbjob # Bus(plug)!Idle /\ evq[usbjob.ctrl] # << >> /\ Bus(plug)!Consume /\ UNCHANGED <<cam, usbjob, sends>>
      BY <1>5, DroppedIs
  <2>2. /\ Exposure' /\ InFlight(plug)'
        /\ \A x \in {0, 1} : \A i \in DOMAIN evq'[x] : evq'[x][i].of = "cam" => x = CamCtrl(plug)
      BY <2>1, CamAnswered
  <2>3. CamWhere(plug)'
      BY <2>1, <2>2 DEF CamInv, CamWhere, CamCtrl, Bus!Idle
  <2> QED  BY <2>2, <2>3 DEF CamInv
<1>6. CASE Bus(plug)!rp1usb_step
    BY <1>1, <1>6, CamStep
<1>7. CASE Bus(plug)!rp1usb_cam_stop
  <2>1. usbjob'.op = "ctrl" /\ ~cam'.on /\ cam'.ready = cam.ready /\ UNCHANGED <<evq, sends, stolen>>
      BY <1>7, StopIs
  <2> QED  BY <2>1, CamClears
<1>8. CASE Bus(plug)!Packet
    BY <1>8, CamPacket
<1>9. ASSUME NEW h \in Hids, Bus(plug)!Report(h)  PROVE CamInv(plug)'
  <2>1. PICK e \in UsbEvent : e.of = h /\ Bus(plug)!Push(hid[h].ctrl, e)
      BY <1>9, ReportIs
  <2>2. hid[h].ctrl \in {0, 1} /\ evq \in [{0, 1} -> Seq(UsbEvent)] /\ UNCHANGED <<cam, usbjob, sends, stolen>>
      BY Zenon, <1>9, HidIs, ReportIs DEF UsbTypes
  <2>3. Pushed(hid[h].ctrl, e) /\ e.of # "cam"
      BY Zenon, <2>1, <2>2, PushTypes DEF Pushed, Hids
  <2>4. usbjob' = Bus(plug)!Idle \/ usbjob'.op # "cam" \/ usbjob'.ctrl = CamCtrl(plug)
      BY <2>2 DEF CamInv, CamWhere
  <2> QED  BY <2>1, <2>2, <2>3, <2>4, CamGains
<1>10. ASSUME NEW c \in {0, 1}, Bus(plug)!rp1usb_mouse_pump(c)  PROVE CamInv(plug)'
    BY <1>10, CamPump
<1>11. ASSUME NEW c \in {0, 1}, NEW x \in UsbOps \ {"scan"}, NEW p \in DOMAIN plug[c], Bus(plug)!UsbRequest(x, c, p)
       PROVE  CamInv(plug)'
  <2>1. /\ UNCHANGED <<evq, sends, stolen>> /\ (cam' = Bus(plug)!NoCam \/ cam' = cam)
        /\ x = "cam" => plug[c][p] = "cam"
        /\ usbjob' = Bus(plug)!Idle \/ (usbjob'.op = x /\ usbjob'.ctrl = c)
      BY <1>11, RequestIs
  <2>2. usbjob' = Bus(plug)!Idle \/ usbjob'.op # "cam" \/ usbjob'.ctrl = CamCtrl(plug)
      BY <2>1, CamCtrlIs
  <2>3. ~Bus(plug)!NoCam.on /\ Bus(plug)!NoCam.ready = << >>
      BY DEF Bus!NoCam
  <2> QED  BY <2>1, <2>2, <2>3, CamStays, CamClears
<1> QED  BY <1>2, <1>3, <1>4, <1>5, <1>6, <1>7, <1>8, <1>9, <1>10, <1>11, BusIs DEF Bus!Next

LEMMA CamInit ==
    ASSUME NEW plug, Bus(plug)!ConstantsOK, Bus(plug)!Init
    PROVE  CamInv(plug)
<1>1. /\ usbjob = Bus(plug)!Idle /\ \A c \in {0, 1} : evq[c] = << >> /\ DOMAIN evq[c] = {}
      /\ ~cam.on /\ cam.ready = << >> /\ sends.lost = 0
    BY BusIs DEF Bus!Init, Bus!NoCam
<1>2. evq[CamCtrl(plug)] = << >> /\ DOMAIN evq[CamCtrl(plug)] = {}
    BY <1>1, CamCtrlIs
<1>3. Mark = {} /\ Exposure
    BY <1>1 DEF Mark, Filling, Exposure, OneFrame
<1>4. Ids(evq[CamCtrl(plug)]) = {} /\ Ordered(evq[CamCtrl(plug)])
    BY <1>2 DEF Ids, Ordered
<1>5. IsFiniteSet({}) /\ Cardinality({}) <= 0
    BY FS_EmptySet
<1>6. InFlight(plug)
  <2>1. Gapless({}, {}, <<sends.frame, sends.pkt>>, sends.lost)
      BY <1>1, <1>5 DEF Gapless
  <2> QED  BY <1>3, <1>4, <2>1 DEF InFlight
<1>7. CamWhere(plug)
    BY <1>1 DEF CamWhere
<1> QED  BY <1>3, <1>6, <1>7 DEF CamInv

LEMMA CamWorks ==
    ASSUME NEW plug, Bus(plug)!ConstantsOK, CamInv(plug)
    PROVE  Bus(plug)!FrameOneExposure
BY BusIs DEF CamInv, Exposure, Clean, OneFrame, Bus!FrameOneExposure

\* A step that leaves the USB host alone.
LEMMA UsbStays ==
    ASSUME NEW plug, UsbTypes(plug), InputInv(plug), CamInv(plug), UNCHANGED usbvars
    PROVE  UsbTypes(plug)' /\ InputInv(plug)' /\ CamInv(plug)'
<1>1. /\ inited' = inited /\ slots' = slots /\ hid' = hid /\ armed' = armed /\ cam' = cam /\ evq' = evq
      /\ usbjob' = usbjob /\ usbtodo' = usbtodo /\ sends' = sends /\ stolen' = stolen
    BY DEF usbvars
<1>2. UsbTypes(plug)'
    BY Zenon, <1>1 DEF UsbTypes, CamOK, UsbJobOK, Bus!Idle, Bus!Steps
<1>3. CamInv(plug)'
  <2>1. usbjob' = Bus(plug)!Idle \/ usbjob'.op # "cam" \/ usbjob'.ctrl = CamCtrl(plug)
      BY <1>1 DEF CamInv, CamWhere
  <2> QED  BY <1>1, <2>1, CamStays
<1>4. InputInv(plug)'
  <2>1. HidWere /\ \A x \in {0, 1} : EventsFrom(x) /\ \E k \in {0, 1} : Shifted(x, k)
      BY <1>1, SameHid, SameEvents DEF UsbTypes
  <2>2. CmdInv(plug)' /\ SlotInv' /\ AliveInv(plug)'
      BY <1>1, <1>2, <2>1, CmdKept, SlotKept, AliveSame DEF InputInv, UsbTypes
  <2>3. FreshJob(plug)' /\ ScanSafe(plug)'
      BY <1>1 DEF InputInv, FreshJob, ScanSafe, NoneOn, Bus!Idle
  <2> QED  BY <2>2, <2>3 DEF InputInv
<1> QED  BY <1>2, <1>3, <1>4

-----------------------------------------------------------------------------
(* The scenes                                                              *)

\* The controllers and the driver are changed by the steps of the USB scenes only.
LEMMA SceneStep ==
    ASSUME [Next]_allvars
    PROVE  /\ scene' = scene
           /\ scene = "camera" => Bus(CameraPlug)!Next \/ UNCHANGED usbvars
           /\ scene = "keyboard" => Bus(KeyboardPlug)!Next \/ UNCHANGED usbvars
BY DEF Next, allvars, Rest

UsbInv(plug) == UsbTypes(plug) /\ InputInv(plug) /\ CamInv(plug)
UsbSceneInv ==
    /\ scene = "camera" => UsbInv(CameraPlug)
    /\ scene = "keyboard" => UsbInv(KeyboardPlug)

\* One step of the USB host.
LEMMA UsbNext ==
    ASSUME NEW plug, Bus(plug)!ConstantsOK, UsbInv(plug), Bus(plug)!Next \/ UNCHANGED usbvars
    PROVE  UsbInv(plug)'
<1>1. UsbTypes(plug) /\ InputInv(plug) /\ CamInv(plug)
    BY DEF UsbInv
<1>2. CASE Bus(plug)!Next
    BY <1>1, <1>2, TypesNext, InputNext, CamNext DEF UsbInv
<1>3. CASE UNCHANGED usbvars
    BY <1>1, <1>3, UsbStays DEF UsbInv
<1> QED  BY <1>2, <1>3

\* rp1usb.c, the enumeration steps, rp1usb_mouse_pump and cam_handle_event: for
\* every assignment of devices to the ports with one camera at most, every number of
\* slots, binding attempts and requests, and losses of at most one frame's packets,
\* both transfers of a bound mouse or keyboard stay in circulation until a request's
\* wait takes one, and a published frame is made of one exposure's packets in order
\* as long as no wait took a packet of the running camera.
THEOREM UsbIsSound == Spec => []UsbSound
<1>0. Bus(CameraPlug)!ConstantsOK /\ Bus(KeyboardPlug)!ConstantsOK
    BY DevicesAssumption
<1>1. Init => UsbSceneInv
  <2>1. ASSUME NEW plug, Bus(plug)!ConstantsOK, Bus(plug)!Init  PROVE UsbInv(plug)
      BY <2>1, UsbTypesInit, InputInit, CamInit DEF UsbInv
  <2>2. Init => /\ scene = "camera" => Bus(CameraPlug)!Init
                /\ scene = "keyboard" => Bus(KeyboardPlug)!Init
      BY DEF Init
  <2> QED  BY <1>0, <2>1, <2>2 DEF UsbSceneInv
<1>2. UsbSceneInv /\ [Next]_allvars => UsbSceneInv'
  <2> SUFFICES ASSUME UsbSceneInv, [Next]_allvars  PROVE UsbSceneInv'
      OBVIOUS
  <2>1. scene' = scene
      BY SceneStep
  <2>2. ASSUME scene = "camera"  PROVE UsbInv(CameraPlug)'
    <3>1. UsbInv(CameraPlug) /\ (Bus(CameraPlug)!Next \/ UNCHANGED usbvars)
        BY <2>2, SceneStep DEF UsbSceneInv
    <3> QED  BY <1>0, <3>1, UsbNext
  <2>3. ASSUME scene = "keyboard"  PROVE UsbInv(KeyboardPlug)'
    <3>1. UsbInv(KeyboardPlug) /\ (Bus(KeyboardPlug)!Next \/ UNCHANGED usbvars)
        BY <2>3, SceneStep DEF UsbSceneInv
    <3> QED  BY <1>0, <3>1, UsbNext
  <2> QED  BY <2>1, <2>2, <2>3 DEF UsbSceneInv
<1>3. UsbSceneInv => UsbSound
    BY <1>0, InputWorks, CamWorks DEF UsbSceneInv, UsbInv, UsbSound
<1> QED  BY <1>1, <1>2, <1>3, PTL DEF Spec
=============================================================================
