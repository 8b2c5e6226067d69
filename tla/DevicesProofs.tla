--------------------------- MODULE DevicesProofs ---------------------------
(***************************************************************************)
(* Theorems about the scenes of MCDevices, for every value of the          *)
(* constants: the firmware download and the state of the WiFi chip, the    *)
(* parallel loops, and the clients of remote servers.                      *)
(***************************************************************************)
EXTENDS MCDevices, FiniteSets, FiniteSetTheorems, SequenceTheorems,
        WellFoundedInduction, TLAPS

-----------------------------------------------------------------------------
(* Arithmetic                                                              *)

\* Quotient and remainder.
LEMMA DivMod ==
    ASSUME NEW a \in Nat, NEW w \in Nat \ {0}
    PROVE  /\ a \div w \in Nat /\ a % w \in Nat /\ a % w < w
           /\ (a \div w) * w + (a % w) = a
           /\ a \div w <= a
<1>1. a \div w \in Int
    OBVIOUS
<1>2. a % w \in Int /\ 0 <= a % w /\ a % w < w
    OBVIOUS
<1>3. a = w * (a \div w) + (a % w)
    OBVIOUS
<1>4. a \div w >= 0 /\ a \div w <= a
    BY <1>1, <1>2, <1>3
<1> QED  BY <1>1, <1>2, <1>3, <1>4

\* A quotient grows with the dividend.
LEMMA DivMono ==
    ASSUME NEW a \in Nat, NEW b \in Nat, a <= b, NEW w \in Nat \ {0}
    PROVE  a \div w <= b \div w
BY Z3T(40)

-----------------------------------------------------------------------------
(* Sequences                                                               *)

\* What is left of s when its first k elements are gone.
From(s, k) == [i \in 1..(Len(s) - k) |-> s[i + k]]

LEMMA FromIs ==
    ASSUME NEW S, NEW s \in Seq(S), NEW k \in 0..Len(s)
    PROVE  /\ From(s, k) \in Seq(S) /\ Len(From(s, k)) = Len(s) - k
           /\ \A i \in 1..(Len(s) - k) : From(s, k)[i] = s[i + k]
           /\ From(s, k) = << >> <=> k = Len(s)
<1>1. Len(s) \in Nat /\ Len(s) - k \in Nat
    OBVIOUS
<1>2. \A i \in 1..(Len(s) - k) : s[i + k] \in S
  <2> SUFFICES ASSUME NEW i \in 1..(Len(s) - k)  PROVE s[i + k] \in S
      OBVIOUS
  <2>1. i + k \in 1..Len(s)
      BY <1>1
  <2> QED  BY <2>1
<1>3. From(s, k) \in [1..(Len(s) - k) -> S]
    BY <1>2 DEF From
<1>4. From(s, k) \in Seq(S) /\ Len(From(s, k)) = Len(s) - k
    BY <1>1, <1>3
<1>5. From(s, k) = << >> <=> k = Len(s)
    BY <1>1, <1>4, EmptySeq
<1> QED  BY Zenon, <1>4, <1>5 DEF From

LEMMA FromZero ==
    ASSUME NEW S, NEW s \in Seq(S)
    PROVE  From(s, 0) = s
<1>1. s = [i \in 1..Len(s) |-> s[i]]
    BY LenProperties
<1> QED  BY <1>1 DEF From

LEMMA FromSubSeq ==
    ASSUME NEW S, NEW s \in Seq(S), NEW k \in 0..Len(s), NEW c \in 0..(Len(s) - k)
    PROVE  SubSeq(From(s, k), c + 1, Len(From(s, k))) = From(s, k + c)
<1> DEFINE f == From(s, k)
<1>1. f \in Seq(S) /\ Len(f) = Len(s) - k /\ \A i \in 1..(Len(s) - k) : f[i] = s[i + k]
    BY FromIs
<1>2. SubSeq(f, c + 1, Len(f)) = [i \in 1..(Len(f) - c) |-> f[i + c]]
    BY <1>1
<1>3. \A i \in 1..(Len(s) - (k + c)) : f[i + c] = s[i + (k + c)]
    BY <1>1
<1> HIDE DEF f
<1>4. [i \in 1..(Len(f) - c) |-> f[i + c]] = [i \in 1..(Len(s) - (k + c)) |-> s[i + (k + c)]]
    BY <1>1, <1>3
<1> QED  BY <1>2, <1>4 DEF From, f

LEMMA FromTail ==
    ASSUME NEW S, NEW s \in Seq(S), NEW k \in 0..(Len(s) - 1)
    PROVE  Head(From(s, k)) = s[k + 1] /\ Tail(From(s, k)) = From(s, k + 1)
<1> DEFINE f == From(s, k)
<1>1. k \in 0..Len(s) /\ k # Len(s) /\ 1 \in 0..(Len(s) - k) /\ 1 \in 1..(Len(s) - k)
    OBVIOUS
<1>2. f \in Seq(S) /\ f # << >> /\ f[1] = s[k + 1]
    BY <1>1, FromIs
<1>3. SubSeq(f, 2, Len(f)) = From(s, k + 1)
    BY <1>1, FromSubSeq
<1> HIDE DEF f
<1>4. Tail(f) = SubSeq(f, 2, Len(f))
    BY <1>2, TailIsSubSeq
<1> QED  BY <1>2, <1>3, <1>4 DEF f

-----------------------------------------------------------------------------
(* The firmware download                                                   *)

FwUnit == {"zero", "fw", "nv", "trailer"} \X Nat

\* Write w of wifi_fwload_write: 1 clears the trailer, 2 is the firmware, 3 the
\* nvram, 4 the trailer.
Buf(w) == Firmware!Writes[w].buf
Start(w) == Firmware!Writes[w].addr
Size(w) == Len(Buf(w))

\* The first n units of write w are in the RAM.
InRam(w, n) == \A a \in Start(w)..(Start(w) + n - 1) : ram[a] = Buf(w)[a - Start(w) + 1]

\* The download is in write w at offset o, a place at which a chunk begins or
\* ends; what was to be written before is there.
Writing(w, o) ==
    /\ fwtodo = From(Firmware!Writes, w)
    /\ fwjob = [buf |-> From(Buf(w), o), addr |-> Start(w) + o,
                cur_win |-> fwjob.cur_win, tries |-> fwjob.tries]
    /\ fwjob.cur_win \in {window, Firmware!NoWin}
    /\ \E Offs \in SUBSET (0..Size(w)) : Firmware!CutsInto(Offs, Size(w), Start(w)) /\ o \in Offs
    /\ InRam(w, o)
    /\ \A v \in 2..4 : v < w => InRam(v, Size(v))

FwInv ==
    /\ ram = [a \in 0..(RamSize - 1) |-> ram[a]]
    /\ fwload = "writing" => \E w \in 1..4 : \E o \in 0..Size(w) : Writing(w, o)
    /\ fwload = "done" => \A v \in 2..4 : InRam(v, Size(v))

\* What the four writes are.
LEMMA WritesAre ==
    /\ \A w \in 1..4 : /\ Buf(w) \in Seq(FwUnit) /\ Start(w) \in Nat
                       /\ Size(w) \in Nat /\ Start(w) + Size(w) <= RamSize
    /\ \A v, w \in 1..4 : v \in 2..4 /\ v < w =>
          Start(v) + Size(v) <= Start(w) \/ Start(w) + Size(w) <= Start(v)
    /\ Firmware!Writes \in Seq([buf : Seq(FwUnit), addr : Nat, cur_win : Nat, tries : Nat])
    /\ Len(Firmware!Writes) = 4
    /\ \A w \in 1..4 : Firmware!Writes[w] = [buf |-> Buf(w), addr |-> Start(w),
                                             cur_win |-> Firmware!NoWin, tries |-> 0]
    /\ Size(2) = FwLen /\ Start(2) = 0 /\ \A i \in 1..FwLen : Buf(2)[i] = <<"fw", i>>
    /\ Size(3) = NvLen /\ Start(3) = RamSize - NvLen - 1
    /\ \A i \in 1..NvLen : Buf(3)[i] = <<"nv", i>>
    /\ Size(4) = 1 /\ Start(4) = RamSize - 1 /\ Buf(4)[1] = <<"trailer", 1>>
<1> DEFINE b1 == << <<"zero", 0>> >>
           b2 == Firmware!Units("fw", FwLen)
           b3 == Firmware!Units("nv", NvLen)
           b4 == Firmware!Units("trailer", 1)
<1>0. FwLen \in Nat /\ NvLen \in Nat /\ RamSize \in Nat /\ FwLen + NvLen + 1 <= RamSize
    BY DevicesAssumption DEF Firmware!ConstantsOK
<1>a. ASSUME NEW name \in {"zero", "fw", "nv", "trailer"}, NEW n \in Nat
      PROVE  /\ Firmware!Units(name, n) \in Seq(FwUnit) /\ Len(Firmware!Units(name, n)) = n
             /\ \A i \in 1..n : Firmware!Units(name, n)[i] = <<name, i>>
  <2>1. \A i \in 1..n : <<name, i>> \in FwUnit
      BY DEF FwUnit
  <2>2. Firmware!Units(name, n) \in [1..n -> FwUnit]
      BY <2>1 DEF Firmware!Units
  <2>3. Firmware!Units(name, n) \in Seq(FwUnit) /\ Len(Firmware!Units(name, n)) = n
      BY <2>2
  <2> QED  BY <2>3 DEF Firmware!Units
<1>1. b1 \in Seq(FwUnit) /\ Len(b1) = 1
  <2>1. <<"zero", 0>> \in FwUnit
      BY DEF FwUnit
  <2> QED  BY <2>1
<1>2. b2 \in Seq(FwUnit) /\ Len(b2) = FwLen /\ \A i \in 1..FwLen : b2[i] = <<"fw", i>>
    BY <1>0, <1>a
<1>3. b3 \in Seq(FwUnit) /\ Len(b3) = NvLen /\ \A i \in 1..NvLen : b3[i] = <<"nv", i>>
    BY <1>0, <1>a
<1>4. b4 \in Seq(FwUnit) /\ Len(b4) = 1 /\ b4[1] = <<"trailer", 1>>
  <2>1. 1 \in Nat /\ 1 \in 1..1
      OBVIOUS
  <2> QED  BY Zenon, <1>a, <2>1
<1>5. Firmware!Writes =
        << [buf |-> b1, addr |-> RamSize - 1, cur_win |-> Firmware!NoWin, tries |-> 0],
           [buf |-> b2, addr |-> 0, cur_win |-> Firmware!NoWin, tries |-> 0],
           [buf |-> b3, addr |-> RamSize - NvLen - 1, cur_win |-> Firmware!NoWin, tries |-> 0],
           [buf |-> b4, addr |-> RamSize - 1, cur_win |-> Firmware!NoWin, tries |-> 0] >>
    BY DEF Firmware!Writes, Firmware!sbmem
<1> HIDE DEF b1, b2, b3, b4
<1>6. /\ Buf(1) = b1 /\ Start(1) = RamSize - 1 /\ Size(1) = 1
      /\ Buf(2) = b2 /\ Start(2) = 0 /\ Size(2) = FwLen
      /\ Buf(3) = b3 /\ Start(3) = RamSize - NvLen - 1 /\ Size(3) = NvLen
      /\ Buf(4) = b4 /\ Start(4) = RamSize - 1 /\ Size(4) = 1
    BY <1>1, <1>2, <1>3, <1>4, <1>5 DEF Buf, Start, Size
<1>7. \A w \in 1..4 : w = 1 \/ w = 2 \/ w = 3 \/ w = 4
    OBVIOUS
<1>8. \A w \in 1..4 : /\ Buf(w) \in Seq(FwUnit) /\ Start(w) \in Nat
                      /\ Size(w) \in Nat /\ Start(w) + Size(w) <= RamSize
    BY <1>0, <1>1, <1>2, <1>3, <1>4, <1>6, <1>7
<1>9. \A v, w \in 1..4 : v \in 2..4 /\ v < w =>
          Start(v) + Size(v) <= Start(w) \/ Start(w) + Size(w) <= Start(v)
  <2> SUFFICES ASSUME NEW v \in 1..4, NEW w \in 1..4, v \in 2..4, v < w
               PROVE  Start(v) + Size(v) <= Start(w) \/ Start(w) + Size(w) <= Start(v)
      OBVIOUS
  <2>1. (v = 2 /\ w = 3) \/ (v = 2 /\ w = 4) \/ (v = 3 /\ w = 4)
      OBVIOUS
  <2> QED  BY <2>1, <1>0, <1>6
<1>10. \A w \in 1..4 : Firmware!Writes[w] = [buf |-> Buf(w), addr |-> Start(w),
                                             cur_win |-> Firmware!NoWin, tries |-> 0]
    BY <1>5, <1>6, <1>7
<1>11. Len(Firmware!Writes) = 4
    BY <1>5
<1>12. Firmware!Writes \in Seq([buf : Seq(FwUnit), addr : Nat, cur_win : Nat, tries : Nat])
  <2>1. Firmware!NoWin \in Nat
      BY <1>0 DEF Firmware!NoWin
  <2> QED  BY <1>0, <1>1, <1>2, <1>3, <1>4, <1>5, <2>1
<1> QED  BY Zenon, <1>2, <1>3, <1>4, <1>6, <1>8, <1>9, <1>10, <1>11, <1>12

\* wifi_sbmem's next chunk is not empty and no longer than what is left.
LEMMA ChunkIs ==
    ASSUME NEW len \in Nat \ {0}, NEW addr \in Nat
    PROVE  Firmware!chunkAt(len, addr) \in 1..len
<1> DEFINE rem == SB_WSIZE - (addr % SB_WSIZE)
           S == {len, SB_XFER, rem}
<1>1. SB_WSIZE \in Nat \ {0} /\ SB_XFER \in Nat \ {0}
    BY DevicesAssumption DEF Firmware!ConstantsOK
<1>2. rem \in Nat \ {0}
    BY <1>1, DivMod
<1> HIDE DEF rem
<1>3. \E x \in S : \A y \in S : x <= y
    BY <1>1, <1>2
<1>4. Firmware!Least(S) \in S /\ \A y \in S : Firmware!Least(S) <= y
    BY <1>3 DEF Firmware!Least
<1>5. Firmware!chunkAt(len, addr) = Firmware!Least(S)
    BY DEF Firmware!chunkAt, rem
<1> QED  BY <1>1, <1>2, <1>4, <1>5

\* wifi_cmd53_pio with the window in place: n units of write w land where they
\* belong, and nothing else changes.
LEMMA PutIs ==
    ASSUME NEW w \in 1..4, NEW o \in 0..Size(w), Writing(w, o), o < Size(w),
           fwjob.cur_win = Firmware!win, NEW n \in 0..(Size(w) - o)
    PROVE  Firmware!Put(n) =
              [a \in DOMAIN ram |-> IF a \in (Start(w) + o)..(Start(w) + o + n - 1)
                                    THEN Buf(w)[a - Start(w) + 1] ELSE ram[a]]
<1> DEFINE addr == Start(w) + o
           base == window * SB_WSIZE + (fwjob.addr % SB_WSIZE)
<1>1. SB_WSIZE \in Nat \ {0} /\ RamSize \in Nat
    BY DevicesAssumption DEF Firmware!ConstantsOK
<1>2. /\ Buf(w) \in Seq(FwUnit) /\ Start(w) \in Nat /\ Size(w) \in Nat
      /\ Start(w) + Size(w) <= RamSize
    BY Zenon, WritesAre
<1>3. addr \in Nat /\ addr < RamSize /\ fwjob.addr = addr /\ fwjob.buf = From(Buf(w), o)
  <2>1. addr \in Nat /\ addr < RamSize
      BY <1>1, <1>2
  <2>2. fwjob.addr = addr /\ fwjob.buf = From(Buf(w), o)
      BY DEF Writing
  <2> QED  BY <2>1, <2>2
<1>4. Firmware!win = addr \div SB_WSIZE /\ Firmware!win < RamSize
    BY <1>1, <1>3, DivMod DEF Firmware!win
<1>5. window = addr \div SB_WSIZE
    BY <1>1, <1>4 DEF Writing, Firmware!NoWin
<1>6. base = addr
    BY Zenon, <1>1, <1>3, <1>5, DivMod
<1>7. \A i \in 1..(Size(w) - o) : From(Buf(w), o)[i] = Buf(w)[i + o]
    BY <1>2, FromIs DEF Size
<1>8. ASSUME NEW a \in addr..(addr + n - 1)
      PROVE  fwjob.buf[a - addr + 1] = Buf(w)[a - Start(w) + 1]
  <2>1. a - addr + 1 \in 1..(Size(w) - o) /\ (a - addr + 1) + o = a - Start(w) + 1
    <3>1. a \in Int /\ addr <= a /\ a <= addr + n - 1 /\ n <= Size(w) - o
        BY <1>2, <1>3
    <3> QED  BY <1>2, <3>1, SMTT(40)
  <2> QED  BY <2>1, <1>3, <1>7
<1>9. Firmware!Put(n) = [a \in DOMAIN ram |-> IF a \in base..(base + n - 1)
                                               THEN fwjob.buf[a - base + 1] ELSE ram[a]]
    BY DEF Firmware!Put
<1> HIDE DEF base, addr
<1>10. Firmware!Put(n) = [a \in DOMAIN ram |-> IF a \in addr..(addr + n - 1)
                                               THEN Buf(w)[a - Start(w) + 1] ELSE ram[a]]
    BY <1>6, <1>8, <1>9
<1> QED  BY <1>10 DEF addr

\* After it the RAM has n more units of write w and still has the earlier writes.
LEMMA PutKeeps ==
    ASSUME NEW w \in 1..4, NEW o \in 0..Size(w), Writing(w, o), o < Size(w),
           fwjob.cur_win = Firmware!win, NEW n \in 0..(Size(w) - o), ram' = Firmware!Put(n),
           ram = [a \in 0..(RamSize - 1) |-> ram[a]]
    PROVE  /\ ram' = [a \in 0..(RamSize - 1) |-> ram'[a]]
           /\ InRam(w, o)' /\ InRam(w, o + n)'
           /\ \A v \in 2..4 : v < w => InRam(v, Size(v))'
<1> DEFINE D == 0..(RamSize - 1)
           Hit == (Start(w) + o)..(Start(w) + o + n - 1)
<1>1. DOMAIN ram = D /\ RamSize \in Nat
    BY DevicesAssumption DEF Firmware!ConstantsOK
<1>2. ram' = [a \in D |-> IF a \in Hit THEN Buf(w)[a - Start(w) + 1] ELSE ram[a]]
    BY <1>1, PutIs
<1>3. \A v \in 1..4 : Start(v) \in Nat /\ Size(v) \in Nat /\ Start(v) + Size(v) <= RamSize
    BY Zenon, WritesAre
<1>a. Start(w) \in Nat /\ Size(w) \in Nat /\ Start(w) + Size(w) <= RamSize
    BY Zenon, <1>3
<1>b. o \in Nat /\ n \in Nat /\ o + n <= Size(w)
    BY <1>a
<1>4. \A a \in D : ram'[a] = IF a \in Hit THEN Buf(w)[a - Start(w) + 1] ELSE ram[a]
    BY <1>2
<1>5. ram' = [a \in D |-> ram'[a]]
    BY <1>2
<1>6. ASSUME NEW a \in Start(w)..(Start(w) + (o + n) - 1)
      PROVE  ram'[a] = Buf(w)[a - Start(w) + 1]
  <2>1. a \in Int /\ Start(w) <= a /\ a <= Start(w) + (o + n) - 1
      BY <1>a, <1>b
  <2>2. a \in D
      BY <1>1, <1>a, <1>b, <2>1
  <2>3. CASE a \in Hit
      BY <1>4, <2>2, <2>3
  <2>4. CASE a \notin Hit
    <3>1. a \in Start(w)..(Start(w) + o - 1)
        BY <1>a, <1>b, <2>1, <2>4
    <3>2. ram[a] = Buf(w)[a - Start(w) + 1]
        BY <3>1 DEF Writing, InRam
    <3> QED  BY <1>4, <2>2, <2>4, <3>2
  <2> QED  BY <2>3, <2>4
<1>7. InRam(w, o + n)'
    BY <1>6 DEF InRam
<1>8. InRam(w, o)'
  <2>1. \A a \in Start(w)..(Start(w) + o - 1) : a \in Start(w)..(Start(w) + (o + n) - 1)
      BY <1>a, <1>b
  <2> QED  BY <1>6, <2>1 DEF InRam
<1>9. ASSUME NEW v \in 2..4, v < w  PROVE InRam(v, Size(v))'
  <2> SUFFICES ASSUME NEW a \in Start(v)..(Start(v) + Size(v) - 1)
               PROVE  ram'[a] = Buf(v)[a - Start(v) + 1]
      BY DEF InRam
  <2>0. v \in 1..4
      OBVIOUS
  <2>1. InRam(v, Size(v))
      BY <1>9 DEF Writing
  <2>2. ram[a] = Buf(v)[a - Start(v) + 1]
      BY <2>1 DEF InRam
  <2>3. Start(v) + Size(v) <= Start(w) \/ Start(w) + Size(w) <= Start(v)
      BY Zenon, <1>9, <2>0, WritesAre
  <2>4. a \in D /\ a \notin Hit
    <3>1. /\ Start(v) \in Nat /\ Size(v) \in Nat /\ Start(v) + Size(v) <= RamSize
          /\ Start(w) \in Nat /\ Size(w) \in Nat /\ o \in Nat /\ n \in Nat /\ o + n <= Size(w)
        BY Zenon, <1>3, <1>a, <1>b, <2>0
    <3>2. a \in Int /\ Start(v) <= a /\ a <= Start(v) + Size(v) - 1
        BY <3>1
    <3> QED  BY <1>1, <2>3, <3>1, <3>2, SMTT(40)
  <2> QED  BY <1>4, <2>2, <2>4
<1> QED  BY <1>5, <1>7, <1>8, <1>9

LEMMA FwInit == Firmware!Init => FwInv
<1> SUFFICES ASSUME Firmware!Init  PROVE FwInv
    OBVIOUS
<1>1. ram = [a \in 0..(RamSize - 1) |-> <<"garbage", 0>>] /\ fwload = "idle"
    BY DEF Firmware!Init
<1> QED  BY <1>1 DEF FwInv

\* Every step of the download keeps FwInv.
LEMMA FwNext == FwInv /\ Firmware!Next => FwInv'
<1> SUFFICES ASSUME FwInv, Firmware!Next  PROVE FwInv'
    OBVIOUS
<1> USE DEF Firmware!Fail
<1>0. ram = [a \in 0..(RamSize - 1) |-> ram[a]]
    BY DEF FwInv
<1>1. CASE Firmware!wifi_fwload_write
  <2>1. /\ fwjob' = Head(Firmware!Writes) /\ fwtodo' = Tail(Firmware!Writes)
        /\ fwload' = "writing" /\ ram' = ram
      BY <1>1 DEF Firmware!wifi_fwload_write
  <2>3. Firmware!Writes[1] = [buf |-> Buf(1), addr |-> Start(1), cur_win |-> Firmware!NoWin, tries |-> 0]
      BY WritesAre
  <2>4. Buf(1) \in Seq(FwUnit) /\ Start(1) \in Nat /\ Size(1) \in Nat
      BY WritesAre
  <2>5. fwjob' = Firmware!Writes[1] /\ fwtodo' = From(Firmware!Writes, 1)
    <3>1. From(Firmware!Writes, 0) = Firmware!Writes /\ Len(Firmware!Writes) = 4
        BY WritesAre, FromZero
    <3>2. Head(From(Firmware!Writes, 0)) = Firmware!Writes[0 + 1]
          /\ Tail(From(Firmware!Writes, 0)) = From(Firmware!Writes, 0 + 1)
      <4>1. 0 \in 0..(Len(Firmware!Writes) - 1)
          BY <3>1
      <4> QED  BY Zenon, <4>1, WritesAre, FromTail
    <3> QED  BY <2>1, <3>1, <3>2
  <2>6. From(Buf(1), 0) = Buf(1)
      BY <2>4, FromZero
  <2>7. \E Offs \in SUBSET (0..Size(1)) : Firmware!CutsInto(Offs, Size(1), Start(1)) /\ 0 \in Offs
    <3>1. PICK Offs \in SUBSET (0..Size(1)) : Firmware!CutsInto(Offs, Size(1), Start(1))
        BY DevicesAssumption DEF Firmware!ConstantsOK, Size, Buf, Start
    <3>2. 0 \in Offs
        BY <3>1 DEF Firmware!CutsInto
    <3> QED  BY <3>1, <3>2
  <2>8. Writing(1, 0)'
    <3>1. /\ fwjob' = [buf |-> From(Buf(1), 0), addr |-> Start(1) + 0,
                      cur_win |-> fwjob'.cur_win, tries |-> fwjob'.tries]
          /\ fwjob'.cur_win = Firmware!NoWin
        BY <2>3, <2>4, <2>5, <2>6
    <3>2. InRam(1, 0)'
        BY <2>4 DEF InRam
    <3> QED  BY <2>5, <2>7, <3>1, <3>2 DEF Writing
  <2>9. 0 \in 0..Size(1)
      BY <2>4
  <2> QED  BY <1>0, <2>1, <2>8, <2>9 DEF FwInv
<1>2. ASSUME fwload = "writing", NEW w \in 1..4, NEW o \in 0..Size(w), Writing(w, o),
             Firmware!sdio_set_window \/ Firmware!wifi_cmd53_pio \/ Firmware!NextWrite
      PROVE  FwInv'
  <2> DEFINE W == Firmware!Writes
  <2>a. /\ Buf(w) \in Seq(FwUnit) /\ Start(w) \in Nat /\ Size(w) \in Nat /\ o \in Nat
        /\ o <= Size(w) /\ Size(w) = Len(Buf(w))
    <3>1. Buf(w) \in Seq(FwUnit) /\ Start(w) \in Nat /\ Size(w) \in Nat /\ Size(w) = Len(Buf(w))
        BY Zenon, WritesAre DEF Size
    <3> QED  BY <3>1
  <2>b. /\ fwjob = [buf |-> From(Buf(w), o), addr |-> Start(w) + o,
                    cur_win |-> fwjob.cur_win, tries |-> fwjob.tries]
        /\ fwjob.buf = From(Buf(w), o) /\ fwjob.addr = Start(w) + o
        /\ fwtodo = From(W, w) /\ fwjob.cur_win \in {window, Firmware!NoWin}
        /\ InRam(w, o) /\ \A v \in 2..4 : v < w => InRam(v, Size(v))
      BY <1>2 DEF Writing
  <2>c. PICK Offs \in SUBSET (0..Size(w)) :
            Firmware!CutsInto(Offs, Size(w), Start(w)) /\ o \in Offs
      BY <1>2 DEF Writing
  <2>d. Len(fwjob.buf) = Size(w) - o /\ (fwjob.buf = << >> <=> o = Size(w))
      BY <2>a, <2>b, FromIs
  <2>f. ASSUME fwload' = "failed", ram' = [a \in 0..(RamSize - 1) |-> ram'[a]]
        PROVE  FwInv'
      BY <2>f DEF FwInv
  <2>1. CASE Firmware!sdio_set_window
    <3>1. CASE /\ window' = Firmware!win /\ fwjob' = [fwjob EXCEPT !.cur_win = Firmware!win]
               /\ UNCHANGED <<fwtodo, fwload>>
      <4>1. ram' = ram
          BY <2>1 DEF Firmware!sdio_set_window
      <4>2. fwjob' = [buf |-> From(Buf(w), o), addr |-> Start(w) + o,
                      cur_win |-> window', tries |-> fwjob.tries]
          BY <2>b, <3>1
      <4>3. fwjob' = [buf |-> From(Buf(w), o), addr |-> Start(w) + o,
                      cur_win |-> fwjob'.cur_win, tries |-> fwjob'.tries]
            /\ fwjob'.cur_win = window'
          BY <4>2
      <4>4. Writing(w, o)'
          BY <2>b, <2>c, <3>1, <4>1, <4>3 DEF Writing, InRam
      <4>5. fwload' = "writing"
          BY <1>2, <3>1
      <4> QED  BY <1>0, <4>1, <4>4, <4>5 DEF FwInv
    <3>2. CASE Firmware!Fail
      <4>1. ram' = ram
          BY <2>1 DEF Firmware!sdio_set_window
      <4> QED  BY <1>0, <2>f, <3>2, <4>1
    <3> QED  BY <2>1, <3>1, <3>2 DEF Firmware!sdio_set_window
  <2>2. CASE Firmware!wifi_cmd53_pio
    <3>0. PICK c : c = Firmware!chunk
        OBVIOUS
    <3>1. o < Size(w) /\ fwjob.cur_win = Firmware!win
        BY <2>2, <2>a, <2>d DEF Firmware!wifi_cmd53_pio
    <3>2. c = Firmware!chunkAt(Size(w) - o, Start(w) + o)
        BY <2>b, <2>d, <3>0 DEF Firmware!chunk
    <3>3. c \in 1..(Size(w) - o)
        BY <2>a, <3>1, <3>2, ChunkIs
    <3>4. (c <= BSIZE \/ c % BSIZE = 0) /\ o + c \in Offs
        BY <2>c, <3>1, <3>2 DEF Firmware!CutsInto
    <3>5. Firmware!total(c) = c
      <4>1. c \in Nat /\ BSIZE \in Nat \ {0}
          BY <3>3, <2>a, DevicesAssumption DEF Firmware!ConstantsOK
      <4>2. (c \div BSIZE) * BSIZE + (c % BSIZE) = c /\ c \div BSIZE \in Nat
          BY <4>1, DivMod
      <4> QED  BY <3>4, <4>1, <4>2 DEF Firmware!total
    <3>6. CASE /\ ram' = Firmware!Put(Firmware!total(Firmware!chunk))
               /\ fwjob' = [fwjob EXCEPT !.buf = SubSeq(@, Firmware!chunk + 1, Len(@)),
                                         !.addr = @ + Firmware!chunk, !.tries = 0]
               /\ UNCHANGED <<fwtodo, fwload>>
      <4>1. ram' = Firmware!Put(c) /\ c \in 0..(Size(w) - o)
          BY <2>a, <3>0, <3>3, <3>5, <3>6
      <4>2. /\ ram' = [a \in 0..(RamSize - 1) |-> ram'[a]]
            /\ InRam(w, o + c)' /\ \A v \in 2..4 : v < w => InRam(v, Size(v))'
          BY <1>0, <1>2, <3>1, <4>1, PutKeeps
      <4>3. SubSeq(fwjob.buf, c + 1, Len(fwjob.buf)) = From(Buf(w), o + c)
          BY Zenon, <2>a, <2>b, <4>1, FromSubSeq
      <4>4. fwjob' = [buf |-> From(Buf(w), o + c), addr |-> (Start(w) + o) + c,
                      cur_win |-> fwjob.cur_win, tries |-> 0]
          BY Zenon, <2>b, <3>0, <3>6, <4>3
      <4>5. (Start(w) + o) + c = Start(w) + (o + c) /\ o + c \in 0..Size(w)
          BY <2>a, <3>3
      <4>6. window' = window
          BY <2>2 DEF Firmware!wifi_cmd53_pio
      <4>7. /\ fwjob' = [buf |-> From(Buf(w), o + c), addr |-> Start(w) + (o + c),
                         cur_win |-> fwjob'.cur_win, tries |-> fwjob'.tries]
            /\ fwjob'.cur_win \in {window', Firmware!NoWin}
          BY <2>b, <4>4, <4>5, <4>6
      <4>8. ASSUME NEW p, p = o + c  PROVE Writing(w, p)'
          BY <2>b, <2>c, <3>4, <3>6, <4>2, <4>7, <4>8 DEF Writing
      <4>9. fwload' = "writing"
          BY <1>2, <3>6
      <4>10. \E p \in 0..Size(w) : Writing(w, p)'
          BY <4>5, <4>8
      <4> QED  BY <4>2, <4>9, <4>10 DEF FwInv
    <3>7. ASSUME NEW n \in 0..Firmware!total(Firmware!chunk), ram' = Firmware!Put(n),
                 IF fwjob.tries + 1 < RETRIES
                 THEN fwjob' = [fwjob EXCEPT !.tries = @ + 1] /\ UNCHANGED <<fwtodo, fwload>>
                 ELSE Firmware!Fail
          PROVE  FwInv'
      <4>1. n \in 0..(Size(w) - o)
          BY <2>a, <3>0, <3>3, <3>5, <3>7
      <4>2. /\ ram' = [a \in 0..(RamSize - 1) |-> ram'[a]]
            /\ InRam(w, o)' /\ \A v \in 2..4 : v < w => InRam(v, Size(v))'
          BY <1>0, <1>2, <3>1, <3>7, <4>1, PutKeeps
      <4>3. CASE fwjob' = [fwjob EXCEPT !.tries = @ + 1] /\ UNCHANGED <<fwtodo, fwload>>
        <5>1. fwjob' = [buf |-> From(Buf(w), o), addr |-> Start(w) + o,
                        cur_win |-> fwjob.cur_win, tries |-> fwjob.tries + 1]
            BY <2>b, <4>3
        <5>2. window' = window
            BY <2>2 DEF Firmware!wifi_cmd53_pio
        <5>3. /\ fwjob' = [buf |-> From(Buf(w), o), addr |-> Start(w) + o,
                           cur_win |-> fwjob'.cur_win, tries |-> fwjob'.tries]
              /\ fwjob'.cur_win \in {window', Firmware!NoWin}
            BY <2>b, <5>1, <5>2
        <5>4. Writing(w, o)'
            BY <2>b, <2>c, <4>2, <4>3, <5>3 DEF Writing
        <5> QED  BY <1>2, <4>2, <4>3, <5>4 DEF FwInv
      <4>4. CASE Firmware!Fail
          BY <2>f, <4>2, <4>4
      <4> QED  BY <3>7, <4>3, <4>4
    <3>8. CASE Firmware!Fail /\ ram' = ram
        BY <1>0, <2>f, <3>8
    <3> QED  BY <2>2, <3>6, <3>7, <3>8 DEF Firmware!wifi_cmd53_pio
  <2>3. CASE Firmware!NextWrite
    <3>1. o = Size(w) /\ ram' = ram /\ window' = window
        BY <2>3, <2>d DEF Firmware!NextWrite
    <3>2. \A v \in 2..4 : v <= w => InRam(v, Size(v))'
      <4>1. \A v \in 2..4 : v <= w => v < w \/ v = w
          OBVIOUS
      <4> QED  BY <2>b, <3>1, <4>1 DEF InRam
    <3>3. W \in Seq([buf : Seq(FwUnit), addr : Nat, cur_win : Nat, tries : Nat]) /\ Len(W) = 4
        BY WritesAre
    <3>4. fwtodo = << >> <=> w = 4
      <4>1. w \in 0..Len(W)
          BY <3>3
      <4> QED  BY <2>b, <3>3, <4>1, FromIs, ZenonT(40)
    <3>5. CASE fwtodo = << >>
      <4>1. fwload' = "done"
          BY <2>3, <3>5 DEF Firmware!NextWrite
      <4>2. \A v \in 2..4 : v <= w
          BY <3>4, <3>5
      <4> QED  BY <1>0, <3>1, <3>2, <4>1, <4>2 DEF FwInv
    <3>6. CASE fwtodo # << >>
      <4>1. fwjob' = Head(fwtodo) /\ fwtodo' = Tail(fwtodo) /\ fwload' = "writing"
          BY <1>2, <2>3, <3>6 DEF Firmware!NextWrite
      <4>2. w \in 0..(Len(W) - 1) /\ w + 1 \in 1..4
          BY <3>3, <3>4, <3>6
      <4>3. fwjob' = W[w + 1] /\ fwtodo' = From(W, w + 1)
          BY Zenon, <2>b, <3>3, <4>1, <4>2, FromTail
      <4>4. ASSUME NEW x \in 1..4, x = w + 1  PROVE Writing(x, 0)' /\ 0 \in 0..Size(x)
        <5>1. /\ Buf(x) \in Seq(FwUnit) /\ Start(x) \in Nat /\ Size(x) \in Nat
              /\ W[x] = [buf |-> Buf(x), addr |-> Start(x), cur_win |-> Firmware!NoWin, tries |-> 0]
            BY Zenon, WritesAre
        <5>2. From(Buf(x), 0) = Buf(x)
            BY <5>1, FromZero
        <5>3. /\ fwjob' = [buf |-> From(Buf(x), 0), addr |-> Start(x) + 0,
                           cur_win |-> fwjob'.cur_win, tries |-> fwjob'.tries]
              /\ fwjob'.cur_win = Firmware!NoWin
            BY <4>3, <4>4, <5>1, <5>2
        <5>4. \E Of \in SUBSET (0..Size(x)) : Firmware!CutsInto(Of, Size(x), Start(x)) /\ 0 \in Of
          <6>1. PICK Of \in SUBSET (0..Size(x)) : Firmware!CutsInto(Of, Size(x), Start(x))
              BY DevicesAssumption DEF Firmware!ConstantsOK, Size, Buf, Start
          <6>2. 0 \in Of
              BY <6>1 DEF Firmware!CutsInto
          <6> QED  BY <6>1, <6>2
        <5>5. InRam(x, 0)'
            BY <5>1 DEF InRam
        <5>6. \A v \in 2..4 : v < x => InRam(v, Size(v))'
            BY <3>2, <4>4
        <5>7. Writing(x, 0)'
            BY <4>3, <4>4, <5>3, <5>4, <5>5, <5>6 DEF Writing
        <5> QED  BY <5>1, <5>7
      <4> QED  BY <1>0, <3>1, <4>1, <4>2, <4>4 DEF FwInv
    <3> QED  BY <3>5, <3>6
  <2> QED  BY <1>2, <2>1, <2>2, <2>3
<1>3. CASE Firmware!sdio_set_window \/ Firmware!wifi_cmd53_pio \/ Firmware!NextWrite
  <2>1. fwload = "writing"
      BY <1>3 DEF Firmware!sdio_set_window, Firmware!wifi_cmd53_pio, Firmware!NextWrite
  <2>2. PICK w \in 1..4 : \E o \in 0..Size(w) : Writing(w, o)
      BY <2>1 DEF FwInv
  <2>3. PICK o \in 0..Size(w) : Writing(w, o)
      BY <2>2
  <2> QED  BY <1>2, <1>3, <2>1, <2>3
<1> QED  BY <1>1, <1>3 DEF Firmware!Next

LEMMA FwWhole == FwInv => Firmware!RamWhole
<1> SUFFICES ASSUME FwInv, fwload = "done"
             PROVE  /\ \A i \in 1..FwLen : ram[i - 1] = <<"fw", i>>
                    /\ \A i \in 1..NvLen : ram[RamSize - NvLen - 2 + i] = <<"nv", i>>
                    /\ ram[RamSize - 1] = <<"trailer", 1>>
    BY DEF Firmware!RamWhole
<1>0. FwLen \in Nat /\ NvLen \in Nat /\ RamSize \in Nat
    BY DevicesAssumption DEF Firmware!ConstantsOK
<1>a. /\ Size(2) = FwLen /\ Start(2) = 0
      /\ Size(3) = NvLen /\ Start(3) = RamSize - NvLen - 1
      /\ Size(4) = 1 /\ Start(4) = RamSize - 1
    BY WritesAre
<1>1. InRam(2, Size(2)) /\ InRam(3, Size(3)) /\ InRam(4, Size(4))
    BY DEF FwInv
<1>2. ASSUME NEW i \in 1..FwLen  PROVE ram[i - 1] = <<"fw", i>>
  <2>1. i - 1 \in Start(2)..(Start(2) + Size(2) - 1) /\ (i - 1) - Start(2) + 1 = i
      BY <1>0, <1>a
  <2>2. Buf(2)[i] = <<"fw", i>>
      BY Zenon, WritesAre
  <2> QED  BY <1>1, <2>1, <2>2 DEF InRam
<1>3. ASSUME NEW i \in 1..NvLen  PROVE ram[RamSize - NvLen - 2 + i] = <<"nv", i>>
  <2> DEFINE a == RamSize - NvLen - 2 + i
  <2>1. a \in Start(3)..(Start(3) + Size(3) - 1) /\ a - Start(3) + 1 = i
      BY <1>0, <1>a
  <2>2. Buf(3)[i] = <<"nv", i>>
      BY Zenon, WritesAre
  <2> QED  BY <1>1, <2>1, <2>2 DEF InRam
<1>4. ram[RamSize - 1] = <<"trailer", 1>>
  <2>1. RamSize - 1 \in Start(4)..(Start(4) + Size(4) - 1) /\ (RamSize - 1) - Start(4) + 1 = 1
      BY <1>0, <1>a
  <2>2. Buf(4)[1] = <<"trailer", 1>>
      BY Zenon, WritesAre
  <2> QED  BY <1>1, <2>1, <2>2 DEF InRam
<1> QED  BY <1>2, <1>3, <1>4

-----------------------------------------------------------------------------
(* The commands that need the chip                                         *)

\* wifi_ready is only ever set at the end of the last stage, so an entry that
\* finds it set, or that brings the chip up with nothing left out, has a chip
\* that runs.
RadioInv ==
    /\ wifi_ready \in BOOLEAN /\ (wifi_ready => chip = 6)
    /\ unready = FALSE

LEMMA RadioInit == Radio!Init => RadioInv
BY Zenon DEF Radio!Init, RadioInv

\* What the public entries do first leaves the invariant, and says up only of a
\* chip that is.
LEMMA EnsureIs ==
    ASSUME RadioInv, NEW s \in {Radio!Off} \cup Radio!Stage, Radio!Ensure(s)
    PROVE  /\ wifi_ready' \in BOOLEAN /\ (wifi_ready' => chip' = 6)
           /\ Radio!Up(s) /\ g_wifi_stop = 99 => s = 6
<1>1. CASE wifi_ready
    BY <1>1 DEF RadioInv, Radio!Ensure
<1>2. CASE ~wifi_ready
  <2>1. chip' = s /\ wifi_ready' = (s = 6)
      BY <1>2 DEF Radio!Ensure, Radio!wifi_bringup, Radio!ReadyAt
  <2>2. Radio!Up(s) /\ g_wifi_stop = 99 => s = 6
      BY <1>2 DEF Radio!Up, Radio!Goal
  <2> QED  BY Zenon, <2>1, <2>2
<1> QED  BY <1>1, <1>2 DEF RadioInv

LEMMA RadioNext == RadioInv /\ Radio!Next => RadioInv'
<1> SUFFICES ASSUME RadioInv, Radio!Next  PROVE RadioInv'
    OBVIOUS
<1>a. ASSUME NEW s \in {Radio!Off} \cup Radio!Stage, Radio!Ensure(s),
             (Radio!Up(s) /\ Radio!Used(s)) \/ unready' = unready
      PROVE  RadioInv'
  <2>1. /\ wifi_ready' \in BOOLEAN /\ (wifi_ready' => chip' = 6)
        /\ Radio!Up(s) /\ g_wifi_stop = 99 => s = 6
      BY <1>a, EnsureIs
  <2>2. unready' = FALSE
      BY Zenon, <1>a, <2>1 DEF RadioInv, Radio!Used
  <2> QED  BY <2>1, <2>2 DEF RadioInv
<1>b. ASSUME NEW k, NEW s, Radio!wifi_bringup(k, s), unready' = unready  PROVE RadioInv'
    BY Zenon, <1>b DEF RadioInv, Radio!wifi_bringup, Radio!ReadyAt
<1>1. CASE Radio!wifi_probe
  <2>1. CASE wifi_ready
      BY <1>1, <2>1 DEF RadioInv, Radio!wifi_probe
  <2>2. CASE ~wifi_ready
      BY <1>1, <1>b, <2>2 DEF Radio!wifi_probe
  <2> QED  BY <2>1, <2>2
<1>2. ASSUME NEW k \in Radio!Stage, Radio!wifi_probe_stage(k)  PROVE RadioInv'
    BY <1>2, <1>b DEF Radio!wifi_probe_stage
<1>3. CASE Radio!wifi_scan_run
    BY <1>3, <1>a DEF Radio!wifi_scan_run
<1>4. CASE Radio!wifi_dhcp \/ Radio!wifi_off
    BY <1>4 DEF RadioInv, Radio!wifi_dhcp, Radio!wifi_off, Radio!dev
<1>5. ASSUME NEW ssid \in Ssid, Radio!wifi_join_run(ssid)  PROVE RadioInv'
    BY <1>5, <1>a DEF Radio!wifi_join_run
<1>6. ASSUME NEW ssid \in Ssid, Radio!wifi_adhoc(ssid)  PROVE RadioInv'
    BY <1>6, <1>a DEF Radio!wifi_adhoc
<1> QED  BY <1>1, <1>2, <1>3, <1>4, <1>5, <1>6 DEF Radio!Next

-----------------------------------------------------------------------------
(* The parallel loops                                                      *)

Live(s) == task[s].st # "free"

\* The unit in slot s belongs to the present call of loop k.
Mine(k, s) == Live(s) /\ task[s].kind = k /\ task[s].call = loop[k].call

\* The places of the call's list whose unit has not counted itself yet, and
\* those whose unit has not even worked yet.
Uncounted(k) ==
    {i \in 1..loop[k].t : /\ Mine(k, loop[k].pids[i])
                          /\ task[loop[k].pids[i]].st \in {"susp", "ready", "worked"}}
Idling(k, i) ==
    Mine(k, loop[k].pids[i]) /\ task[loop[k].pids[i]].st \in {"susp", "ready"}

Indices == Loops!Kind \X Nat \X Nat
Task == [st : {"free", "susp", "ready", "worked", "counted"}, kind : Loops!Kind,
         unit : Nat, call : Nat, gen : Nat]
Job == [pc : {"idle", "spawn", "own", "wait"}, call : Nat, t : Nat, pids : Seq(Loops!Slot),
        done : Nat, gen : Nat, own : SUBSET Indices]

LoopTypes ==
    /\ loop \in [Loops!Kind -> Job] /\ task \in [Loops!Slot -> Task]
    /\ res \in [Loops!Kind -> [Loops!Slot -> SUBSET Indices]]
    /\ hung \in BOOLEAN /\ wrong = FALSE

\* The generation of a stack follows from the call that uses it.
GenOf(call) == (call - 1) % SP_GEN
Generations ==
    /\ sp_gen = loop["par"].call % SP_GEN
    /\ loop["par"].pc # "idle" =>
          loop["par"].call >= 1 /\ loop["par"].gen = GenOf(loop["par"].call)
    /\ \A s \in Loops!Slot : Live(s) /\ task[s].kind = "par" =>
          task[s].call >= 1 /\ task[s].gen = GenOf(task[s].call)

\* Units are numbered in the order they were created, and no call has two units
\* of one number.
Numbered ==
    /\ \A k \in Loops!Kind : Len(loop[k].pids) = loop[k].t /\ loop[k].t <= UNITS
    /\ \A s \in Loops!Slot : Live(s) => task[s].call <= loop[task[s].kind].call
    /\ \A k \in Loops!Kind : \A s \in Loops!Slot : Mine(k, s) =>
          task[s].unit + 1 \in 1..loop[k].t /\ loop[k].pids[task[s].unit + 1] = s
    /\ \A s, r \in Loops!Slot :
          /\ Live(s) /\ Live(r) /\ task[s].kind = task[r].kind
          /\ task[s].call = task[r].call /\ task[s].unit = task[r].unit
          => s = r

\* Units are suspended exactly while their loop is creating them, each in a slot
\* of its own.
Spawning ==
    /\ \A k \in Loops!Kind : loop[k].pc = "spawn" =>
          \A i \in 1..loop[k].t : Mine(k, loop[k].pids[i]) /\ task[loop[k].pids[i]].st = "susp"
    /\ \A s \in Loops!Slot : task[s].st = "susp" =>
          Mine(task[s].kind, s) /\ loop[task[s].kind].pc = "spawn"
    /\ \A k \in Loops!Kind : \A i, j \in 1..loop[k].t :
          loop[k].pids[i] = loop[k].pids[j] => i = j

\* As long as no wait was broken off: units of earlier calls have counted
\* themselves, the count is right, and what has been worked is the unit's part.
Exact ==
    ~hung =>
    /\ \A s \in Loops!Slot :
          Live(s) /\ (task[s].call # loop[task[s].kind].call \/ loop[task[s].kind].pc = "idle")
          => task[s].st = "counted"
    /\ \A k \in Loops!Kind : loop[k].done + Cardinality(Uncounted(k)) = loop[k].t
    /\ \A k \in Loops!Kind : \A i \in 1..loop[k].t : ~Idling(k, i) =>
          res[k][loop[k].pids[i]] =
              Loops!Work(k, loop[k].call, Loops!First(i - 1), Loops!First(i))
    /\ \A k \in Loops!Kind : loop[k].pc = "wait" =>
          loop[k].own = Loops!Work(k, loop[k].call, Loops!First(loop[k].t), N)

LoopInv == LoopTypes /\ Generations /\ Numbered /\ Spawning /\ Exact

-----------------------------------------------------------------------------
\* The constants, and where the units begin.
LEMMA LoopConstants ==
    /\ N \in Nat /\ UNITS \in Nat \ {0} /\ SLOTS \in Nat /\ SP_GEN \in Nat \ {0}
BY DevicesAssumption DEF Loops!ConstantsOK

LEMMA FirstIs ==
    /\ Loops!First(0) = 0
    /\ \A i \in Nat : Loops!First(i) \in Nat
    /\ \A i, j \in Nat : i <= j => Loops!First(i) <= Loops!First(j)
    /\ \A i \in Nat : i <= UNITS => Loops!First(i) <= N
<1>1. N \in Nat /\ UNITS \in Nat \ {0}
    BY LoopConstants
<1>2. \A i \in Nat : i * N \in Nat
    BY <1>1
<1>3. Loops!First(0) = 0
    BY <1>1 DEF Loops!First
<1>4. \A i \in Nat : Loops!First(i) \in Nat
    BY <1>1, <1>2, DivMod DEF Loops!First
<1>5. ASSUME NEW i \in Nat, NEW j \in Nat, i <= j  PROVE Loops!First(i) <= Loops!First(j)
  <2>1. i * N <= j * N
      BY <1>1, <1>5
  <2> QED  BY <1>1, <1>2, <2>1, DivMono DEF Loops!First
<1>6. ASSUME NEW i \in Nat, i <= UNITS  PROVE Loops!First(i) <= N
  <2>1. (UNITS * N) \div UNITS = N
      BY <1>1
  <2> QED  BY <1>1, <1>5, <1>6, <2>1 DEF Loops!First
<1> QED  BY <1>3, <1>4, <1>5, <1>6

\* Every set of numbers has a least element.
LEMMA LeastNumber ==
    ASSUME NEW T, T \subseteq Nat, T # {}
    PROVE  \E x \in T : \A y \in T : x <= y
<1> DEFINE R == OpToRel(<, Nat)
<1>1. IsWellFoundedOn(R, Nat)
    BY Zenon, NatLessThanWellFounded
<1>2. \A x, y \in Nat : x < y => <<x, y>> \in R
    BY DEF OpToRel
<1> HIDE DEF R
<1>3. PICK x \in T : \A y \in T : ~ (<<y, x>> \in R)
    BY Zenon, <1>1, WFMin
<1>4. ASSUME NEW y \in T  PROVE x <= y
  <2>1. x \in Nat /\ y \in Nat /\ ~ (y < x)
      BY Zenon, <1>2, <1>3
  <2> QED  BY <2>1
<1> QED  BY <1>4

\* The parts of the units and the caller's own part make up the range, once.
LEMMA PartsTile ==
    ASSUME NEW k \in Loops!Kind, NEW c \in Nat, NEW n \in Nat, n <= UNITS
    PROVE  /\ Loops!Work(k, c, Loops!First(n), N)
                 \cup UNION {Loops!Work(k, c, Loops!First(i - 1), Loops!First(i)) : i \in 1..n}
              = Loops!Work(k, c, 0, N)
           /\ \A i, j \in 1..n : i # j =>
                 Loops!Work(k, c, Loops!First(i - 1), Loops!First(i))
                     \cap Loops!Work(k, c, Loops!First(j - 1), Loops!First(j)) = {}
<1> DEFINE F(i) == Loops!First(i)
           Part(i) == Loops!Work(k, c, F(i - 1), F(i))
<1>1. /\ F(0) = 0 /\ \A i \in Nat : F(i) \in Nat
      /\ \A i, j \in Nat : i <= j => F(i) <= F(j)
      /\ F(n) <= N /\ N \in Nat
    BY FirstIs, LoopConstants
<1> HIDE DEF F
<1>2. ASSUME NEW i \in 1..n  PROVE /\ F(i - 1) \in Nat /\ F(i) \in Nat
                                   /\ F(i - 1) <= F(i) /\ F(i) <= F(n)
  <2>1. i - 1 \in Nat /\ i \in Nat /\ i - 1 <= i /\ i <= n
      OBVIOUS
  <2> QED  BY <1>1, <2>1
<1>3. ASSUME NEW x \in 0..(N - 1), x < F(n)  PROVE \E i \in 1..n : x \in F(i - 1)..(F(i) - 1)
  <2> DEFINE T == {i \in 0..n : x < F(i)}
  <2>1. n \in T /\ T \subseteq Nat
      BY <1>3
  <2>2. PICK i \in T : \A y \in T : i <= y
      BY Zenon, <2>1, LeastNumber
  <2>3. i \in 0..n /\ x < F(i) /\ x \in Nat
      BY <1>1
  <2>4. i # 0
      BY <1>1, <2>3
  <2>5. i \in 1..n /\ i - 1 \in 0..n
      BY <2>3, <2>4
  <2>6. ~ (x < F(i - 1))
      BY <2>2, <2>5
  <2>7. F(i - 1) \in Nat /\ F(i) \in Nat
      BY <1>2, <2>5
  <2> QED  BY <2>3, <2>5, <2>6, <2>7
<1>4. Loops!Work(k, c, F(n), N) \cup UNION {Part(i) : i \in 1..n} \subseteq Loops!Work(k, c, 0, N)
  <2>1. ASSUME NEW i \in 1..n, NEW x \in F(i - 1)..(F(i) - 1)  PROVE x \in 0..(N - 1)
    <3>1. F(i - 1) \in Nat /\ F(i) \in Nat /\ F(i) <= F(n) /\ F(n) \in Nat
        BY <1>1, <1>2
    <3> QED  BY <1>1, <3>1
  <2>2. \A x \in F(n)..(N - 1) : x \in 0..(N - 1)
      BY <1>1
  <2>3. ASSUME NEW i \in 1..n  PROVE Part(i) \subseteq Loops!Work(k, c, 0, N)
      BY <2>1 DEF Loops!Work
  <2>4. Loops!Work(k, c, F(n), N) \subseteq Loops!Work(k, c, 0, N)
      BY <2>2 DEF Loops!Work
  <2> HIDE DEF Part
  <2> QED  BY <2>3, <2>4
<1>5. Loops!Work(k, c, 0, N) \subseteq Loops!Work(k, c, F(n), N) \cup UNION {Part(i) : i \in 1..n}
  <2> SUFFICES ASSUME NEW x \in 0..(N - 1)
               PROVE  <<k, c, x>> \in Loops!Work(k, c, F(n), N) \cup UNION {Part(i) : i \in 1..n}
      BY DEF Loops!Work
  <2>1. CASE x < F(n)
    <3>1. PICK i \in 1..n : x \in F(i - 1)..(F(i) - 1)
        BY <1>3, <2>1
    <3>2. <<k, c, x>> \in Part(i)
        BY <3>1 DEF Loops!Work
    <3> QED  BY <3>2
  <2>2. CASE ~ (x < F(n))
    <3>1. x \in F(n)..(N - 1)
        BY <1>1, <2>2
    <3>2. <<k, c, x>> \in Loops!Work(k, c, F(n), N)
        BY <3>1 DEF Loops!Work
    <3> QED  BY <3>2
  <2> QED  BY <2>1, <2>2
<1>6. ASSUME NEW i \in 1..n, NEW j \in 1..n, i # j  PROVE Part(i) \cap Part(j) = {}
  <2>1. \A a, b \in 1..n : a < b => \A x \in F(a - 1)..(F(a) - 1) : x \notin F(b - 1)..(F(b) - 1)
    <3> SUFFICES ASSUME NEW a \in 1..n, NEW b \in 1..n, a < b, NEW x \in F(a - 1)..(F(a) - 1)
                 PROVE  x \notin F(b - 1)..(F(b) - 1)
        OBVIOUS
    <3>1. a \in Nat /\ b - 1 \in Nat /\ a <= b - 1
        OBVIOUS
    <3>2. F(a) <= F(b - 1) /\ F(a) \in Nat /\ F(b - 1) \in Nat /\ F(a - 1) \in Nat
        BY <1>1, <1>2, <3>1
    <3> QED  BY <3>2
  <2>2. i < j \/ j < i
      BY <1>6
  <2>3. \A x \in F(i - 1)..(F(i) - 1) : x \notin F(j - 1)..(F(j) - 1)
      BY <2>1, <2>2
  <2> QED  BY <2>3 DEF Loops!Work
<1> QED  BY <1>4, <1>5, <1>6 DEF F

-----------------------------------------------------------------------------
LEMMA LoopInit == Loops!PInit => LoopInv
<1> SUFFICES ASSUME Loops!PInit  PROVE LoopInv
    OBVIOUS
<1>0. SP_GEN \in Nat \ {0} /\ UNITS \in Nat
    BY LoopConstants
<1>1. /\ loop = [k \in Loops!Kind |-> Loops!Begun("idle", 0, 0)]
      /\ task = [s \in Loops!Slot |-> Loops!NoTask]
      /\ res = [k \in Loops!Kind |-> [s \in Loops!Slot |-> {}]]
      /\ sp_gen = 0 /\ hung = FALSE /\ wrong = FALSE
    BY DEF Loops!PInit, Loops!Idle
<1>2. ASSUME NEW k \in Loops!Kind
      PROVE  /\ loop[k].pc = "idle" /\ loop[k].call = 0 /\ loop[k].t = 0 /\ loop[k].pids = << >>
             /\ loop[k].done = 0 /\ loop[k] \in Job
  <2>1. loop[k] = [pc |-> "idle", call |-> 0, t |-> 0, pids |-> << >>, done |-> 0, gen |-> 0, own |-> {}]
      BY <1>1 DEF Loops!Begun
  <2>2. << >> \in Seq(Loops!Slot) /\ {} \in SUBSET Indices
      OBVIOUS
  <2> QED  BY <2>1, <2>2 DEF Job
<1>3. ASSUME NEW s \in Loops!Slot  PROVE task[s].st = "free" /\ task[s] \in Task
  <2>1. task[s] = Loops!NoTask
      BY <1>1
  <2> QED  BY <2>1 DEF Loops!NoTask, Task, Loops!Kind
<1>4. "par" \in Loops!Kind
    BY DEF Loops!Kind
<1>5. LoopTypes
    BY Zenon, <1>1, <1>2, <1>3 DEF LoopTypes
<1>6. Generations
    BY <1>0, <1>1, <1>2, <1>3, <1>4 DEF Generations, Live
<1>7. Numbered /\ Spawning
    BY <1>0, <1>2, <1>3 DEF Numbered, Spawning, Live, Mine
<1>8. Exact
  <2>1. \A k \in Loops!Kind : Uncounted(k) = {}
      BY <1>2 DEF Uncounted
  <2>2. Cardinality({}) = 0
      BY FS_EmptySet
  <2>3. \A k \in Loops!Kind : 1..loop[k].t = {} /\ loop[k].done + 0 = loop[k].t /\ loop[k].pc # "wait"
      BY <1>2
  <2> QED  BY Zenon, <1>3, <2>1, <2>2, <2>3 DEF Exact, Live
<1> QED  BY <1>5, <1>6, <1>7, <1>8 DEF LoopInv

\* What a call starts from.
LEMMA BegunIs ==
    ASSUME NEW pc \in {"idle", "spawn", "own", "wait"}, NEW c \in Nat, NEW g \in Nat
    PROVE  LET b == Loops!Begun(pc, c, g)
           IN  /\ b \in Job /\ b.pc = pc /\ b.call = c /\ b.t = 0 /\ b.pids = << >>
               /\ b.done = 0 /\ b.gen = g
<1>1. << >> \in Seq(Loops!Slot) /\ {} \in SUBSET Indices /\ 0 \in Nat
    OBVIOUS
<1> QED  BY <1>1 DEF Loops!Begun, Job

\* A call begins: nothing that still lives is a unit of it.
LEMMA CallStep ==
    ASSUME LoopInv, NEW k \in Loops!Kind, NEW g \in Nat, loop[k].pc = "idle",
           loop' = [loop EXCEPT ![k] = Loops!Begun("spawn", loop[k].call + 1, g)],
           UNCHANGED <<task, res, hung, wrong>>
    PROVE  /\ LoopTypes' /\ Numbered' /\ Spawning' /\ Exact'
           /\ loop'[k].call = loop[k].call + 1 /\ loop'[k].gen = g
           /\ \A q \in Loops!Kind : q # k => loop'[q] = loop[q]
<1>0. UNITS \in Nat
    BY LoopConstants
<1>1. loop \in [Loops!Kind -> Job] /\ task \in [Loops!Slot -> Task]
    BY DEF LoopInv, LoopTypes
<1>2. /\ loop'[k].pc = "spawn" /\ loop'[k].call = loop[k].call + 1 /\ loop'[k].t = 0
      /\ loop'[k].pids = << >> /\ loop'[k].done = 0 /\ loop'[k].gen = g /\ loop'[k] \in Job
  <2>1. loop'[k] = Loops!Begun("spawn", loop[k].call + 1, g)
      BY <1>1
  <2>2. loop[k].call + 1 \in Nat
      BY <1>1 DEF Job
  <2> QED  BY <2>1, <2>2, BegunIs
<1>3. \A q \in Loops!Kind : q # k => loop'[q] = loop[q]
    BY <1>1
<1>4. loop' \in [Loops!Kind -> Job]
    BY <1>1, <1>2, <1>3
<1>5. LoopTypes'
    BY <1>4 DEF LoopInv, LoopTypes
<1>6. \A s \in Loops!Slot : Live(s) => task[s].call <= loop[task[s].kind].call
    BY DEF LoopInv, Numbered
<1>7. \A s \in Loops!Slot : task[s].call \in Nat /\ task[s].kind \in Loops!Kind
    BY <1>1 DEF Task
<1>8. loop[k].call \in Nat
    BY <1>1 DEF Job
<1>9. \A s \in Loops!Slot : ~ Mine(k, s)'
    BY <1>2, <1>6, <1>7, <1>8 DEF Mine, Live
<1>10. \A q \in Loops!Kind : q # k => \A s \in Loops!Slot : Mine(q, s)' <=> Mine(q, s)
    BY <1>3 DEF Mine, Live
<1>11. \A s \in Loops!Slot : Live(s)' <=> Live(s)
    BY DEF Live
<1>12. Numbered'
  <2>1. \A q \in Loops!Kind : Len(loop'[q].pids) = loop'[q].t /\ loop'[q].t <= UNITS
      BY <1>0, <1>2, <1>3 DEF LoopInv, Numbered
  <2>2. \A s \in Loops!Slot : Live(s)' => task'[s].call <= loop'[task'[s].kind].call
      BY <1>2, <1>3, <1>6, <1>7, <1>8, <1>11
  <2>3. \A q \in Loops!Kind : \A s \in Loops!Slot : Mine(q, s)' =>
          task'[s].unit + 1 \in 1..loop'[q].t /\ loop'[q].pids[task'[s].unit + 1] = s
      BY <1>3, <1>9, <1>10 DEF LoopInv, Numbered
  <2> QED  BY <1>11, <2>1, <2>2, <2>3 DEF LoopInv, Numbered
<1>13. Spawning'
  <2>1. \A q \in Loops!Kind : loop'[q].pc = "spawn" => \A i \in 1..loop'[q].t :
          Mine(q, loop[q].pids[i])' /\ task'[loop'[q].pids[i]].st = "susp"
    <3> SUFFICES ASSUME NEW q \in Loops!Kind, loop'[q].pc = "spawn", NEW i \in 1..loop'[q].t
                 PROVE  Mine(q, loop[q].pids[i])' /\ task'[loop'[q].pids[i]].st = "susp"
        OBVIOUS
    <3>1. q # k
        BY <1>2
    <3>2. loop'[q] = loop[q]
        BY <1>3, <3>1
    <3> QED  BY <3>2 DEF LoopInv, Spawning, Mine, Live
  <2>2. \A s \in Loops!Slot : task'[s].st = "susp" =>
          Mine(task[s].kind, s)' /\ loop'[task'[s].kind].pc = "spawn"
    <3> SUFFICES ASSUME NEW s \in Loops!Slot, task'[s].st = "susp"
                 PROVE  Mine(task[s].kind, s)' /\ loop'[task'[s].kind].pc = "spawn"
        OBVIOUS
    <3>1. Mine(task[s].kind, s) /\ loop[task[s].kind].pc = "spawn"
        BY DEF LoopInv, Spawning
    <3>2. task[s].kind # k
        BY <3>1
    <3> QED  BY <1>3, <1>7, <3>1, <3>2 DEF Mine, Live
  <2>3. \A q \in Loops!Kind : \A i, j \in 1..loop'[q].t :
          loop'[q].pids[i] = loop'[q].pids[j] => i = j
      BY <1>2, <1>3 DEF LoopInv, Spawning
  <2> QED  BY <2>1, <2>2, <2>3 DEF Spawning
<1>14. Exact'
  <2> SUFFICES ASSUME hung = FALSE  PROVE Exact'
      BY Zenon, <1>5 DEF Exact, LoopTypes
  <2>0. Exact /\ ~hung
      BY DEF LoopInv
  <2>1. \A s \in Loops!Slot :
          Live(s)' /\ (task'[s].call # loop'[task'[s].kind].call \/ loop'[task'[s].kind].pc = "idle")
          => task'[s].st = "counted"
    <3> SUFFICES ASSUME NEW s \in Loops!Slot, Live(s),
                        task[s].call # loop'[task[s].kind].call \/ loop'[task[s].kind].pc = "idle"
                 PROVE  task[s].st = "counted"
        BY <1>11
    <3>1. CASE task[s].kind = k
        BY <2>0, <3>1 DEF Exact
    <3>2. CASE task[s].kind # k
      <4>1. loop'[task[s].kind] = loop[task[s].kind]
          BY <1>3, <1>7, <3>2
      <4> QED  BY <2>0, <4>1 DEF Exact
    <3> QED  BY <3>1, <3>2
  <2>2. \A q \in Loops!Kind : loop'[q].done + Cardinality(Uncounted(q)') = loop'[q].t
    <3> SUFFICES ASSUME NEW q \in Loops!Kind
                 PROVE  loop'[q].done + Cardinality(Uncounted(q)') = loop'[q].t
        OBVIOUS
    <3>1. CASE q = k
      <4>1. Uncounted(q)' = {}
          BY <1>2, <3>1 DEF Uncounted
      <4> QED  BY <1>2, <3>1, <4>1, FS_EmptySet
    <3>2. CASE q # k
      <4>1. Uncounted(q)' = Uncounted(q)
          BY <1>3, <3>2 DEF Uncounted, Mine, Live
      <4> QED  BY <1>3, <2>0, <3>2, <4>1 DEF Exact
    <3> QED  BY <3>1, <3>2
  <2>3. \A q \in Loops!Kind : \A i \in 1..loop'[q].t : ~Idling(q, i)' =>
          res'[q][loop'[q].pids[i]] =
              Loops!Work(q, loop'[q].call, Loops!First(i - 1), Loops!First(i))
    <3> SUFFICES ASSUME NEW q \in Loops!Kind, NEW i \in 1..loop'[q].t, ~Idling(q, i)'
                 PROVE  res'[q][loop'[q].pids[i]] =
                          Loops!Work(q, loop'[q].call, Loops!First(i - 1), Loops!First(i))
        OBVIOUS
    <3>1. loop'[q] = loop[q]
        BY <1>2, <1>3
    <3>2. ~Idling(q, i)
        BY <3>1 DEF Idling, Mine, Live
    <3> QED  BY <2>0, <3>1, <3>2 DEF Exact
  <2>4. \A q \in Loops!Kind : loop'[q].pc = "wait" =>
          loop'[q].own = Loops!Work(q, loop'[q].call, Loops!First(loop'[q].t), N)
      BY <1>2, <1>3, <2>0 DEF Exact
  <2> QED  BY <2>1, <2>2, <2>3, <2>4 DEF Exact
<1> QED  BY <1>2, <1>3, <1>5, <1>12, <1>13, <1>14

-----------------------------------------------------------------------------
\* What LoopTypes says of one loop and of one slot.
LEMMA Fields ==
    ASSUME LoopTypes
    PROVE  /\ loop \in [Loops!Kind -> Job] /\ task \in [Loops!Slot -> Task]
           /\ \A k \in Loops!Kind :
                 /\ loop[k].pc \in {"idle", "spawn", "own", "wait"} /\ loop[k].call \in Nat
                 /\ loop[k].t \in Nat /\ loop[k].pids \in Seq(Loops!Slot)
                 /\ loop[k].done \in Nat /\ loop[k].gen \in Nat
                 /\ loop[k].own \in SUBSET Indices
           /\ \A s \in Loops!Slot :
                 /\ task[s].st \in {"free", "susp", "ready", "worked", "counted"}
                 /\ task[s].kind \in Loops!Kind /\ task[s].unit \in Nat
                 /\ task[s].call \in Nat /\ task[s].gen \in Nat
<1>1. loop \in [Loops!Kind -> Job] /\ task \in [Loops!Slot -> Task]
    BY DEF LoopTypes
<1>2. \A k \in Loops!Kind : loop[k] \in Job
    BY <1>1
<1>3. \A s \in Loops!Slot : task[s] \in Task
    BY <1>1
<1>4. \A x \in Job : /\ x.pc \in {"idle", "spawn", "own", "wait"} /\ x.call \in Nat
                     /\ x.t \in Nat /\ x.pids \in Seq(Loops!Slot) /\ x.done \in Nat
                     /\ x.gen \in Nat /\ x.own \in SUBSET Indices
    BY DEF Job
<1>5. \A x \in Task : /\ x.st \in {"free", "susp", "ready", "worked", "counted"}
                      /\ x.kind \in Loops!Kind /\ x.unit \in Nat /\ x.call \in Nat
                      /\ x.gen \in Nat
    BY DEF Task
<1> HIDE DEF Job, Task
<1> QED  BY <1>1, <1>2, <1>3, <1>4, <1>5

\* The list of a loop names slots, and what is not counted yet is a finite set.
LEMMA Listed ==
    ASSUME LoopTypes, Numbered, NEW k \in Loops!Kind
    PROVE  /\ \A i \in 1..loop[k].t : loop[k].pids[i] \in Loops!Slot
           /\ IsFiniteSet(Uncounted(k)) /\ Cardinality(Uncounted(k)) \in Nat
           /\ Uncounted(k) \subseteq 1..loop[k].t
<1>1. loop[k].t \in Nat /\ loop[k].pids \in Seq(Loops!Slot) /\ Len(loop[k].pids) = loop[k].t
    BY Fields DEF Numbered
<1>2. Uncounted(k) \subseteq 1..loop[k].t
    BY DEF Uncounted
<1>3. IsFiniteSet(1..loop[k].t)
    BY <1>1, FS_Interval
<1>4. IsFiniteSet(Uncounted(k))
    BY Zenon, <1>2, <1>3, FS_Subset
<1> QED  BY <1>1, <1>2, <1>4, FS_CardinalityType

\* A loop that is past creating its units changes its own place only.
LEMMA PcStep ==
    ASSUME LoopInv, NEW k \in Loops!Kind, loop[k].pc \in {"own", "wait"},
           loop' \in [Loops!Kind -> Job], loop'[k].pc \in {"wait", "idle"},
           loop'[k].call = loop[k].call, loop'[k].t = loop[k].t,
           loop'[k].pids = loop[k].pids, loop'[k].done = loop[k].done,
           loop'[k].gen = loop[k].gen,
           \A q \in Loops!Kind : q # k => loop'[q] = loop[q],
           UNCHANGED <<task, res, sp_gen>>
    PROVE  /\ Generations' /\ Numbered' /\ Spawning'
           /\ \A q \in Loops!Kind : Uncounted(q)' = Uncounted(q)
           /\ \A q \in Loops!Kind : \A i \in 1..loop[q].t : Idling(q, i)' <=> Idling(q, i)
           /\ \A s \in Loops!Slot : Live(s)' <=> Live(s)
<1>1. \A q \in Loops!Kind : /\ loop'[q].call = loop[q].call /\ loop'[q].t = loop[q].t
                            /\ loop'[q].pids = loop[q].pids /\ loop'[q].gen = loop[q].gen
    OBVIOUS
<1>2. \A q \in Loops!Kind : loop'[q].pc = "spawn" <=> loop[q].pc = "spawn"
    OBVIOUS
<1>3. \A q \in Loops!Kind : loop'[q].pc # "idle" => loop[q].pc # "idle"
    OBVIOUS
<1>4. \A s \in Loops!Slot : Live(s)' <=> Live(s)
    BY DEF Live
<1>5. \A q \in Loops!Kind : \A s \in Loops!Slot : Mine(q, s)' <=> Mine(q, s)
    BY <1>1 DEF Mine, Live
<1>6. \A s \in Loops!Slot : task[s].kind \in Loops!Kind
    BY Fields DEF LoopInv
<1>7. "par" \in Loops!Kind
    BY DEF Loops!Kind
<1>8. Generations'
    BY <1>1, <1>3, <1>4, <1>7 DEF LoopInv, Generations, GenOf
<1>9. Numbered'
    BY <1>1, <1>4, <1>5, <1>6 DEF LoopInv, Numbered
<1>10. \A q \in Loops!Kind : \A i \in 1..loop[q].t : loop[q].pids[i] \in Loops!Slot
    BY Listed DEF LoopInv
<1>11. Spawning'
  <2>1. \A q \in Loops!Kind : loop'[q].pc = "spawn" => \A i \in 1..loop'[q].t :
          Mine(q, loop[q].pids[i])' /\ task'[loop'[q].pids[i]].st = "susp"
      BY <1>1, <1>2 DEF LoopInv, Spawning, Mine, Live
  <2>2. \A s \in Loops!Slot : task'[s].st = "susp" =>
          Mine(task[s].kind, s)' /\ loop'[task'[s].kind].pc = "spawn"
      BY <1>1, <1>2, <1>6 DEF LoopInv, Spawning, Mine, Live
  <2>3. \A q \in Loops!Kind : \A i, j \in 1..loop'[q].t :
          loop'[q].pids[i] = loop'[q].pids[j] => i = j
      BY <1>1 DEF LoopInv, Spawning
  <2> QED  BY <2>1, <2>2, <2>3 DEF Spawning
<1>12. \A q \in Loops!Kind : Uncounted(q)' = Uncounted(q)
    BY <1>1 DEF Uncounted, Mine, Live
<1>13. \A q \in Loops!Kind : \A i \in 1..loop[q].t : Idling(q, i)' <=> Idling(q, i)
    BY <1>1 DEF Idling, Mine, Live
<1> QED  BY <1>4, <1>8, <1>9, <1>11, <1>12, <1>13

LEMMA WorkIs ==
    ASSUME NEW k \in Loops!Kind, NEW c \in Nat, NEW lo \in Nat, NEW hi \in Nat
    PROVE  Loops!Work(k, c, lo, hi) \in SUBSET Indices
<1>1. \A i \in lo..(hi - 1) : i \in Nat
    OBVIOUS
<1> QED  BY <1>1 DEF Loops!Work, Indices

\* The caller works on what is left.
LEMMA OwnStep ==
    ASSUME LoopInv, NEW k \in Loops!Kind, Loops!Own(k)
    PROVE  LoopInv'
<1> DEFINE w == Loops!Work(k, loop[k].call, Loops!First(loop[k].t), N)
<1>0. /\ loop \in [Loops!Kind -> Job] /\ loop[k].t \in Nat /\ loop[k].call \in Nat
      /\ loop[k] \in Job /\ Len(loop[k].pids) = loop[k].t /\ N \in Nat
    BY Fields, LoopConstants DEF LoopInv, Numbered
<1>1. /\ loop[k].pc = "own" /\ UNCHANGED <<task, res, sp_gen, hung, wrong>>
      /\ loop' = [loop EXCEPT ![k].pc = "wait", ![k].own = w]
    BY <1>0 DEF Loops!Own, Loops!OwnFrom
<1>2. w \in SUBSET Indices
    BY Zenon, <1>0, FirstIs, WorkIs
<1> HIDE DEF w
<1>3. loop'[k] = [loop[k] EXCEPT !.pc = "wait", !.own = w]
    BY <1>0, <1>1
<1>4. /\ loop'[k] \in Job /\ loop'[k].pc = "wait" /\ loop'[k].own = w
      /\ loop'[k].call = loop[k].call /\ loop'[k].t = loop[k].t
      /\ loop'[k].pids = loop[k].pids /\ loop'[k].done = loop[k].done
      /\ loop'[k].gen = loop[k].gen
    BY Zenon, <1>0, <1>2, <1>3 DEF Job
<1>5. \A q \in Loops!Kind : q # k => loop'[q] = loop[q]
    BY <1>0, <1>1
<1>6. loop' \in [Loops!Kind -> Job]
    BY <1>0, <1>1, <1>4, <1>5
<1>7. LoopTypes'
    BY <1>1, <1>6 DEF LoopInv, LoopTypes
<1>8. /\ Generations' /\ Numbered' /\ Spawning'
      /\ \A q \in Loops!Kind : Uncounted(q)' = Uncounted(q)
      /\ \A q \in Loops!Kind : \A i \in 1..loop[q].t : Idling(q, i)' <=> Idling(q, i)
      /\ \A s \in Loops!Slot : Live(s)' <=> Live(s)
    BY <1>1, <1>4, <1>5, <1>6, PcStep
<1>9. Exact'
  <2> SUFFICES ASSUME hung = FALSE  PROVE Exact'
      BY Zenon, <1>1, <1>7 DEF Exact, LoopTypes
  <2>0. Exact /\ ~hung
      BY DEF LoopInv
  <2>1. \A s \in Loops!Slot : task[s].kind \in Loops!Kind
      BY Fields DEF LoopInv
  <2>2. \A q \in Loops!Kind : /\ loop'[q].call = loop[q].call /\ loop'[q].t = loop[q].t
                              /\ loop'[q].pids = loop[q].pids /\ loop'[q].done = loop[q].done
                              /\ loop'[q].pc = "idle" => loop[q].pc = "idle"
      BY <1>4, <1>5
  <2>3. \A q \in Loops!Kind : loop'[q].pc = "wait" =>
          loop'[q].own = Loops!Work(q, loop'[q].call, Loops!First(loop'[q].t), N)
      BY <1>4, <1>5, <2>0 DEF Exact, w
  <2>4. \A s \in Loops!Slot :
          Live(s)' /\ (task'[s].call # loop'[task'[s].kind].call \/ loop'[task'[s].kind].pc = "idle")
          => task'[s].st = "counted"
      BY <1>1, <1>8, <2>0, <2>1, <2>2 DEF Exact
  <2>5. \A q \in Loops!Kind : loop'[q].done + Cardinality(Uncounted(q)') = loop'[q].t
      BY <1>8, <2>0, <2>2 DEF Exact
  <2>6. \A q \in Loops!Kind : \A i \in 1..loop'[q].t : ~Idling(q, i)' =>
          res'[q][loop'[q].pids[i]] =
              Loops!Work(q, loop'[q].call, Loops!First(i - 1), Loops!First(i))
    <3> SUFFICES ASSUME NEW q \in Loops!Kind, NEW i \in 1..loop'[q].t, ~Idling(q, i)'
                 PROVE  res'[q][loop'[q].pids[i]] =
                          Loops!Work(q, loop'[q].call, Loops!First(i - 1), Loops!First(i))
        OBVIOUS
    <3>1. i \in 1..loop[q].t /\ ~Idling(q, i)
        BY <1>8, <2>2
    <3> QED  BY <1>1, <2>0, <2>2, <3>1, ZenonT(40) DEF Exact
  <2> QED  BY <2>3, <2>4, <2>5, <2>6 DEF Exact
<1> QED  BY <1>7, <1>8, <1>9 DEF LoopInv

\* When all units of a call have counted themselves the parts are there.
LEMMA AllCounted ==
    ASSUME LoopInv, ~hung, NEW k \in Loops!Kind, loop[k].done >= loop[k].t
    PROVE  /\ Uncounted(k) = {}
           /\ \A i \in 1..loop[k].t : res[k][loop[k].pids[i]] =
                 Loops!Work(k, loop[k].call, Loops!First(i - 1), Loops!First(i))
           /\ \A s \in Loops!Slot : Mine(k, s) => task[s].st = "counted"
<1>1. /\ loop[k].done \in Nat /\ loop[k].t \in Nat
      /\ IsFiniteSet(Uncounted(k)) /\ Cardinality(Uncounted(k)) \in Nat
    BY Fields, Listed DEF LoopInv
<1>2. loop[k].done + Cardinality(Uncounted(k)) = loop[k].t
    BY DEF LoopInv, Exact
<1>3. Uncounted(k) = {}
  <2>1. Cardinality(Uncounted(k)) = 0
      BY <1>1, <1>2
  <2> QED  BY <1>1, <2>1, FS_EmptySet
<1>4. ASSUME NEW i \in 1..loop[k].t  PROVE ~Idling(k, i)
    BY <1>3 DEF Uncounted, Idling
<1>5. ASSUME NEW s \in Loops!Slot, Mine(k, s)  PROVE task[s].st = "counted"
  <2>1. task[s].unit + 1 \in 1..loop[k].t /\ loop[k].pids[task[s].unit + 1] = s
      BY <1>5 DEF LoopInv, Numbered
  <2>2. task[s].unit + 1 \notin Uncounted(k)
      BY <1>3
  <2>3. task[s].st \notin {"susp", "ready", "worked"}
      BY <1>5, <2>1, <2>2 DEF Uncounted
  <2> QED  BY <1>5, <2>3, Fields DEF Mine, Live, LoopInv
<1> QED  BY <1>3, <1>4, <1>5 DEF LoopInv, Exact

\* The caller adds up.
LEMMA FinishStep ==
    ASSUME LoopInv, NEW k \in Loops!Kind, Loops!Finish(k)
    PROVE  LoopInv'
<1>0. /\ loop \in [Loops!Kind -> Job] /\ loop[k].t \in Nat /\ loop[k].call \in Nat
      /\ loop[k].pids \in Seq(Loops!Slot) /\ loop[k].done \in Nat
      /\ loop[k] \in Job /\ Len(loop[k].pids) = loop[k].t /\ loop[k].t <= UNITS
      /\ hung \in BOOLEAN /\ wrong = FALSE
    BY Zenon, Fields DEF LoopInv, Numbered, LoopTypes
<1>1. /\ loop[k].pc = "wait" /\ UNCHANGED <<task, res, sp_gen>>
      /\ loop' = [loop EXCEPT ![k].pc = "idle"]
      /\ (loop[k].done >= loop[k].t /\ hung' = hung) \/ hung' = TRUE
    BY <1>0 DEF Loops!Finish
<1>2. DOMAIN loop[k].pids = 1..loop[k].t
    BY <1>0
<1>3. wrong' = FALSE
  <2> DEFINE j == loop[k]
             part == [i \in DOMAIN j.pids |-> res[k][j.pids[i]]]
             bad == \/ Loops!Total(k) # Loops!Work(k, j.call, 0, N)
                    \/ \E i1, i2 \in DOMAIN part : i1 # i2 /\ part[i1] \cap part[i2] # {}
  <2>1. wrong' = (wrong \/ (~hung' /\ bad))
      BY DEF Loops!Finish
  <2>2. CASE hung' = TRUE
      BY Zenon, <1>0, <2>1, <2>2
  <2>3. CASE hung' # TRUE
    <3> DEFINE P(i) == Loops!Work(k, j.call, Loops!First(i - 1), Loops!First(i))
    <3>0. hung' = hung /\ hung = FALSE /\ ~hung /\ loop[k].done >= loop[k].t
        BY Zenon, <1>0, <1>1, <2>3
    <3>1. \A i \in 1..loop[k].t : res[k][loop[k].pids[i]] = P(i)
        BY <3>0, AllCounted
    <3>2. loop[k].own = Loops!Work(k, loop[k].call, Loops!First(loop[k].t), N)
        BY <1>1, <3>0 DEF LoopInv, Exact
    <3>3. /\ Loops!Work(k, loop[k].call, Loops!First(loop[k].t), N)
                \cup UNION {P(i) : i \in 1..loop[k].t} = Loops!Work(k, loop[k].call, 0, N)
          /\ \A i1, i2 \in 1..loop[k].t : i1 # i2 => P(i1) \cap P(i2) = {}
        BY <1>0, PartsTile
    <3> HIDE DEF P
    <3>4. {res[k][loop[k].pids[i]] : i \in DOMAIN loop[k].pids} = {P(i) : i \in 1..loop[k].t}
        BY <1>2, <3>1
    <3>5. Loops!Total(k) = Loops!Work(k, j.call, 0, N)
        BY Zenon, <3>2, <3>3, <3>4 DEF Loops!Total
    <3>6. \A i1, i2 \in DOMAIN part : i1 # i2 => part[i1] \cap part[i2] = {}
        BY <1>2, <3>1, <3>3
    <3>7. ~bad
        BY Zenon, <3>5, <3>6
    <3> HIDE DEF bad
    <3> QED  BY Zenon, <1>0, <2>1, <3>7
  <2> QED  BY Zenon, <2>2, <2>3
<1>4. /\ loop'[k] \in Job /\ loop'[k].pc = "idle" /\ loop'[k].own = loop[k].own
      /\ loop'[k].call = loop[k].call /\ loop'[k].t = loop[k].t
      /\ loop'[k].pids = loop[k].pids /\ loop'[k].done = loop[k].done
      /\ loop'[k].gen = loop[k].gen
  <2>1. loop'[k] = [loop[k] EXCEPT !.pc = "idle"]
      BY <1>0, <1>1
  <2> QED  BY Zenon, <1>0, <2>1 DEF Job
<1>5. \A q \in Loops!Kind : q # k => loop'[q] = loop[q]
    BY <1>0, <1>1
<1>6. loop' \in [Loops!Kind -> Job]
    BY <1>0, <1>1, <1>4, <1>5
<1>7. LoopTypes'
    BY Zenon, <1>0, <1>1, <1>3, <1>6 DEF LoopInv, LoopTypes
<1>8. /\ Generations' /\ Numbered' /\ Spawning'
      /\ \A q \in Loops!Kind : Uncounted(q)' = Uncounted(q)
      /\ \A q \in Loops!Kind : \A i \in 1..loop[q].t : Idling(q, i)' <=> Idling(q, i)
      /\ \A s \in Loops!Slot : Live(s)' <=> Live(s)
    BY <1>1, <1>4, <1>5, <1>6, PcStep
<1>9. Exact'
  <2> SUFFICES ASSUME hung' = FALSE  PROVE Exact'
      BY Zenon, <1>7 DEF Exact, LoopTypes
  <2>0. Exact /\ hung = FALSE /\ ~hung /\ loop[k].done >= loop[k].t
      BY <1>0, <1>1 DEF LoopInv
  <2>1. \A s \in Loops!Slot : task[s].kind \in Loops!Kind
      BY Fields DEF LoopInv
  <2>2. \A q \in Loops!Kind : /\ loop'[q].call = loop[q].call /\ loop'[q].t = loop[q].t
                              /\ loop'[q].pids = loop[q].pids /\ loop'[q].done = loop[q].done
                              /\ loop'[q].own = loop[q].own
                              /\ loop'[q].pc = "wait" => loop[q].pc = "wait"
      BY <1>4, <1>5
  <2>3. \A s \in Loops!Slot :
          Live(s)' /\ (task'[s].call # loop'[task'[s].kind].call \/ loop'[task'[s].kind].pc = "idle")
          => task'[s].st = "counted"
    <3> SUFFICES ASSUME NEW s \in Loops!Slot, Live(s),
                        task[s].call # loop[task[s].kind].call \/ loop'[task[s].kind].pc = "idle"
                 PROVE  task[s].st = "counted"
        BY <1>1, <1>8, <2>1, <2>2
    <3>1. CASE task[s].kind # k
      <4>1. loop'[task[s].kind] = loop[task[s].kind]
          BY <1>5, <2>1, <3>1
      <4> QED  BY <2>0, <4>1 DEF Exact
    <3>2. CASE task[s].kind = k /\ task[s].call # loop[task[s].kind].call
        BY <2>0, <3>2 DEF Exact
    <3>3. CASE task[s].kind = k /\ task[s].call = loop[task[s].kind].call
        BY <2>0, <3>3, AllCounted DEF Mine
    <3> QED  BY <3>1, <3>2, <3>3
  <2>4. \A q \in Loops!Kind : loop'[q].pc = "wait" =>
          loop'[q].own = Loops!Work(q, loop'[q].call, Loops!First(loop'[q].t), N)
      BY <2>0, <2>2 DEF Exact
  <2> QED  BY <1>1, <1>8, <2>0, <2>2, <2>3, <2>4 DEF Exact
<1> QED  BY <1>7, <1>8, <1>9 DEF LoopInv

-----------------------------------------------------------------------------
\* A unit that runs changes what is in its own slot only.
LEMMA UnitStep ==
    ASSUME LoopInv, NEW s \in Loops!Slot, task[s].st \in {"ready", "worked", "counted"},
           loop' \in [Loops!Kind -> Job],
           \A q \in Loops!Kind : /\ loop'[q].pc = loop[q].pc /\ loop'[q].call = loop[q].call
                                 /\ loop'[q].t = loop[q].t /\ loop'[q].pids = loop[q].pids
                                 /\ loop'[q].gen = loop[q].gen /\ loop'[q].own = loop[q].own,
           task' \in [Loops!Slot -> Task],
           \A r \in Loops!Slot : r # s => task'[r] = task[r],
           \/ task'[s].st = "free"
           \/ /\ task'[s].st \in {"worked", "counted"} /\ task'[s].kind = task[s].kind
              /\ task'[s].unit = task[s].unit /\ task'[s].call = task[s].call
              /\ task'[s].gen = task[s].gen,
           sp_gen' = sp_gen
    PROVE  /\ Generations' /\ Numbered' /\ Spawning'
           /\ \A r \in Loops!Slot : Live(r)' => Live(r) /\ task'[r].kind = task[r].kind
                                                /\ task'[r].call = task[r].call
           /\ \A q \in Loops!Kind : \A r \in Loops!Slot : Mine(q, r)' => Mine(q, r)
           /\ \A q \in Loops!Kind : \A r \in Loops!Slot : r # s => (Mine(q, r)' <=> Mine(q, r))
           /\ \A q \in Loops!Kind : task'[s].st # "free" => (Mine(q, s)' <=> Mine(q, s))
<1>1. \A r \in Loops!Slot : Live(r)' => /\ Live(r) /\ task'[r].kind = task[r].kind
                                         /\ task'[r].call = task[r].call
                                         /\ task'[r].unit = task[r].unit
                                         /\ task'[r].gen = task[r].gen
    BY DEF Live
<1>2. \A q \in Loops!Kind : \A r \in Loops!Slot : Mine(q, r)' => Mine(q, r)
    BY <1>1 DEF Mine
<1>3. \A q \in Loops!Kind : \A r \in Loops!Slot : r # s => (Mine(q, r)' <=> Mine(q, r))
    BY DEF Mine, Live
<1>4. \A q \in Loops!Kind : task'[s].st # "free" => (Mine(q, s)' <=> Mine(q, s))
    BY DEF Mine, Live
<1>5. "par" \in Loops!Kind
    BY DEF Loops!Kind
<1>6. \A r \in Loops!Slot : task[r].kind \in Loops!Kind
    BY Fields DEF LoopInv
<1>7. Generations'
    BY <1>1, <1>5 DEF LoopInv, Generations, GenOf
<1>8. Numbered'
  <2>1. \A q \in Loops!Kind : Len(loop'[q].pids) = loop'[q].t /\ loop'[q].t <= UNITS
      BY DEF LoopInv, Numbered
  <2>2. \A r \in Loops!Slot : Live(r)' => task'[r].call <= loop'[task'[r].kind].call
      BY <1>1, <1>6 DEF LoopInv, Numbered
  <2>3. \A q \in Loops!Kind : \A r \in Loops!Slot : Mine(q, r)' =>
          task'[r].unit + 1 \in 1..loop'[q].t /\ loop'[q].pids[task'[r].unit + 1] = r
    <3> SUFFICES ASSUME NEW q \in Loops!Kind, NEW r \in Loops!Slot, Mine(q, r)'
                 PROVE  /\ task'[r].unit + 1 \in 1..loop'[q].t
                        /\ loop'[q].pids[task'[r].unit + 1] = r
        OBVIOUS
    <3>1. Mine(q, r) /\ task'[r].unit = task[r].unit
        BY <1>1, <1>2 DEF Mine
    <3> QED  BY <3>1 DEF LoopInv, Numbered
  <2>4. \A r1, r2 \in Loops!Slot :
          /\ Live(r1)' /\ Live(r2)' /\ task'[r1].kind = task'[r2].kind
          /\ task'[r1].call = task'[r2].call /\ task'[r1].unit = task'[r2].unit
          => r1 = r2
      BY <1>1 DEF LoopInv, Numbered
  <2> QED  BY <2>1, <2>2, <2>3, <2>4 DEF Numbered
<1>9. Spawning'
  <2>1. \A q \in Loops!Kind : loop'[q].pc = "spawn" => \A i \in 1..loop'[q].t :
          Mine(q, loop[q].pids[i])' /\ task'[loop'[q].pids[i]].st = "susp"
    <3> SUFFICES ASSUME NEW q \in Loops!Kind, loop'[q].pc = "spawn", NEW i \in 1..loop'[q].t
                 PROVE  Mine(q, loop[q].pids[i])' /\ task'[loop'[q].pids[i]].st = "susp"
        OBVIOUS
    <3> DEFINE p == loop[q].pids[i]
    <3>1. i \in 1..loop[q].t /\ loop[q].pc = "spawn"
        OBVIOUS
    <3>2. Mine(q, p) /\ task[p].st = "susp"
        BY <3>1 DEF LoopInv, Spawning
    <3>3. p \in Loops!Slot
        BY <3>1, Listed DEF LoopInv
    <3>4. p # s /\ task'[p] = task[p] /\ loop'[q].pids[i] = p /\ loop'[q].call = loop[q].call
        BY <3>2, <3>3
    <3> HIDE DEF p
    <3>5. Mine(q, loop[q].pids[i])' /\ task'[p].st = "susp"
        BY <3>2, <3>4 DEF Mine, Live
    <3> QED  BY <3>4, <3>5
  <2>2. \A r \in Loops!Slot : task'[r].st = "susp" =>
          Mine(task[r].kind, r)' /\ loop'[task'[r].kind].pc = "spawn"
    <3> SUFFICES ASSUME NEW r \in Loops!Slot, task'[r].st = "susp"
                 PROVE  Mine(task[r].kind, r)' /\ loop'[task'[r].kind].pc = "spawn"
        OBVIOUS
    <3>1. r # s /\ task'[r] = task[r]
        OBVIOUS
    <3>2. Mine(task[r].kind, r) /\ loop[task[r].kind].pc = "spawn"
        BY <3>1 DEF LoopInv, Spawning
    <3> QED  BY <1>6, <3>1, <3>2 DEF Mine, Live
  <2>3. \A q \in Loops!Kind : \A i, j \in 1..loop'[q].t :
          loop'[q].pids[i] = loop'[q].pids[j] => i = j
      BY DEF LoopInv, Spawning
  <2> QED  BY <2>1, <2>2, <2>3 DEF Spawning
<1> QED  BY <1>1, <1>2, <1>3, <1>4, <1>7, <1>8, <1>9

\* While no wait was broken off, a unit that has not counted itself is one of its
\* loop's present call, at its own place of the list.
LEMMA AtWork ==
    ASSUME LoopInv, ~hung, NEW s \in Loops!Slot, task[s].st \in {"ready", "worked"}
    PROVE  /\ Mine(task[s].kind, s) /\ task[s].kind \in Loops!Kind
           /\ task[s].unit + 1 \in 1..loop[task[s].kind].t
           /\ loop[task[s].kind].pc # "idle"
           /\ \A i \in 1..loop[task[s].kind].t :
                 loop[task[s].kind].pids[i] = s <=> i = task[s].unit + 1
<1>1. Mine(task[s].kind, s) /\ loop[task[s].kind].pc # "idle"
    BY DEF LoopInv, Exact, Mine, Live
<1>2. task[s].kind \in Loops!Kind
    BY Fields DEF LoopInv
<1>3. task[s].unit + 1 \in 1..loop[task[s].kind].t /\ loop[task[s].kind].pids[task[s].unit + 1] = s
    BY <1>1, <1>2 DEF LoopInv, Numbered
<1>4. \A i \in 1..loop[task[s].kind].t :
          loop[task[s].kind].pids[i] = s <=> i = task[s].unit + 1
    BY <1>2, <1>3 DEF LoopInv, Spawning
<1> QED  BY <1>1, <1>2, <1>3, <1>4
\* A unit works on its part.
LEMMA WorkStep ==
    ASSUME LoopInv, NEW s \in Loops!Slot, Loops!UnitWork(s)
    PROVE  LoopInv'
<1> DEFINE k == task[s].kind
           u == task[s].unit + 1
           w == Loops!Work(k, loop[k].call, Loops!First(task[s].unit), Loops!First(u))
<1>0. /\ task \in [Loops!Slot -> Task] /\ task[s] \in Task /\ k \in Loops!Kind
      /\ task[s].unit \in Nat /\ u \in Nat /\ loop[k].call \in Nat
      /\ loop \in [Loops!Kind -> Job]
      /\ res \in [Loops!Kind -> [Loops!Slot -> SUBSET Indices]]
  <2>1. LoopTypes
      BY DEF LoopInv
  <2>2. /\ task \in [Loops!Slot -> Task] /\ loop \in [Loops!Kind -> Job]
        /\ res \in [Loops!Kind -> [Loops!Slot -> SUBSET Indices]]
        /\ k \in Loops!Kind /\ task[s].unit \in Nat
      BY Zenon, <2>1, Fields DEF LoopTypes
  <2>3. loop[k].call \in Nat
      BY <2>1, <2>2, Fields
  <2> QED  BY <2>2, <2>3
<1>1. /\ task[s].st = "ready" /\ UNCHANGED <<loop, sp_gen, hung, wrong>>
      /\ res' = [res EXCEPT ![k][s] = w] /\ task' = [task EXCEPT ![s].st = "worked"]
    BY DEF Loops!UnitWork
<1>2. w \in SUBSET Indices
    BY <1>0, FirstIs, WorkIs
<1>3. /\ task'[s] \in Task /\ task'[s].st = "worked" /\ task'[s].kind = k
      /\ task'[s].unit = task[s].unit /\ task'[s].call = task[s].call
      /\ task'[s].gen = task[s].gen
  <2>1. task'[s] = [task[s] EXCEPT !.st = "worked"]
      BY <1>0, <1>1
  <2> QED  BY <1>0, <2>1 DEF Task
<1>4. \A r \in Loops!Slot : r # s => task'[r] = task[r]
    BY <1>0, <1>1
<1>5. task' \in [Loops!Slot -> Task]
    BY <1>0, <1>1, <1>3, <1>4
<1> HIDE DEF w, k
<1>6. /\ res' \in [Loops!Kind -> [Loops!Slot -> SUBSET Indices]] /\ res'[k][s] = w
      /\ \A q \in Loops!Kind : \A r \in Loops!Slot : q # k \/ r # s => res'[q][r] = res[q][r]
    BY <1>0, <1>1, <1>2
<1>7. LoopTypes'
    BY <1>1, <1>5, <1>6 DEF LoopInv, LoopTypes
<1>8. /\ Generations' /\ Numbered' /\ Spawning'
      /\ \A r \in Loops!Slot : Live(r)' => Live(r) /\ task'[r].kind = task[r].kind
                                           /\ task'[r].call = task[r].call
      /\ \A q \in Loops!Kind : \A r \in Loops!Slot : r # s => (Mine(q, r)' <=> Mine(q, r))
      /\ \A q \in Loops!Kind : Mine(q, s)' <=> Mine(q, s)
    BY Zenon, <1>0, <1>1, <1>3, <1>4, <1>5, UnitStep DEF k
<1>9. Exact'
  <2> SUFFICES ASSUME hung = FALSE  PROVE Exact'
      BY Zenon, <1>1, <1>7 DEF Exact, LoopTypes
  <2>0. Exact /\ ~hung
      BY DEF LoopInv
  <2>1. /\ Mine(k, s) /\ u \in 1..loop[k].t /\ loop[k].pc # "idle"
        /\ \A i \in 1..loop[k].t : loop[k].pids[i] = s <=> i = u
      BY <1>1, <2>0, AtWork DEF k
  <2>2. \A q \in Loops!Kind : \A i \in 1..loop[q].t : loop[q].pids[i] \in Loops!Slot
      BY Listed DEF LoopInv
  <2>3. \A r \in Loops!Slot :
          Live(r)' /\ (task'[r].call # loop'[task'[r].kind].call \/ loop'[task'[r].kind].pc = "idle")
          => task'[r].st = "counted"
    <3> SUFFICES ASSUME NEW r \in Loops!Slot, Live(r)',
                        \/ task'[r].call # loop'[task'[r].kind].call
                        \/ loop'[task'[r].kind].pc = "idle"
                 PROVE  task'[r].st = "counted"
        OBVIOUS
    <3>1. r # s
        BY <1>1, <1>3, <2>1 DEF Mine, k
    <3> QED  BY <1>1, <1>4, <2>0, <3>1 DEF Exact, Live
  <2>4. \A q \in Loops!Kind : loop'[q].done + Cardinality(Uncounted(q)') = loop'[q].t
    <3> SUFFICES ASSUME NEW q \in Loops!Kind  PROVE Uncounted(q)' = Uncounted(q)
        BY <1>1, <2>0 DEF Exact
    <3>1. ASSUME NEW i \in 1..loop[q].t
          PROVE  LET p == loop[q].pids[i]
                 IN  (Mine(q, p) /\ task[p].st \in {"susp", "ready", "worked"})'
                      <=> Mine(q, p) /\ task[p].st \in {"susp", "ready", "worked"}
      <4> DEFINE p == loop[q].pids[i]
      <4>1. loop'[q].pids[i] = p /\ p \in Loops!Slot
          BY <1>1, <2>2
      <4>2. CASE p = s
          BY <1>1, <1>3, <1>8, <4>1, <4>2 DEF Mine, Live
      <4>3. CASE p # s
          BY <1>1, <1>4, <1>8, <4>1, <4>3 DEF Mine, Live
      <4> QED  BY <4>2, <4>3
    <3> QED  BY <1>1, <3>1 DEF Uncounted
  <2>5. \A q \in Loops!Kind : \A i \in 1..loop'[q].t : ~Idling(q, i)' =>
          res'[q][loop'[q].pids[i]] =
              Loops!Work(q, loop'[q].call, Loops!First(i - 1), Loops!First(i))
    <3> SUFFICES ASSUME NEW q \in Loops!Kind, NEW i \in 1..loop[q].t, ~Idling(q, i)'
                 PROVE  res'[q][loop[q].pids[i]] =
                          Loops!Work(q, loop[q].call, Loops!First(i - 1), Loops!First(i))
        BY <1>1
    <3> DEFINE p == loop[q].pids[i]
    <3>1. p \in Loops!Slot
        BY <2>2
    <3>2. CASE q = k /\ p = s
      <4>1. i = u /\ i - 1 = task[s].unit
          BY <1>0, <2>1, <3>2
      <4> QED  BY <1>6, <3>2, <4>1 DEF w
    <3>3. CASE q # k \/ p # s
      <4>1. res'[q][p] = res[q][p]
          BY <1>6, <3>1, <3>3
      <4>2. ~Idling(q, i)
        <5>1. CASE p # s
            BY <1>1, <1>4, <3>1, <5>1 DEF Idling, Mine, Live
        <5>2. CASE p = s /\ q # k
            BY <5>2 DEF Idling, Mine, k
        <5> QED  BY <3>3, <5>1, <5>2
      <4> QED  BY <2>0, <4>1, <4>2 DEF Exact
    <3> QED  BY <3>2, <3>3
  <2>6. \A q \in Loops!Kind : loop'[q].pc = "wait" =>
          loop'[q].own = Loops!Work(q, loop'[q].call, Loops!First(loop'[q].t), N)
      BY <1>1, <2>0 DEF Exact
  <2> QED  BY <2>3, <2>4, <2>5, <2>6 DEF Exact
<1> QED  BY <1>7, <1>8, <1>9 DEF LoopInv

\* A unit leaves its stack.
LEMMA ExitStep ==
    ASSUME LoopInv, NEW s \in Loops!Slot, Loops!Exit(s)
    PROVE  LoopInv'
<1>0. task \in [Loops!Slot -> Task] /\ loop \in [Loops!Kind -> Job]
    BY DEF LoopInv, LoopTypes
<1>1. /\ task[s].st = "counted" /\ UNCHANGED <<loop, res, sp_gen, hung, wrong>>
      /\ task' = [task EXCEPT ![s] = Loops!NoTask]
    BY DEF Loops!Exit
<1>2. task'[s].st = "free" /\ task'[s] \in Task
    BY <1>0, <1>1 DEF Loops!NoTask, Task, Loops!Kind
<1>3. \A r \in Loops!Slot : r # s => task'[r] = task[r]
    BY <1>0, <1>1
<1>4. task' \in [Loops!Slot -> Task]
    BY <1>0, <1>1, <1>2, <1>3
<1>5. LoopTypes'
    BY <1>1, <1>4 DEF LoopInv, LoopTypes
<1>6. /\ Generations' /\ Numbered' /\ Spawning'
      /\ \A r \in Loops!Slot : Live(r)' => Live(r)
      /\ \A q \in Loops!Kind : \A r \in Loops!Slot : r # s => (Mine(q, r)' <=> Mine(q, r))
    BY <1>0, <1>1, <1>2, <1>3, <1>4, UnitStep
<1>7. Exact'
  <2> SUFFICES ASSUME hung = FALSE  PROVE Exact'
      BY Zenon, <1>1, <1>5 DEF Exact, LoopTypes
  <2>0. Exact /\ ~hung
      BY DEF LoopInv
  <2>1. \A q \in Loops!Kind : \A i \in 1..loop[q].t : loop[q].pids[i] \in Loops!Slot
      BY Listed DEF LoopInv
  <2>2. \A r \in Loops!Slot :
          Live(r)' /\ (task'[r].call # loop'[task'[r].kind].call \/ loop'[task'[r].kind].pc = "idle")
          => task'[r].st = "counted"
      BY <1>1, <1>2, <1>3, <2>0 DEF Exact, Live
  <2>3. \A q \in Loops!Kind : loop'[q].done + Cardinality(Uncounted(q)') = loop'[q].t
    <3> SUFFICES ASSUME NEW q \in Loops!Kind  PROVE Uncounted(q)' = Uncounted(q)
        BY <1>1, <2>0 DEF Exact
    <3> QED  BY <1>1, <1>2, <1>3, <2>1 DEF Uncounted, Mine, Live
  <2>4. \A q \in Loops!Kind : \A i \in 1..loop[q].t : Idling(q, i)' <=> Idling(q, i)
      BY <1>1, <1>2, <1>3, <2>1 DEF Idling, Mine, Live
  <2>5. \A q \in Loops!Kind : \A i \in 1..loop'[q].t : ~Idling(q, i)' =>
          res'[q][loop'[q].pids[i]] =
              Loops!Work(q, loop'[q].call, Loops!First(i - 1), Loops!First(i))
      BY <1>1, <2>0, <2>4 DEF Exact
  <2>6. \A q \in Loops!Kind : loop'[q].pc = "wait" =>
          loop'[q].own = Loops!Work(q, loop'[q].call, Loops!First(loop'[q].t), N)
      BY <1>1, <2>0 DEF Exact
  <2> QED  BY <2>2, <2>3, <2>5, <2>6 DEF Exact
<1> QED  BY <1>5, <1>6, <1>7 DEF LoopInv

\* A unit counts itself.
LEMMA CountStep ==
    ASSUME LoopInv, NEW s \in Loops!Slot, Loops!UnitCounts(s)
    PROVE  LoopInv'
<1> PICK k \in Loops!Kind : k = task[s].kind
    BY Fields DEF LoopInv
<1> PICK u : u = task[s].unit + 1
    OBVIOUS
<1>0. /\ task \in [Loops!Slot -> Task] /\ task[s] \in Task /\ k \in Loops!Kind
      /\ loop \in [Loops!Kind -> Job] /\ loop[k] \in Job /\ loop[k].done \in Nat
    BY Zenon, Fields DEF LoopInv, LoopTypes
<1>1. /\ task[s].st = "worked" /\ UNCHANGED <<res, sp_gen, hung, wrong>>
      /\ loop' = [loop EXCEPT ![k].done = @ + 1]
      /\ task' = [task EXCEPT ![s].st = "counted"]
    BY DEF Loops!UnitCounts
<1>2. /\ task'[s] \in Task /\ task'[s].st = "counted" /\ task'[s].kind = k
      /\ task'[s].unit = task[s].unit /\ task'[s].call = task[s].call
      /\ task'[s].gen = task[s].gen
  <2>1. task'[s] = [task[s] EXCEPT !.st = "counted"]
      BY <1>0, <1>1
  <2> QED  BY <1>0, <2>1 DEF Task
<1>3. \A r \in Loops!Slot : r # s => task'[r] = task[r]
    BY <1>0, <1>1
<1>4. task' \in [Loops!Slot -> Task]
    BY <1>0, <1>1, <1>2, <1>3
<1>5. /\ loop'[k] \in Job /\ loop'[k].pc = loop[k].pc /\ loop'[k].call = loop[k].call
      /\ loop'[k].t = loop[k].t /\ loop'[k].pids = loop[k].pids /\ loop'[k].gen = loop[k].gen
      /\ loop'[k].own = loop[k].own /\ loop'[k].done = loop[k].done + 1
  <2>1. loop'[k] = [loop[k] EXCEPT !.done = loop[k].done + 1]
      BY <1>0, <1>1
  <2>2. loop[k].done + 1 \in Nat
      BY <1>0
  <2> QED  BY Zenon, <1>0, <2>1, <2>2 DEF Job
<1>6. \A q \in Loops!Kind : q # k => loop'[q] = loop[q]
    BY <1>0, <1>1
<1>7. loop' \in [Loops!Kind -> Job]
    BY <1>0, <1>1, <1>5, <1>6
<1>8. \A q \in Loops!Kind : /\ loop'[q].pc = loop[q].pc /\ loop'[q].call = loop[q].call
                            /\ loop'[q].t = loop[q].t /\ loop'[q].pids = loop[q].pids
                            /\ loop'[q].gen = loop[q].gen /\ loop'[q].own = loop[q].own
    BY <1>5, <1>6
<1>9. LoopTypes'
    BY <1>1, <1>4, <1>7 DEF LoopInv, LoopTypes
<1>10. Generations' /\ Numbered' /\ Spawning'
    BY <1>1, <1>2, <1>3, <1>4, <1>7, <1>8, UnitStep
<1>11. Exact'
  <2> SUFFICES ASSUME hung = FALSE  PROVE Exact'
      BY Zenon, <1>1, <1>9 DEF Exact, LoopTypes
  <2>0. Exact /\ ~hung
      BY DEF LoopInv
  <2>1. /\ Mine(k, s) /\ u \in 1..loop[k].t
        /\ \A i \in 1..loop[k].t : loop[k].pids[i] = s <=> i = u
      BY <1>1, <2>0, AtWork
  <2>2. \A q \in Loops!Kind : \A i \in 1..loop[q].t : loop[q].pids[i] \in Loops!Slot
      BY Listed DEF LoopInv
  <2>3. \A r \in Loops!Slot : task[r].kind \in Loops!Kind
      BY Fields DEF LoopInv
  <2>4. \A r \in Loops!Slot :
          Live(r)' /\ (task'[r].call # loop'[task'[r].kind].call \/ loop'[task'[r].kind].pc = "idle")
          => task'[r].st = "counted"
      BY <1>2, <1>3, <1>8, <2>0, <2>3 DEF Exact, Live
  <2>5. ASSUME NEW q \in Loops!Kind, q # k
        PROVE  loop'[q].done + Cardinality(Uncounted(q)') = loop'[q].t
    <3>1. Uncounted(q)' = Uncounted(q)
        BY <1>2, <1>3, <1>6, <2>2, <2>5 DEF Uncounted, Mine, Live
    <3> QED  BY <1>6, <2>0, <2>5, <3>1 DEF Exact
  <2>6. loop'[k].done + Cardinality(Uncounted(k)') = loop'[k].t
    <3>1. IsFiniteSet(Uncounted(k)) /\ Cardinality(Uncounted(k)) \in Nat
        BY SMTT(40), <1>0, Listed DEF LoopInv
    <3>2. u \in Uncounted(k)
        BY <1>1, <2>1 DEF Uncounted
    <3>3. Uncounted(k)' = Uncounted(k) \ {u}
      <4>1. ASSUME NEW i \in 1..loop[k].t
            PROVE  i \in Uncounted(k)' <=> i \in Uncounted(k) /\ i # u
        <5> PICK p \in Loops!Slot : p = loop[k].pids[i]
            BY <2>2
        <5>1. loop'[k].pids[i] = p /\ i \in 1..loop'[k].t /\ loop'[k].call = loop[k].call
            BY SMTT(40), <1>5
        <5>2. CASE i = u
          <6>1. p = s
              BY SMTT(40), <2>1, <5>2
          <6> QED  BY <1>2, <5>1, <5>2, <6>1 DEF Uncounted
        <5>3. CASE i # u
          <6>1. p # s /\ task'[p] = task[p]
              BY <1>3, <2>1, <5>1, <5>3
          <6>2. i \in Uncounted(k)' <=> Mine(k, p)' /\ task'[p].st \in {"susp", "ready", "worked"}
              BY Zenon, <5>1 DEF Uncounted, Mine, Live
          <6>3. Mine(k, p)' <=> Mine(k, p)
              BY <5>1, <6>1 DEF Mine, Live
          <6> QED  BY <5>3, <6>1, <6>2, <6>3 DEF Uncounted
        <5> QED  BY <5>2, <5>3
      <4>2. Uncounted(k) \subseteq 1..loop[k].t /\ Uncounted(k)' \subseteq 1..loop[k].t
          BY Zenon, <1>5 DEF Uncounted
      <4> QED  BY <4>1, <4>2
    <3>4. Cardinality(Uncounted(k) \ {u}) = Cardinality(Uncounted(k)) - 1
        BY Zenon, <3>1, <3>2, FS_RemoveElement
    <3>5. loop[k].done + Cardinality(Uncounted(k)) = loop[k].t
        BY <1>0, <2>0 DEF Exact
    <3> QED  BY <1>0, <1>5, <3>1, <3>3, <3>4, <3>5
  <2>7. ASSUME NEW q \in Loops!Kind, NEW i \in 1..loop[q].t  PROVE Idling(q, i)' <=> Idling(q, i)
    <3> DEFINE p == loop[q].pids[i]
    <3>1. loop'[q].pids[i] = p /\ p \in Loops!Slot /\ loop'[q].call = loop[q].call
        BY <1>8, <2>2
    <3>2. CASE p = s
        BY <1>1, <1>2, <3>1, <3>2 DEF Idling
    <3>3. CASE p # s
        BY <1>3, <3>1, <3>3 DEF Idling, Mine, Live
    <3> QED  BY <3>2, <3>3
  <2>8. \A q \in Loops!Kind : \A i \in 1..loop'[q].t : ~Idling(q, i)' =>
          res'[q][loop'[q].pids[i]] =
              Loops!Work(q, loop'[q].call, Loops!First(i - 1), Loops!First(i))
    <3> SUFFICES ASSUME NEW q \in Loops!Kind, NEW i \in 1..loop'[q].t, ~Idling(q, i)'
                 PROVE  res'[q][loop'[q].pids[i]] =
                          Loops!Work(q, loop'[q].call, Loops!First(i - 1), Loops!First(i))
        OBVIOUS
    <3>1. i \in 1..loop[q].t /\ ~Idling(q, i)
        BY <1>8, <2>7
    <3> QED  BY <1>1, <1>8, <2>0, <3>1 DEF Exact
  <2>9. \A q \in Loops!Kind : loop'[q].pc = "wait" =>
          loop'[q].own = Loops!Work(q, loop'[q].call, Loops!First(loop'[q].t), N)
      BY <1>8, <2>0 DEF Exact
  <2>10. \A q \in Loops!Kind : loop'[q].done + Cardinality(Uncounted(q)') = loop'[q].t
      BY <2>5, <2>6
  <2> QED  BY <2>4, <2>8, <2>9, <2>10 DEF Exact
<1> QED  BY <1>9, <1>10, <1>11 DEF LoopInv
-----------------------------------------------------------------------------
\* A slot is found for one more unit.
LEMMA SpawnStep ==
    ASSUME LoopInv, NEW k \in Loops!Kind, NEW s \in Loops!Slot,
           loop[k].pc = "spawn", loop[k].t < UNITS, task[s].st = "free",
           task' = [task EXCEPT ![s] = [st |-> "susp", kind |-> k, unit |-> loop[k].t,
                                        call |-> loop[k].call, gen |-> loop[k].gen]],
           res' = [res EXCEPT ![k][s] = {}],
           loop' = [loop EXCEPT ![k].t = @ + 1, ![k].pids = Append(@, s)],
           UNCHANGED <<sp_gen, hung, wrong>>
    PROVE  LoopInv'
<1> PICK t \in Nat : t = loop[k].t
    BY Fields DEF LoopInv
<1>0. /\ task \in [Loops!Slot -> Task] /\ loop \in [Loops!Kind -> Job] /\ loop[k] \in Job
      /\ loop[k].pids \in Seq(Loops!Slot) /\ Len(loop[k].pids) = t /\ t < UNITS
      /\ loop[k].call \in Nat /\ loop[k].gen \in Nat /\ loop[k].done \in Nat
      /\ UNITS \in Nat
      /\ res \in [Loops!Kind -> [Loops!Slot -> SUBSET Indices]]
    BY Zenon, Fields, LoopConstants DEF LoopInv, LoopTypes, Numbered
<1>1. /\ task'[s].st = "susp" /\ task'[s].kind = k /\ task'[s].unit = t
      /\ task'[s].call = loop[k].call /\ task'[s].gen = loop[k].gen /\ task'[s] \in Task
  <2>1. task'[s] = [st |-> "susp", kind |-> k, unit |-> t, call |-> loop[k].call,
                    gen |-> loop[k].gen]
      BY <1>0
  <2> QED  BY <1>0, <2>1 DEF Task
<1>2. \A r \in Loops!Slot : r # s => task'[r] = task[r]
    BY <1>0
<1>3. task' \in [Loops!Slot -> Task]
    BY <1>0, <1>1, <1>2
<1>4. /\ Append(loop[k].pids, s) \in Seq(Loops!Slot) /\ Len(Append(loop[k].pids, s)) = t + 1
      /\ \A i \in 1..t : Append(loop[k].pids, s)[i] = loop[k].pids[i]
      /\ Append(loop[k].pids, s)[t + 1] = s
    BY <1>0, AppendProperties
<1>5. /\ loop'[k] \in Job /\ loop'[k].pc = "spawn" /\ loop'[k].call = loop[k].call
      /\ loop'[k].t = t + 1 /\ loop'[k].pids = Append(loop[k].pids, s)
      /\ loop'[k].gen = loop[k].gen /\ loop'[k].own = loop[k].own
      /\ loop'[k].done = loop[k].done
  <2>1. loop'[k] = [loop[k] EXCEPT !.t = t + 1, !.pids = Append(loop[k].pids, s)]
      BY <1>0
  <2>2. t + 1 \in Nat
      OBVIOUS
  <2> QED  BY <1>0, <1>4, <2>1, <2>2 DEF Job
<1>6. \A q \in Loops!Kind : q # k => loop'[q] = loop[q]
    BY <1>0
<1>7. loop' \in [Loops!Kind -> Job]
    BY <1>0, <1>5, <1>6
<1>8. \A q \in Loops!Kind : loop'[q].call = loop[q].call /\ loop'[q].pc = loop[q].pc
    BY Zenon, <1>5, <1>6
<1>9. /\ res' \in [Loops!Kind -> [Loops!Slot -> SUBSET Indices]]
      /\ \A q \in Loops!Kind : q # k => res'[q] = res[q]
    BY <1>0
<1>10. LoopTypes'
    BY <1>3, <1>7, <1>9 DEF LoopInv, LoopTypes
<1>11. \A q \in Loops!Kind : \A i \in 1..loop[q].t : loop[q].pids[i] \in Loops!Slot
    BY Listed DEF LoopInv
<1>12. \A i \in 1..t : /\ Mine(k, loop[k].pids[i]) /\ task[loop[k].pids[i]].st = "susp"
                       /\ loop[k].pids[i] # s
    BY DEF LoopInv, Spawning, Mine, Live
<1>13. \A q \in Loops!Kind : \A r \in Loops!Slot : r # s => (Mine(q, r)' <=> Mine(q, r))
    BY Zenon, <1>2, <1>8 DEF Mine, Live
<1>14. \A q \in Loops!Kind : ~Mine(q, s) /\ (Mine(q, s)' <=> q = k)
    BY Zenon, <1>1, <1>8 DEF Mine, Live
<1>15. /\ \A r \in Loops!Slot : r # s => (Live(r)' <=> Live(r))
       /\ Live(s)'
    BY <1>1, <1>2 DEF Live
<1>16. \A r \in Loops!Slot : task[r].kind \in Loops!Kind /\ task[r].unit \in Nat
    BY Fields DEF LoopInv
<1>17. Generations'
  <2>1. "par" \in Loops!Kind
      BY DEF Loops!Kind
  <2>2. \A q \in Loops!Kind : loop'[q].gen = loop[q].gen
      BY Zenon, <1>5, <1>6
  <2>3. \A r \in Loops!Slot : Live(r)' /\ task'[r].kind = "par" =>
          task'[r].call >= 1 /\ task'[r].gen = GenOf(task'[r].call)
    <3> SUFFICES ASSUME NEW r \in Loops!Slot, Live(r)', task'[r].kind = "par"
                 PROVE  task'[r].call >= 1 /\ task'[r].gen = GenOf(task'[r].call)
        OBVIOUS
    <3>1. CASE r = s
      <4>1. k = "par"
          BY <1>1, <3>1
      <4> QED  BY <1>1, <3>1, <4>1 DEF LoopInv, Generations
    <3>2. CASE r # s
        BY <1>2, <1>15, <3>2 DEF LoopInv, Generations
    <3> QED  BY <3>1, <3>2
  <2> QED  BY Zenon, <1>8, <2>1, <2>2, <2>3 DEF LoopInv, Generations, GenOf
<1>18. Numbered'
  <2>1. \A q \in Loops!Kind : Len(loop'[q].pids) = loop'[q].t /\ loop'[q].t <= UNITS
      BY <1>0, <1>4, <1>5, <1>6 DEF LoopInv, Numbered
  <2>2. \A r \in Loops!Slot : Live(r)' => task'[r].call <= loop'[task'[r].kind].call
      BY <1>0, <1>1, <1>2, <1>8, <1>15, <1>16 DEF LoopInv, Numbered
  <2>3. \A q \in Loops!Kind : \A r \in Loops!Slot : Mine(q, r)' =>
          task'[r].unit + 1 \in 1..loop'[q].t /\ loop'[q].pids[task'[r].unit + 1] = r
    <3> SUFFICES ASSUME NEW q \in Loops!Kind, NEW r \in Loops!Slot, Mine(q, r)'
                 PROVE  /\ task'[r].unit + 1 \in 1..loop'[q].t
                        /\ loop'[q].pids[task'[r].unit + 1] = r
        BY Zenon
    <3>1. CASE r = s
      <4>1. q = k /\ task'[r].unit + 1 = t + 1 /\ t + 1 \in 1..(t + 1)
          BY <1>1, <1>14, <3>1
      <4> QED  BY Zenon, <1>4, <1>5, <3>1, <4>1
    <3>2. CASE r # s
      <4>1. /\ task[r].unit + 1 \in 1..loop[q].t /\ loop[q].pids[task[r].unit + 1] = r
            /\ task'[r] = task[r]
          BY <1>2, <1>13, <3>2 DEF LoopInv, Numbered
      <4>2. CASE q = k
        <5>1. task[r].unit + 1 \in 1..t
            BY <4>1, <4>2
        <5>2. task[r].unit + 1 \in 1..(t + 1)
            BY <5>1
        <5> QED  BY Zenon, <1>4, <1>5, <4>1, <4>2, <5>1, <5>2
      <4>3. CASE q # k
          BY Zenon, <1>6, <4>1, <4>3
      <4> QED  BY Zenon, <4>2, <4>3
    <3> QED  BY Zenon, <3>1, <3>2
  <2>4. ASSUME NEW r \in Loops!Slot, r # s, Live(r), task[r].kind = k,
               task[r].call = loop[k].call
        PROVE  task[r].unit # t
    <3>1. Mine(k, r)
        BY <2>4 DEF Mine
    <3>2. task[r].unit + 1 \in 1..t
        BY <3>1 DEF LoopInv, Numbered
    <3> QED  BY <1>16, <3>2
  <2>5. \A r1, r2 \in Loops!Slot :
          /\ Live(r1)' /\ Live(r2)' /\ task'[r1].kind = task'[r2].kind
          /\ task'[r1].call = task'[r2].call /\ task'[r1].unit = task'[r2].unit
          => r1 = r2
    <3> SUFFICES ASSUME NEW r1 \in Loops!Slot, NEW r2 \in Loops!Slot, Live(r1)', Live(r2)',
                        task'[r1].kind = task'[r2].kind, task'[r1].call = task'[r2].call,
                        task'[r1].unit = task'[r2].unit, r1 # r2
                 PROVE  FALSE
        OBVIOUS
    <3>1. CASE r1 = s
        BY <1>1, <1>2, <1>15, <2>4, <3>1
    <3>2. CASE r2 = s
        BY <1>1, <1>2, <1>15, <2>4, <3>2
    <3>3. CASE r1 # s /\ r2 # s
        BY <1>2, <1>15, <3>3 DEF LoopInv, Numbered
    <3> QED  BY <3>1, <3>2, <3>3
  <2> QED  BY Zenon, <2>1, <2>2, <2>3, <2>5 DEF Numbered
<1>19. ASSUME NEW i \in 1..(t + 1)
       PROVE  \/ i \in 1..t /\ loop'[k].pids[i] = loop[k].pids[i] /\ loop'[k].pids[i] # s
              \/ i = t + 1 /\ loop'[k].pids[i] = s
  <2>1. CASE i \in 1..t
      BY ZenonT(40), <1>4, <1>5, <1>12, <2>1
  <2>2. CASE i \notin 1..t
    <3>1. i = t + 1
        BY <2>2
    <3> QED  BY Zenon, <1>4, <1>5, <3>1
  <2> QED  BY Zenon, <2>1, <2>2
<1>20. \A i \in 1..(t + 1) : /\ loop'[k].pids[i] \in Loops!Slot
                             /\ Mine(k, loop[k].pids[i])'
                             /\ task'[loop'[k].pids[i]].st = "susp"
  <2> SUFFICES ASSUME NEW i \in 1..(t + 1)
               PROVE  /\ loop'[k].pids[i] \in Loops!Slot /\ Mine(k, loop[k].pids[i])'
                      /\ task'[loop'[k].pids[i]].st = "susp"
      BY Zenon
  <2>1. CASE i \in 1..t /\ loop'[k].pids[i] = loop[k].pids[i] /\ loop'[k].pids[i] # s
    <3> PICK p \in Loops!Slot : p = loop[k].pids[i]
        BY <1>11, <2>1
    <3>1. p # s /\ Mine(k, p) /\ task[p].st = "susp" /\ loop'[k].pids[i] = p
        BY Zenon, <1>12, <2>1
    <3> QED  BY Zenon, <1>2, <1>8, <3>1 DEF Mine, Live
  <2>2. CASE i = t + 1 /\ loop'[k].pids[i] = s
      BY Zenon, <1>1, <1>8, <2>2 DEF Mine, Live
  <2> QED  BY Zenon, <1>19, <2>1, <2>2
<1>21. Spawning'
  <2>1. \A q \in Loops!Kind : loop'[q].pc = "spawn" => \A i \in 1..loop'[q].t :
          Mine(q, loop[q].pids[i])' /\ task'[loop'[q].pids[i]].st = "susp"
    <3> SUFFICES ASSUME NEW q \in Loops!Kind, loop'[q].pc = "spawn", NEW i \in 1..loop'[q].t
                 PROVE  Mine(q, loop[q].pids[i])' /\ task'[loop'[q].pids[i]].st = "susp"
        BY Zenon
    <3>1. CASE q = k
        BY Zenon, <1>5, <1>20, <3>1
    <3>2. CASE q # k
      <4> PICK p \in Loops!Slot : p = loop[q].pids[i]
          BY Zenon, <1>6, <1>11, <3>2
      <4>1. loop'[q] = loop[q] /\ Mine(q, p) /\ task[p].st = "susp"
          BY Zenon, <1>6, <3>2 DEF LoopInv, Spawning
      <4>2. p # s /\ loop'[q].pids[i] = p
          BY Zenon, <4>1 DEF Mine, Live
      <4> QED  BY Zenon, <1>2, <4>1, <4>2 DEF Mine, Live
    <3> QED  BY Zenon, <3>1, <3>2
  <2>2. \A r \in Loops!Slot : task'[r].st = "susp" =>
          Mine(task[r].kind, r)' /\ loop'[task'[r].kind].pc = "spawn"
    <3> SUFFICES ASSUME NEW r \in Loops!Slot, task'[r].st = "susp"
                 PROVE  Mine(task[r].kind, r)' /\ loop'[task'[r].kind].pc = "spawn"
        BY Zenon
    <3>1. CASE r = s
        BY Zenon, <1>1, <1>5, <3>1 DEF Mine, Live
    <3>2. CASE r # s
      <4>1. task'[r] = task[r]
          BY <1>2, <3>2
      <4>2. Mine(task[r].kind, r) /\ loop[task[r].kind].pc = "spawn"
          BY <4>1 DEF LoopInv, Spawning
      <4> QED  BY ZenonT(40), <1>8, <1>16, <4>1, <4>2 DEF Mine, Live
    <3> QED  BY <3>1, <3>2
  <2>3. \A q \in Loops!Kind : \A i, j \in 1..loop'[q].t :
          loop'[q].pids[i] = loop'[q].pids[j] => i = j
    <3> SUFFICES ASSUME NEW q \in Loops!Kind, NEW i \in 1..loop'[q].t, NEW j \in 1..loop'[q].t,
                        loop'[q].pids[i] = loop'[q].pids[j]
                 PROVE  i = j
        BY Zenon
    <3>1. CASE q = k
      <4>1. i \in 1..(t + 1) /\ j \in 1..(t + 1)
          BY <1>5, <3>1
      <4>2. \/ i = t + 1 /\ j = t + 1
            \/ i \in 1..t /\ j \in 1..t /\ loop[k].pids[i] = loop[k].pids[j]
          BY Zenon, <1>19, <3>1, <4>1
      <4> QED  BY <4>2 DEF LoopInv, Spawning
    <3>2. CASE q # k
        BY ZenonT(40), <1>6, <3>2 DEF LoopInv, Spawning
    <3> QED  BY <3>1, <3>2
  <2> QED  BY Zenon, <2>1, <2>2, <2>3 DEF Spawning
<1>22. Exact'
  <2> SUFFICES ASSUME hung = FALSE  PROVE Exact'
      BY Zenon, <1>10 DEF Exact, LoopTypes
  <2>0. Exact /\ ~hung
      BY DEF LoopInv
  <2>1. \A r \in Loops!Slot :
          Live(r)' /\ (task'[r].call # loop'[task'[r].kind].call \/ loop'[task'[r].kind].pc = "idle")
          => task'[r].st = "counted"
    <3> SUFFICES ASSUME NEW r \in Loops!Slot, Live(r)',
                        \/ task'[r].call # loop'[task'[r].kind].call
                        \/ loop'[task'[r].kind].pc = "idle"
                 PROVE  task'[r].st = "counted"
        OBVIOUS
    <3>1. r # s
        BY Zenon, <1>1, <1>5
    <3>2. Live(r) /\ task'[r] = task[r]
        BY <1>2, <1>15, <3>1
    <3>3. task[r].call # loop[task[r].kind].call \/ loop[task[r].kind].pc = "idle"
        BY Zenon, <1>8, <1>16, <3>2
    <3> QED  BY <2>0, <3>2, <3>3 DEF Exact
  <2>2. loop'[k].done + Cardinality(Uncounted(k)') = loop'[k].t
    <3>1. Uncounted(k)' = 1..(t + 1)
        BY Zenon, <1>5, <1>20 DEF Uncounted
    <3>2. Uncounted(k) = 1..t
        BY <1>12 DEF Uncounted
    <3>3. Cardinality(1..t) = t /\ Cardinality(1..(t + 1)) = t + 1
      <4>1. 1 \in Int /\ t \in Int /\ t + 1 \in Int /\ ~ (1 > t + 1)
          OBVIOUS
      <4>2. Cardinality(1..(t + 1)) = (t + 1) - 1 + 1
          BY Zenon, <4>1, FS_Interval
      <4>3. Cardinality(1..t) = IF 1 > t THEN 0 ELSE t - 1 + 1
          BY Zenon, <4>1, FS_Interval
      <4> QED  BY <4>2, <4>3
    <3>4. loop[k].done + t = t
        BY <2>0, <3>2, <3>3 DEF Exact
    <3> QED  BY <1>0, <1>5, <3>1, <3>3, <3>4
  <2>3. ASSUME NEW q \in Loops!Kind, q # k, NEW i \in 1..loop[q].t
        PROVE  /\ i \in Uncounted(q)' <=> i \in Uncounted(q)
               /\ Idling(q, i)' <=> Idling(q, i)
    <3> PICK p \in Loops!Slot : p = loop[q].pids[i]
        BY <1>11
    <3>1. loop'[q] = loop[q] /\ loop'[q].pids[i] = p
        BY Zenon, <1>6, <2>3
    <3>2. CASE p = s
      <4>1. ~Mine(q, p) /\ ~Mine(q, p)'
          BY <1>14, <2>3, <3>2
      <4> QED  BY Zenon, <3>1, <4>1 DEF Uncounted, Idling, Mine, Live
    <3>3. CASE p # s
        BY Zenon, <1>2, <3>1, <3>3 DEF Uncounted, Idling, Mine, Live
    <3> QED  BY <3>2, <3>3
  <2>4. ASSUME NEW q \in Loops!Kind, q # k
        PROVE  loop'[q].done + Cardinality(Uncounted(q)') = loop'[q].t
    <3>1. Uncounted(q) \subseteq 1..loop[q].t /\ Uncounted(q)' \subseteq 1..loop[q].t
        BY Zenon, <1>6, <2>4 DEF Uncounted
    <3>2. Uncounted(q)' = Uncounted(q)
        BY Zenon, <2>3, <2>4, <3>1
    <3> QED  BY Zenon, <1>6, <2>0, <2>4, <3>2 DEF Exact
  <2>5. \A q \in Loops!Kind : \A i \in 1..loop'[q].t : ~Idling(q, i)' =>
          res'[q][loop'[q].pids[i]] =
              Loops!Work(q, loop'[q].call, Loops!First(i - 1), Loops!First(i))
    <3> SUFFICES ASSUME NEW q \in Loops!Kind, NEW i \in 1..loop'[q].t, ~Idling(q, i)'
                 PROVE  res'[q][loop'[q].pids[i]] =
                          Loops!Work(q, loop'[q].call, Loops!First(i - 1), Loops!First(i))
        BY Zenon
    <3>1. q # k
      <4> SUFFICES ASSUME q = k  PROVE FALSE
          OBVIOUS
      <4>1. Mine(k, loop[k].pids[i])' /\ task'[loop'[k].pids[i]].st = "susp"
          BY Zenon, <1>5, <1>20
      <4> QED  BY Zenon, <4>1 DEF Idling
    <3>2. loop'[q] = loop[q] /\ i \in 1..loop[q].t
        BY Zenon, <1>6, <3>1
    <3>3. ~Idling(q, i)
        BY <2>3, <3>1, <3>2
    <3> QED  BY <1>9, <2>0, <3>1, <3>2, <3>3 DEF Exact
  <2>6. \A q \in Loops!Kind : loop'[q].pc = "wait" =>
          loop'[q].own = Loops!Work(q, loop'[q].call, Loops!First(loop'[q].t), N)
      BY Zenon, <1>5, <1>6, <2>0 DEF Exact
  <2>7. \A q \in Loops!Kind : loop'[q].done + Cardinality(Uncounted(q)') = loop'[q].t
      BY Zenon, <2>2, <2>4
  <2> QED  BY Zenon, <2>1, <2>5, <2>6, <2>7 DEF Exact
<1> QED  BY <1>10, <1>17, <1>18, <1>21, <1>22 DEF LoopInv

\* The units are let run.
LEMMA ResumeStep ==
    ASSUME LoopInv, NEW k \in Loops!Kind, loop[k].pc = "spawn",
           task' = [s \in Loops!Slot |-> IF task[s].st = "susp" /\ task[s].kind = k
                                         THEN [task[s] EXCEPT !.st = "ready"] ELSE task[s]],
           loop' = [loop EXCEPT ![k].pc = "own"],
           UNCHANGED <<res, sp_gen, hung, wrong>>
    PROVE  LoopInv'
<1>0. /\ task \in [Loops!Slot -> Task] /\ loop \in [Loops!Kind -> Job] /\ loop[k] \in Job
      /\ \A s \in Loops!Slot : task[s] \in Task /\ task[s].kind \in Loops!Kind
    BY Zenon, Fields DEF LoopInv, LoopTypes
<1>1. \A s \in Loops!Slot :
        /\ task'[s] \in Task /\ task'[s].kind = task[s].kind /\ task'[s].unit = task[s].unit
        /\ task'[s].call = task[s].call /\ task'[s].gen = task[s].gen
        /\ IF task[s].st = "susp" /\ task[s].kind = k
           THEN task'[s].st = "ready" ELSE task'[s].st = task[s].st
  <2> SUFFICES ASSUME NEW s \in Loops!Slot
               PROVE  /\ task'[s] \in Task /\ task'[s].kind = task[s].kind
                      /\ task'[s].unit = task[s].unit
                      /\ task'[s].call = task[s].call /\ task'[s].gen = task[s].gen
                      /\ IF task[s].st = "susp" /\ task[s].kind = k
                         THEN task'[s].st = "ready" ELSE task'[s].st = task[s].st
      OBVIOUS
  <2>1. CASE task[s].st = "susp" /\ task[s].kind = k
    <3>1. task'[s] = [task[s] EXCEPT !.st = "ready"]
        BY <2>1
    <3>2. task[s] \in Task
        BY <1>0
    <3>3. /\ task'[s] \in Task /\ task'[s].st = "ready" /\ task'[s].kind = task[s].kind
          /\ task'[s].unit = task[s].unit /\ task'[s].call = task[s].call
          /\ task'[s].gen = task[s].gen
        BY <3>1, <3>2 DEF Task
    <3> QED  BY <2>1, <3>3
  <2>2. CASE ~ (task[s].st = "susp" /\ task[s].kind = k)
    <3>1. task'[s] = task[s]
        BY <2>2
    <3> QED  BY <1>0, <2>2, <3>1
  <2> QED  BY <2>1, <2>2
<1>2. task' \in [Loops!Slot -> Task]
    BY <1>1
<1>3. /\ loop'[k] \in Job /\ loop'[k].pc = "own" /\ loop'[k].call = loop[k].call
      /\ loop'[k].t = loop[k].t /\ loop'[k].pids = loop[k].pids /\ loop'[k].gen = loop[k].gen
      /\ loop'[k].own = loop[k].own /\ loop'[k].done = loop[k].done
  <2>1. loop'[k] = [loop[k] EXCEPT !.pc = "own"]
      BY <1>0
  <2> QED  BY Zenon, <1>0, <2>1 DEF Job
<1>4. \A q \in Loops!Kind : q # k => loop'[q] = loop[q]
    BY <1>0
<1>5. \A q \in Loops!Kind : /\ loop'[q].call = loop[q].call /\ loop'[q].t = loop[q].t
                            /\ loop'[q].pids = loop[q].pids /\ loop'[q].gen = loop[q].gen
                            /\ loop'[q].own = loop[q].own /\ loop'[q].done = loop[q].done
                            /\ loop'[q].pc = "idle" <=> loop[q].pc = "idle"
                            /\ loop'[q].pc = "wait" <=> loop[q].pc = "wait"
    BY <1>3, <1>4
<1>6. loop' \in [Loops!Kind -> Job]
    BY <1>0, <1>3, <1>4
<1>7. LoopTypes'
    BY <1>2, <1>6 DEF LoopInv, LoopTypes
<1>8. \A s \in Loops!Slot : Live(s)' <=> Live(s)
    BY <1>1 DEF Live
<1>9. \A q \in Loops!Kind : \A s \in Loops!Slot : Mine(q, s)' <=> Mine(q, s)
    BY <1>1, <1>5, <1>8 DEF Mine
<1>10. \A q \in Loops!Kind : \A i \in 1..loop[q].t : loop[q].pids[i] \in Loops!Slot
    BY Listed DEF LoopInv
<1>11. Generations'
  <2>1. "par" \in Loops!Kind
      BY DEF Loops!Kind
  <2> QED  BY <1>1, <1>5, <1>8, <2>1 DEF LoopInv, Generations, GenOf
<1>12. Numbered'
    BY <1>0, <1>1, <1>5, <1>8, <1>9 DEF LoopInv, Numbered
<1>13. Spawning'
  <2>1. \A q \in Loops!Kind : loop'[q].pc = "spawn" => \A i \in 1..loop'[q].t :
          Mine(q, loop[q].pids[i])' /\ task'[loop'[q].pids[i]].st = "susp"
    <3> SUFFICES ASSUME NEW q \in Loops!Kind, loop'[q].pc = "spawn", NEW i \in 1..loop'[q].t
                 PROVE  Mine(q, loop[q].pids[i])' /\ task'[loop'[q].pids[i]].st = "susp"
        OBVIOUS
    <3>1. q # k /\ loop'[q] = loop[q]
        BY <1>3, <1>4
    <3> PICK p \in Loops!Slot : p = loop[q].pids[i]
        BY <1>10, <3>1
    <3>2. Mine(q, p) /\ task[p].st = "susp" /\ loop'[q].pids[i] = p
        BY <3>1 DEF LoopInv, Spawning
    <3>3. task[p].kind = q
        BY <3>2 DEF Mine
    <3>4. task'[p].st = "susp"
        BY <1>1, <3>1, <3>2, <3>3
    <3>5. Mine(q, p)'
        BY <1>9, <3>2
    <3> QED  BY <3>2, <3>4, <3>5 DEF Mine, Live
  <2>2. \A s \in Loops!Slot : task'[s].st = "susp" =>
          Mine(task[s].kind, s)' /\ loop'[task'[s].kind].pc = "spawn"
    <3> SUFFICES ASSUME NEW s \in Loops!Slot, task'[s].st = "susp"
                 PROVE  Mine(task[s].kind, s)' /\ loop'[task'[s].kind].pc = "spawn"
        OBVIOUS
    <3> PICK q \in Loops!Kind : q = task[s].kind
        BY <1>0
    <3>1. q # k /\ task[s].st = "susp" /\ task'[s].kind = q
        BY <1>1
    <3>2. Mine(q, s) /\ loop[q].pc = "spawn"
        BY <3>1 DEF LoopInv, Spawning
    <3>3. Mine(q, s)' /\ loop'[q].pc = "spawn"
        BY <1>4, <1>9, <3>1, <3>2
    <3> QED  BY <3>1, <3>3 DEF Mine
  <2>3. \A q \in Loops!Kind : \A i, j \in 1..loop'[q].t :
          loop'[q].pids[i] = loop'[q].pids[j] => i = j
      BY <1>5 DEF LoopInv, Spawning
  <2> QED  BY <2>1, <2>2, <2>3 DEF Spawning
<1>14. Exact'
  <2> SUFFICES ASSUME hung = FALSE  PROVE Exact'
      BY Zenon, <1>7 DEF Exact, LoopTypes
  <2>0. Exact /\ ~hung
      BY DEF LoopInv
  <2>1. \A s \in Loops!Slot :
          Live(s)' /\ (task'[s].call # loop'[task'[s].kind].call \/ loop'[task'[s].kind].pc = "idle")
          => task'[s].st = "counted"
      BY <1>0, <1>1, <1>5, <1>8, <2>0 DEF Exact
  <2>2. ASSUME NEW q \in Loops!Kind, NEW i \in 1..loop[q].t
        PROVE  /\ i \in Uncounted(q)' <=> i \in Uncounted(q)
               /\ Idling(q, i)' <=> Idling(q, i)
    <3> PICK p \in Loops!Slot : p = loop[q].pids[i]
        BY <1>10
    <3>1. /\ loop'[q].pids[i] = p /\ i \in 1..loop'[q].t /\ (Mine(q, p)' <=> Mine(q, p))
          /\ loop'[q].call = loop[q].call
        BY <1>5, <1>9
    <3>2. /\ task'[p].st \in {"susp", "ready"} <=> task[p].st \in {"susp", "ready"}
          /\ task'[p].st = "worked" <=> task[p].st = "worked"
        BY <1>1
    <3> QED  BY Zenon, <3>1, <3>2 DEF Uncounted, Idling, Mine, Live
  <2>3. \A q \in Loops!Kind : loop'[q].done + Cardinality(Uncounted(q)') = loop'[q].t
    <3> SUFFICES ASSUME NEW q \in Loops!Kind  PROVE Uncounted(q)' = Uncounted(q)
        BY <1>5, <2>0 DEF Exact
    <3>1. Uncounted(q) \subseteq 1..loop[q].t /\ Uncounted(q)' \subseteq 1..loop[q].t
        BY <1>5 DEF Uncounted
    <3> QED  BY Zenon, <2>2, <3>1
  <2>4. \A q \in Loops!Kind : \A i \in 1..loop'[q].t : ~Idling(q, i)' =>
          res'[q][loop'[q].pids[i]] =
              Loops!Work(q, loop'[q].call, Loops!First(i - 1), Loops!First(i))
    <3> SUFFICES ASSUME NEW q \in Loops!Kind, NEW i \in 1..loop'[q].t, ~Idling(q, i)'
                 PROVE  res'[q][loop'[q].pids[i]] =
                          Loops!Work(q, loop'[q].call, Loops!First(i - 1), Loops!First(i))
        OBVIOUS
    <3>1. i \in 1..loop[q].t
        BY <1>5
    <3>2. ~Idling(q, i)
        BY <2>2, <3>1
    <3> QED  BY <1>5, <2>0, <3>1, <3>2 DEF Exact
  <2>5. \A q \in Loops!Kind : loop'[q].pc = "wait" =>
          loop'[q].own = Loops!Work(q, loop'[q].call, Loops!First(loop'[q].t), N)
      BY <1>5, <2>0 DEF Exact
  <2> QED  BY <2>1, <2>3, <2>4, <2>5 DEF Exact
<1> QED  BY <1>7, <1>11, <1>12, <1>13, <1>14 DEF LoopInv

LEMMA CreateStep ==
    ASSUME LoopInv, NEW k \in Loops!Kind, Loops!Create(k)
    PROVE  LoopInv'
<1> DEFINE free == {s \in Loops!Slot : task[s].st = "free"}
           s1 == CHOOSE x \in free : \A y \in free : x <= y
<1>1. CASE loop[k].t < Loops!Spawned(k) /\ free # {}
  <2>1. free \subseteq Nat /\ SLOTS \in Nat
      BY LoopConstants DEF Loops!Slot
  <2>2. \E x \in free : \A y \in free : x <= y
      BY Zenon, <1>1, <2>1, LeastNumber
  <2>3. s1 \in free
      BY <2>2
  <2>4. loop[k].t < UNITS
      BY <1>1, Fields, LoopConstants DEF Loops!Spawned, LoopInv
  <2>5. /\ task' = [task EXCEPT ![s1] = [st |-> "susp", kind |-> k, unit |-> loop[k].t,
                                         call |-> loop[k].call, gen |-> loop[k].gen]]
        /\ res' = [res EXCEPT ![k][s1] = {}]
        /\ loop' = [loop EXCEPT ![k].t = @ + 1, ![k].pids = Append(@, s1)]
        /\ loop[k].pc = "spawn" /\ UNCHANGED <<sp_gen, hung, wrong>>
      BY <1>1 DEF Loops!Create
  <2> HIDE DEF s1
  <2> PICK s \in Loops!Slot : s = s1 /\ task[s].st = "free"
      BY <2>3
  <2> QED  BY Zenon, <2>4, <2>5, SpawnStep
<1>2. CASE ~ (loop[k].t < Loops!Spawned(k) /\ free # {})
  <2>1. /\ task' = [s \in Loops!Slot |-> IF task[s].st = "susp" /\ task[s].kind = k
                                         THEN [task[s] EXCEPT !.st = "ready"] ELSE task[s]]
        /\ loop' = [loop EXCEPT ![k].pc = "own"]
        /\ loop[k].pc = "spawn" /\ UNCHANGED <<res, sp_gen, hung, wrong>>
      BY <1>2 DEF Loops!Create
  <2> QED  BY Zenon, <2>1, ResumeStep
<1> QED  BY <1>1, <1>2

-----------------------------------------------------------------------------
\* Counting modulo m.
LEMMA ModSucc ==
    ASSUME NEW a \in Nat, NEW m \in Nat \ {0}
    PROVE  ((a % m) + 1) % m = (a + 1) % m
<1>1. PICK q \in Nat, r \in Nat : r < m /\ a = q * m + r /\ a % m = r
    BY DivMod
<1>2. CASE r + 1 < m
  <2>1. (r + 1) % m = r + 1
      BY <1>2
  <2>2. (q * m + (r + 1)) % m = r + 1
      BY <1>2, Z3
  <2> QED  BY <1>1, <2>1, <2>2
<1>3. CASE r + 1 = m
  <2>1. (r + 1) % m = 0
      BY <1>3
  <2>2. ((q + 1) * m) % m = 0
      BY Z3
  <2>3. a + 1 = (q + 1) * m
      BY <1>1, <1>3
  <2> QED  BY <1>1, <2>1, <2>2, <2>3
<1> QED  BY <1>1, <1>2, <1>3

\* Numbers with one remainder are a whole modulus apart.
LEMMA ModGap ==
    ASSUME NEW a \in Nat, NEW b \in Nat, NEW m \in Nat \ {0}, a < b, a % m = b % m
    PROVE  a + m <= b
<1>1. PICK q \in Nat, r \in Nat : a = q * m + r /\ a % m = r
    BY Zenon, DivMod
<1>2. PICK p \in Nat : b = p * m + r
    BY Zenon, <1>1, DivMod
<1>3. q < p
  <2> SUFFICES ASSUME p <= q  PROVE FALSE
      OBVIOUS
  <2>1. p * m <= q * m
      OBVIOUS
  <2>2. p * m \in Nat /\ q * m \in Nat
      OBVIOUS
  <2> QED  BY <1>1, <1>2, <2>1, <2>2
<1>4. (q + 1) * m <= p * m
    BY <1>3
<1>5. (q + 1) * m = q * m + m /\ q * m \in Nat /\ p * m \in Nat
    OBVIOUS
<1> QED  BY <1>1, <1>2, <1>4, <1>5

LEMMA LoopNext ==
    ASSUME LoopInv, Loops!PNext
    PROVE  LoopInv'
<1>0. /\ \A k \in Loops!Kind : loop[k].call \in Nat
      /\ SP_GEN \in Nat \ {0} /\ "par" \in Loops!Kind /\ "nq" \in Loops!Kind
    BY Fields, LoopConstants DEF LoopInv, Loops!Kind
<1>1. CASE Loops!smpsched_parallel
  <2>1. /\ loop["par"].pc = "idle" /\ UNCHANGED <<task, res, hung, wrong>>
        /\ loop' = [loop EXCEPT !["par"] = Loops!Begun("spawn", loop["par"].call + 1, sp_gen)]
        /\ sp_gen' = (sp_gen + 1) % SP_GEN
      BY <1>1 DEF Loops!smpsched_parallel, Loops!Call, Loops!NextGen
  <2>2. sp_gen = loop["par"].call % SP_GEN /\ sp_gen \in Nat
      BY <1>0, DivMod DEF LoopInv, Generations
  <2>3. /\ LoopTypes' /\ Numbered' /\ Spawning' /\ Exact'
        /\ loop'["par"].call = loop["par"].call + 1 /\ loop'["par"].gen = sp_gen
      BY Zenon, <1>0, <2>1, <2>2, CallStep
  <2>4. sp_gen' = (loop["par"].call + 1) % SP_GEN
      BY <1>0, <2>1, <2>2, ModSucc
  <2>5. loop'["par"].call >= 1 /\ loop'["par"].call - 1 = loop["par"].call
      BY <1>0, <2>3
  <2>6. Generations'
      BY <2>1, <2>2, <2>3, <2>4, <2>5 DEF LoopInv, Generations, GenOf, Live
  <2> QED  BY <2>3, <2>6 DEF LoopInv
<1>2. CASE Loops!smpsched_nqueens
  <2>1. /\ loop["nq"].pc = "idle" /\ UNCHANGED <<task, res, sp_gen, hung, wrong>>
        /\ loop' = [loop EXCEPT !["nq"] = Loops!Begun("spawn", loop["nq"].call + 1, 0)]
      BY <1>2 DEF Loops!smpsched_nqueens, Loops!Call
  <2>2. /\ LoopTypes' /\ Numbered' /\ Spawning' /\ Exact'
        /\ \A q \in Loops!Kind : q # "nq" => loop'[q] = loop[q]
      BY Zenon, <1>0, <2>1, CallStep
  <2>3. loop'["par"] = loop["par"]
      BY <1>0, <2>2
  <2>4. Generations'
      BY <2>1, <2>3 DEF LoopInv, Generations, GenOf, Live
  <2> QED  BY <2>2, <2>4 DEF LoopInv
<1>3. ASSUME NEW k \in Loops!Kind, Loops!Create(k) \/ Loops!Own(k) \/ Loops!Finish(k)
      PROVE  LoopInv'
    BY <1>3, CreateStep, OwnStep, FinishStep
<1>4. ASSUME NEW s \in Loops!Slot, Loops!UnitWork(s) \/ Loops!UnitCounts(s) \/ Loops!Exit(s)
      PROVE  LoopInv'
    BY <1>4, WorkStep, CountStep, ExitStep
<1> QED  BY <1>1, <1>2, <1>3, <1>4 DEF Loops!PNext

\* The generations of stacks that the invariant gives are the ones promised.
LEMMA LoopWhole ==
    ASSUME LoopInv
    PROVE  Loops!ParallelExact /\ Loops!StackGenerations
<1>1. Loops!ParallelExact
    BY DEF LoopInv, LoopTypes, Loops!ParallelExact
<1>2. ASSUME NEW s \in Loops!Slot, NEW r \in Loops!Slot, s # r, Live(s), Live(r),
             task[s].kind = "par", task[r].kind = "par",
             task[s].unit = task[r].unit, task[s].gen = task[r].gen
      PROVE  task[s].call + SP_GEN <= task[r].call \/ task[r].call + SP_GEN <= task[s].call
  <2> DEFINE a == task[s].call - 1
             b == task[r].call - 1
  <2>1. /\ task[s].call \in Nat /\ task[r].call \in Nat
        /\ task[s].call >= 1 /\ task[r].call >= 1
        /\ a % SP_GEN = b % SP_GEN
      BY <1>2, Fields DEF LoopInv, Generations, GenOf
  <2>2. a \in Nat /\ b \in Nat /\ SP_GEN \in Nat \ {0}
      BY <2>1, LoopConstants
  <2>3. task[s].call # task[r].call
      BY <1>2 DEF LoopInv, Numbered
  <2>4. a < b \/ b < a
      BY <2>1, <2>3
  <2>5. a + SP_GEN <= b \/ b + SP_GEN <= a
    <3> HIDE DEF a, b
    <3> QED  BY Zenon, <2>1, <2>2, <2>4, ModGap
  <2> QED  BY <2>1, <2>2, <2>5
<1> QED  BY <1>1, <1>2 DEF Loops!StackGenerations, Live

-----------------------------------------------------------------------------
(* The DHCP client (Dhcp): an address in use was granted.                   *)

\* Every ACK on the link grants its address, and a bound client holds one.
LeaseInv ==
    /\ Lease!LeaseGranted
    /\ \A m \in link : m.type = "ACK" => m.ip \in acked
    /\ g_state = "BOUND" => g_my_ip \in acked

\* The lease at power-up.
LEMMA LeaseInit == Lease!Init => LeaseInv
BY DEF Lease!Init, LeaseInv, Lease!LeaseGranted, Lease!None

\* Every step of the client, the servers and the responder keeps it.
LEMMA LeaseNext == LeaseInv /\ Lease!Next => LeaseInv'
<1> SUFFICES ASSUME LeaseInv, Lease!Next PROVE LeaseInv'
    OBVIOUS
<1>1. CASE Lease!DriveDiscover
  <2>1. link' = link \cup {Lease!build_dhcp("DISCOVER", Lease!None, Lease!None)} /\ (g_state' = "BOUND" => g_state = "BOUND")
    BY <1>1 DEF Lease!DriveDiscover, Lease!dhcp_send_discover
  <2>2. UNCHANGED <<g_my_ip, responder_ip, tcp_ip, answered, acked>>
    BY <1>1 DEF Lease!DriveDiscover, Lease!addrs
  <2>3. \A m \in link' : m.type = "ACK" => m.ip \in acked'
    BY <2>1, <2>2 DEF Lease!build_dhcp, LeaseInv
  <2> QED  BY <2>1, <2>2, <2>3 DEF LeaseInv, Lease!LeaseGranted
<1>2. CASE Lease!DriveApply
    BY <1>2 DEF Lease!DriveApply, Lease!net_responder_send_gratuitous_arp, Lease!dhcp_is_bound,
       LeaseInv, Lease!LeaseGranted
<1>3. ASSUME NEW m \in link, Lease!RecvOffer(m) \/ Lease!RecvAck(m) \/ Lease!RecvNak(m) PROVE LeaseInv'
  <2>1. UNCHANGED <<responder_ip, tcp_ip, answered, acked>>
    BY <1>3 DEF Lease!RecvOffer, Lease!RecvAck, Lease!RecvNak, Lease!Handle, Lease!addrs
  <2>2. \A k \in link' : k.type = "ACK" => k.ip \in acked'
    BY <1>3, <2>1 DEF Lease!RecvOffer, Lease!RecvAck, Lease!RecvNak, Lease!build_dhcp, LeaseInv
  <2>3. g_state' = "BOUND" => g_my_ip' \in acked'
    BY <1>3, <2>1 DEF Lease!RecvOffer, Lease!RecvAck, Lease!RecvNak, LeaseInv
  <2> QED  BY <2>1, <2>2, <2>3 DEF LeaseInv, Lease!LeaseGranted
<1>4. ASSUME NEW s \in Server, NEW a \in Address, Lease!ServerOffer(s, a) PROVE LeaseInv'
  <2>1. UNCHANGED <<g_state, g_my_ip, responder_ip, tcp_ip, answered, acked>>
    BY <1>4 DEF Lease!ServerOffer, Lease!addrs
  <2>2. \A k \in link' : k.type = "ACK" => k.ip \in acked'
    BY <1>4, <2>1 DEF Lease!ServerOffer, Lease!build_dhcp, LeaseInv
  <2> QED  BY <2>1, <2>2 DEF LeaseInv, Lease!LeaseGranted
<1>5. ASSUME NEW s \in Server, NEW type \in {"ACK", "NAK"}, Lease!ServerAnswer(s, type) PROVE LeaseInv'
  <2>1. UNCHANGED <<g_state, g_my_ip, responder_ip, tcp_ip, answered>>
    BY <1>5 DEF Lease!ServerAnswer, Lease!addrs
  <2>2. PICK m \in link : /\ link' = link \cup {Lease!build_dhcp(type, m.ip, s)}
                          /\ acked' = IF type = "ACK" THEN acked \cup {m.ip} ELSE acked
    BY Zenon, <1>5 DEF Lease!ServerAnswer
  <2>3. acked \subseteq acked' /\ \A k \in link' : k.type = "ACK" => k.ip \in acked'
    BY <2>2 DEF Lease!build_dhcp, LeaseInv
  <2> QED  BY <2>1, <2>3 DEF LeaseInv, Lease!LeaseGranted
<1>6. ASSUME NEW a, Lease!net_responder_handle(a) PROVE LeaseInv'
    BY <1>6 DEF Lease!net_responder_handle, LeaseInv, Lease!LeaseGranted
<1> QED  BY <1>1, <1>2, <1>3, <1>4, <1>5, <1>6 DEF Lease!Next

-----------------------------------------------------------------------------
(* The downloads (WifiClients): what is kept continues what was kept.       *)

\* What a frame may say.
GoodFrame(m) ==
    /\ m[1] = "seg" => m[2] \in Nat
    /\ m[1] = "data" => m[2] \in Nat /\ m[2] <= BLKMOD

\* An operation that runs.
Runs(o) == o.kind \in {"arp", "ping", "ntp", "dns", "http", "tftp"}

\* q holds 1, 2, ..., k.
Counts(q, k) == q \in Seq(Nat) /\ Len(q) = k /\ \A i \in 1 .. k : q[i] = i

\* A file reported complete is whole.
FileWhole ==
    op = Downloads!Idle /\ results # << >> /\ results[Len(results)] = <<"tftp", "complete">>
        => Len(tftpfile) = Blocks

DownInv ==
    /\ \A m \in sent : GoodFrame(m)
    /\ Len(fifo) \in Nat /\ \A i \in 1 .. Len(fifo) : GoodFrame(fifo[i])
    /\ \E S : fifo \in Seq(S)
    /\ \E S : results \in Seq(S)
    /\ op = Downloads!Idle \/ Runs(op)
    /\ our_ack \in Nat /\ Counts(httppage, IF our_ack = 0 THEN 0 ELSE our_ack - 1)
    /\ nextblk \in Nat \ {0} /\ Counts(tftpfile, nextblk - 1)
    /\ FileWhole

\* The downloads at boot.
LEMMA DownInit == Downloads!Init => DownInv
<1> SUFFICES ASSUME Downloads!Init PROVE DownInv
    OBVIOUS
<1>1. Counts(<< >>, 0)
    BY DEF Counts
<1>2. << >> \in Seq({}) /\ Len(<< >>) = 0
    OBVIOUS
<1> QED  BY <1>1, <1>2 DEF Downloads!Init, DownInv, FileWhole

\* A later piece of the queue is a queue of the same frames.
LEMMA LaterFrames ==
    ASSUME NEW S, NEW q \in Seq(S), \A i \in 1 .. Len(q) : GoodFrame(q[i]), NEW k \in 0 .. Len(q)
    PROVE  LET r == SubSeq(q, k + 1, Len(q))
           IN  r \in Seq(S) /\ Len(r) \in Nat /\ \A i \in 1 .. Len(r) : GoodFrame(r[i])
<1> DEFINE r == SubSeq(q, k + 1, Len(q))
<1>0. PICK l \in Nat : l = Len(q)
    OBVIOUS
<1>1. \A i \in k + 1 .. l : q[i] \in S
    BY <1>0
<1>2. r \in Seq(S) /\ Len(r) = l - k /\ \A i \in 1 .. l - k : r[i] = q[k + i]
  <2>1. k + 1 \in Int /\ l \in Int /\ Len(r) = IF k + 1 <= l THEN l - (k + 1) + 1 ELSE 0
    BY <1>0, <1>1, SubSeqProperties
  <2>2. r \in Seq(S) /\ \A i \in 1 .. (l - (k + 1) + 1) : r[i] = q[(k + 1) + i - 1]
    BY <1>0, <1>1, SubSeqProperties
  <2> QED  BY <1>0, <2>1, <2>2
<1>3. \A i \in 1 .. l - k : k + i \in 1 .. l
    BY <1>0
<1> QED  BY <1>0, <1>2, <1>3

\* So is the queue without its first frame.
LEMMA TailFrames ==
    ASSUME NEW S, NEW q \in Seq(S), q # << >>, \A i \in 1 .. Len(q) : GoodFrame(q[i])
    PROVE  /\ Tail(q) \in Seq(S) /\ Len(Tail(q)) \in Nat /\ \A i \in 1 .. Len(Tail(q)) : GoodFrame(Tail(q)[i])
           /\ GoodFrame(Head(q))
<1>1. /\ Tail(q) \in Seq(S) /\ Len(Tail(q)) = Len(q) - 1 /\ \A i \in 1 .. Len(Tail(q)) : Tail(q)[i] = q[i + 1]
      /\ Len(q) \in Nat \ {0} /\ Head(q) = q[1]
    BY HeadTailProperties, EmptySeq
<1>2. \A i \in 1 .. Len(Tail(q)) : i + 1 \in 1 .. Len(q)
    BY <1>1
<1> QED  BY <1>1, <1>2

\* One more in sequence.
LEMMA CountsMore ==
    ASSUME NEW q, NEW k \in Nat, Counts(q, k)
    PROVE  Counts(Append(q, k + 1), k + 1)
<1>1. /\ Append(q, k + 1) \in Seq(Nat) /\ Len(Append(q, k + 1)) = k + 1
      /\ Append(q, k + 1)[k + 1] = k + 1 /\ \A i \in 1 .. k : Append(q, k + 1)[i] = q[i]
    BY AppendProperties DEF Counts
<1> QED  BY <1>1 DEF Counts

\* wifi_data_tx keeps the frames good.
LEMMA TxKeeps ==
    ASSUME NEW S, NEW q \in Seq(S), \A i \in 1 .. Len(q) : GoodFrame(q[i]), NEW ms,
           \A m \in ms : GoodFrame(m), \A m \in sent : GoodFrame(m), Downloads!wifi_data_tx(ms, q)
    PROVE  /\ \A m \in sent' : GoodFrame(m)
           /\ \E T : fifo' \in Seq(T)
           /\ Len(fifo') \in Nat /\ \A i \in 1 .. Len(fifo') : GoodFrame(fifo'[i])
<1>1. PICK k \in 0 .. Len(q) : fifo' = SubSeq(q, k + 1, Len(q))
    BY DEF Downloads!wifi_data_tx
<1>2. fifo' \in Seq(S) /\ Len(fifo') \in Nat /\ \A i \in 1 .. Len(fifo') : GoodFrame(fifo'[i])
    BY <1>1, LaterFrames
<1>3. sent' = sent \cup ms
    BY DEF Downloads!wifi_data_tx
<1> QED  BY <1>2, <1>3
\* The operations that ask, and the frames they read, keep the rest.
LEMMA DownSame ==
    ASSUME DownInv, UNCHANGED <<httppage, our_ack, tftpfile, nextblk>>,
           \A m \in sent' : GoodFrame(m), \E S : fifo' \in Seq(S),
           Len(fifo') \in Nat, \A i \in 1 .. Len(fifo') : GoodFrame(fifo'[i]),
           \/ op' = op /\ results' = results
           \/ Runs(op') /\ results' = results
           \/ op' = Downloads!Idle /\ \E r : results' = Append(results, r) /\ r # <<"tftp", "complete">>
    PROVE  DownInv'
<1>1. op' = Downloads!Idle \/ Runs(op')
    BY DEF DownInv
<1>2. (\E S : results' \in Seq(S)) /\ FileWhole'
  <2>1. CASE op' = op /\ results' = results
    BY <2>1 DEF DownInv, FileWhole
  <2>2. CASE Runs(op') /\ results' = results
    BY <2>2 DEF DownInv, FileWhole, Runs, Downloads!Idle
  <2>3. CASE \E r : results' = Append(results, r) /\ r # <<"tftp", "complete">>
    <3>1. PICK r : results' = Append(results, r) /\ r # <<"tftp", "complete">>
        BY <2>3
    <3>2. PICK S : results \in Seq(S)
        BY DEF DownInv
    <3>3. results \in Seq(S \cup {r})
        BY <3>2
    <3>4. results' \in Seq(S \cup {r}) /\ results'[Len(results')] = r
        BY <3>1, <3>3, AppendProperties
    <3> QED  BY <3>1, <3>4 DEF FileWhole
  <2> QED  BY <2>1, <2>2, <2>3
<1> QED  BY <1>1, <1>2 DEF DownInv

\* Every step of the clients and the air keeps it.
LEMMA DownNext == DownInv /\ Downloads!Next => DownInv'
<1> SUFFICES ASSUME DownInv, Downloads!Next PROVE DownInv'
    OBVIOUS
<1>0. PICK S : fifo \in Seq(S)
    BY DEF DownInv
<1>1. /\ \A i \in 1 .. Len(fifo) : GoodFrame(fifo[i])
      /\ \A m \in sent : GoodFrame(m)
      /\ BLKMOD \in Nat \ {0} /\ Blocks \in Nat \ {0} /\ Segments \in Nat
      /\ op = Downloads!Idle \/ Runs(op)
    BY DevicesAssumption DEF DownInv
<1>2. fifo # << >> => /\ Tail(fifo) \in Seq(S) /\ Len(Tail(fifo)) \in Nat /\ GoodFrame(Head(fifo))
                      /\ \A i \in 1 .. Len(Tail(fifo)) : GoodFrame(Tail(fifo)[i])
    BY <1>0, <1>1, TailFrames
<1>3. \A kind, left, asks : Downloads!Begin(kind, left, asks) /\ (\A m \in asks : GoodFrame(m)) =>
          /\ \A m \in sent' : GoodFrame(m)
          /\ \E T : fifo' \in Seq(T)
          /\ Len(fifo') \in Nat /\ \A i \in 1 .. Len(fifo') : GoodFrame(fifo'[i])
  <2> SUFFICES ASSUME NEW kind, NEW left, NEW asks, Downloads!Begin(kind, left, asks), \A m \in asks : GoodFrame(m)
               PROVE  /\ \A m \in sent' : GoodFrame(m)
                      /\ \E T : fifo' \in Seq(T)
                      /\ Len(fifo') \in Nat /\ \A i \in 1 .. Len(fifo') : GoodFrame(fifo'[i])
    OBVIOUS
  <2>1. Downloads!wifi_data_tx(asks, fifo)
    BY DEF Downloads!Begin
  <2> QED  BY <1>0, <1>1, <2>1, TxKeeps
<1>4. CASE Downloads!Arrive
  <2>1. UNCHANGED <<httppage, our_ack, tftpfile, nextblk, op, results, sent>>
    BY <1>4 DEF Downloads!Arrive, Downloads!dl
  <2>2. PICK m : fifo' = Append(fifo, m) /\ GoodFrame(m)
    BY <1>1, <1>4 DEF Downloads!Arrive, GoodFrame
  <2>3. fifo \in Seq(S \cup {m})
    BY <1>0
  <2>4. /\ fifo' \in Seq(S \cup {m}) /\ Len(fifo') = Len(fifo) + 1 /\ Len(fifo) \in Nat
        /\ fifo'[Len(fifo) + 1] = m /\ \A i \in 1 .. Len(fifo) : fifo'[i] = fifo[i]
    BY <2>2, <2>3, AppendProperties
  <2>5. \A i \in 1 .. Len(fifo') : GoodFrame(fifo'[i])
    BY <1>1, <2>2, <2>4
  <2>6. Len(fifo') \in Nat
    BY <2>4
  <2> QED  BY <1>1, <2>1, <2>4, <2>5, <2>6, DownSame
<1>5. CASE Downloads!Nothing
  <2>1. UNCHANGED <<httppage, our_ack, tftpfile, nextblk, fifo, sent>>
    BY <1>5 DEF Downloads!Nothing, Downloads!dl
  <2>2. \/ Runs(op') /\ results' = results
        \/ op' = Downloads!Idle /\ \E r : results' = Append(results, r) /\ r # <<"tftp", "complete">>
    <3>1. CASE op.left > 0
      <4>1. op' = [op EXCEPT !.left = op.left - 1] /\ results' = results /\ Runs(op)
        BY <1>1, <1>5, <3>1 DEF Downloads!Nothing, Downloads!Wait
      <4>2. op'.kind = op.kind
        BY <4>1
      <4> QED  BY <4>1, <4>2 DEF Runs
    <3>2. CASE ~(op.left > 0)
      <4>1. op' = Downloads!Idle /\ results' = Append(results, <<op.kind, "timeout">>)
        BY <1>5, <3>2 DEF Downloads!Nothing, Downloads!Finish
      <4>2. <<op.kind, "timeout">> # <<"tftp", "complete">>
        OBVIOUS
      <4> QED  BY Zenon, <4>1, <4>2
    <3> QED  BY <3>1, <3>2
  <2>3. Len(fifo') \in Nat /\ fifo' \in Seq(S)
    BY <1>0, <2>1
  <2> QED  BY <1>1, <2>1, <2>2, <2>3, DownSame
<1>6. CASE Downloads!QueryFrame \/ Downloads!wifi_resolve
  <2>1. UNCHANGED <<httppage, our_ack, tftpfile, nextblk, sent>> /\ fifo' = Tail(fifo) /\ fifo # << >>
    BY <1>6 DEF Downloads!QueryFrame, Downloads!wifi_resolve, Downloads!dl
  <2>2. \/ op' = op /\ results' = results
        \/ op' = Downloads!Idle /\ \E r : results' = Append(results, r) /\ r # <<"tftp", "complete">>
    <3>1. \A x, y : <<x, y>> # <<"tftp", "complete">> \/ (x = "tftp" /\ y = "complete")
        OBVIOUS
    <3>2. CASE op' = op /\ results' = results
        BY <3>2
    <3>3. ASSUME NEW x, NEW y, Downloads!Finish(<<x, y>>), y # "complete"
          PROVE  op' = Downloads!Idle /\ \E r : results' = Append(results, r) /\ r # <<"tftp", "complete">>
        BY Zenon, <3>1, <3>3 DEF Downloads!Finish
    <3>4. CASE Downloads!QueryFrame
      <4>0. PICK x : x = op.kind
        OBVIOUS
      <4>1. (op' = op /\ results' = results) \/ Downloads!Finish(<<x, "answer">>)
        BY <3>4, <4>0 DEF Downloads!QueryFrame
      <4>2. "answer" # "complete"
        OBVIOUS
      <4> QED  BY <3>2, <3>3, <4>1, <4>2
    <3>5. CASE Downloads!wifi_resolve
      <4>1. (op' = op /\ results' = results) \/ \E r \in {"answer", "no_A_record"} : Downloads!Finish(<<"dns", r>>)
        BY <3>5 DEF Downloads!wifi_resolve
      <4>2. \A r \in {"answer", "no_A_record"} : r # "complete"
        OBVIOUS
      <4> QED  BY <3>2, <3>3, <4>1, <4>2
    <3> QED  BY <1>6, <3>4, <3>5
  <2> QED  BY <1>1, <1>2, <2>1, <2>2, DownSame
<1>7. CASE Downloads!wifi_handle_frame
  <2>1. UNCHANGED <<httppage, our_ack, tftpfile, nextblk, op, results, sent>> /\ fifo' = Tail(fifo) /\ fifo # << >>
    BY <1>7 DEF Downloads!wifi_handle_frame, Downloads!dl
  <2> QED  BY <1>1, <1>2, <2>1, DownSame
<1>8. ASSUME NEW kind \in Downloads!OneShot, Downloads!wifi_query(kind) PROVE DownInv'
  <2>1. UNCHANGED <<httppage, our_ack, tftpfile, nextblk>> /\ Downloads!Begin(kind, 1, {<<kind, calls + 1>>})
    BY <1>8 DEF Downloads!wifi_query, Downloads!dl
  <2>2. \A m \in {<<kind, calls + 1>>} : GoodFrame(m)
    BY DEF GoodFrame, Downloads!OneShot
  <2>3. Runs(op') /\ results' = results
    BY <2>1 DEF Downloads!Begin, Downloads!Wait, Runs, Downloads!OneShot
  <2> QED  BY <1>3, <2>1, <2>2, <2>3, DownSame
<1>9. CASE Downloads!wifi_http
  <2>1. /\ httppage' = << >> /\ our_ack' = 0 /\ UNCHANGED <<tftpfile, nextblk>>
        /\ Downloads!Begin("http", 1, {<<"synack", 0>>})
    BY <1>9 DEF Downloads!wifi_http
  <2>2. \A m \in {<<"synack", 0>>} : GoodFrame(m)
    BY DEF GoodFrame
  <2>3. Runs(op') /\ results' = results
    BY <2>1 DEF Downloads!Begin, Downloads!Wait, Runs
  <2>4. Counts(httppage', IF our_ack' = 0 THEN 0 ELSE our_ack' - 1) /\ our_ack' \in Nat
    BY <2>1 DEF Counts
  <2>5. FileWhole'
    BY <2>3 DEF FileWhole, Runs, Downloads!Idle
  <2> QED  BY Zenon, <1>3, <2>1, <2>2, <2>3, <2>4, <2>5 DEF DownInv
<1>10. CASE Downloads!wifi_tftp_get
  <2>1. /\ tftpfile' = << >> /\ nextblk' = 1 /\ UNCHANGED <<httppage, our_ack>>
        /\ Downloads!Begin("tftp", 1, {<<"data", 1>>})
    BY <1>10 DEF Downloads!wifi_tftp_get
  <2>2. \A m \in {<<"data", 1>>} : GoodFrame(m)
    BY <1>1 DEF GoodFrame
  <2>3. Runs(op') /\ results' = results
    BY <2>1 DEF Downloads!Begin, Downloads!Wait, Runs
  <2>4. Counts(tftpfile', nextblk' - 1) /\ nextblk' \in Nat \ {0}
    BY <2>1 DEF Counts
  <2>5. FileWhole'
    BY <2>3 DEF FileWhole, Runs, Downloads!Idle
  <2> QED  BY Zenon, <1>3, <2>1, <2>2, <2>3, <2>4, <2>5 DEF DownInv
<1>11. CASE Downloads!HttpSynAck
  <2>1. /\ UNCHANGED <<httppage, tftpfile, nextblk, op, results>> /\ our_ack = 0 /\ fifo # << >>
        /\ our_ack' \in {0, 1}
    BY <1>11 DEF Downloads!HttpSynAck, Downloads!Wait
  <2>2. /\ \A m \in sent' : GoodFrame(m)
        /\ \E T : fifo' \in Seq(T)
        /\ Len(fifo') \in Nat /\ \A i \in 1 .. Len(fifo') : GoodFrame(fifo'[i])
    <3>1. CASE Head(fifo)[1] = "synack"
      <4>1. Downloads!wifi_data_tx({<<"seg", s>> : s \in 1..Segments}, Tail(fifo))
        BY <1>11, <3>1 DEF Downloads!HttpSynAck
      <4>2. \A m \in {<<"seg", s>> : s \in 1..Segments} : GoodFrame(m)
        BY <1>1 DEF GoodFrame
      <4> QED  BY Zenon, <1>1, <1>2, <2>1, <4>1, <4>2, TxKeeps
    <3>2. CASE Head(fifo)[1] # "synack"
      <4>1. fifo' = Tail(fifo) /\ sent' = sent
        BY <1>11, <3>2 DEF Downloads!HttpSynAck
      <4> QED  BY <1>1, <1>2, <2>1, <4>1
    <3> QED  BY <3>1, <3>2
  <2>3. Counts(httppage', IF our_ack' = 0 THEN 0 ELSE our_ack' - 1) /\ our_ack' \in Nat
    BY <2>1 DEF DownInv
  <2> QED  BY <2>1, <2>2, <2>3 DEF DownInv, FileWhole
<1>12. CASE Downloads!HttpSegment
  <2>1. /\ UNCHANGED <<tftpfile, nextblk, sent>> /\ fifo # << >> /\ fifo' = Tail(fifo) /\ our_ack > 0 /\ op.kind = "http"
    BY <1>12 DEF Downloads!HttpSegment
  <2>2. our_ack' \in Nat /\ Counts(httppage', IF our_ack' = 0 THEN 0 ELSE our_ack' - 1)
    <3>0. PICK k \in Nat : k = our_ack /\ k > 0 /\ Counts(httppage, k - 1)
        BY <2>1 DEF DownInv
    <3>1. CASE UNCHANGED <<httppage, our_ack>>
        BY <3>1 DEF DownInv
    <3>2. CASE httppage' = Append(httppage, k) /\ our_ack' = k + 1
      <4>1. k - 1 \in Nat /\ (k - 1) + 1 = k
        BY <3>0
      <4>2. Counts(Append(httppage, k), k)
        BY <3>0, <4>1, CountsMore
      <4> QED  BY <3>2, <4>2
    <3>3. (UNCHANGED <<httppage, our_ack>>) \/ (httppage' = Append(httppage, k) /\ our_ack' = k + 1)
        BY <1>12, <3>0 DEF Downloads!HttpSegment, Downloads!InSequence
    <3> QED  BY <3>1, <3>2, <3>3
  <2>3. \/ op' = op /\ results' = results
        \/ op' = Downloads!Idle /\ results' = Append(results, <<"http", "page">>)
    BY <1>12 DEF Downloads!HttpSegment, Downloads!Finish
  <2>4. (\E T : results' \in Seq(T)) /\ FileWhole' /\ (op' = Downloads!Idle \/ Runs(op'))
    <3>1. CASE op' = op /\ results' = results
        BY <2>1, <3>1 DEF DownInv, FileWhole
    <3>2. CASE op' = Downloads!Idle /\ results' = Append(results, <<"http", "page">>)
      <4>1. PICK T : results \in Seq(T)
        BY DEF DownInv
      <4> DEFINE r == <<"http", "page">>
      <4>2. r # <<"tftp", "complete">>
        OBVIOUS
      <4> HIDE DEF r
      <4>3. results \in Seq(T \cup {r}) /\ results' = Append(results, r)
        BY <3>2, <4>1 DEF r
      <4>4. results' \in Seq(T \cup {r}) /\ results'[Len(results')] = r
        BY <4>3, AppendProperties
      <4> QED  BY <3>2, <4>2, <4>4 DEF FileWhole
    <3> QED  BY <2>3, <3>1, <3>2
  <2> QED  BY <1>1, <1>2, <2>1, <2>2, <2>4 DEF DownInv
<1>13. CASE Downloads!TftpBlock
  <2> DEFINE b == Head(fifo)[2]
  <2>1. UNCHANGED <<httppage, our_ack>> /\ fifo # << >> /\ op.kind = "tftp"
    BY <1>13 DEF Downloads!TftpBlock
  <2>2. CASE Head(fifo)[1] = "data" /\ Downloads!Awaited(b)
    <3>1. /\ tftpfile' = Append(tftpfile, b) /\ nextblk' = nextblk + 1
          /\ Downloads!wifi_data_tx(IF b < Blocks THEN {<<"data", b + 1>>} ELSE {}, Tail(fifo))
          /\ IF b = Blocks THEN Downloads!Finish(<<"tftp", "complete">>) ELSE UNCHANGED <<op, results>>
        BY <1>13, <2>2 DEF Downloads!TftpBlock
    <3>2. b \in Nat /\ b <= BLKMOD /\ b % BLKMOD = nextblk /\ nextblk \in Nat \ {0}
        BY <1>2, <2>1, <2>2 DEF GoodFrame, Downloads!Awaited, DownInv
    <3> HIDE DEF b
    <3>3. b = nextblk /\ b + 1 <= BLKMOD
      <4>1. PICK w \in Nat \ {0} : w = BLKMOD
        BY <1>1
      <4>2. b # w
        BY <3>2, <4>1
      <4>3. b < w
        BY <3>2, <4>1, <4>2
      <4>4. b % w = b
        BY <3>2, <4>3
      <4> QED  BY <3>2, <4>1, <4>3, <4>4
    <3>4. nextblk' \in Nat \ {0} /\ Counts(tftpfile', nextblk' - 1)
      <4>1. PICK k \in Nat : k + 1 = nextblk /\ Counts(tftpfile, k)
        <5>1. nextblk - 1 \in Nat /\ (nextblk - 1) + 1 = nextblk
            BY <3>2
        <5> QED  BY <5>1 DEF DownInv
      <4>2. Counts(Append(tftpfile, k + 1), k + 1)
        BY <4>1, CountsMore
      <4>3. nextblk' - 1 = k + 1 /\ nextblk' \in Nat \ {0}
        BY <3>1, <4>1
      <4> QED  BY <3>1, <3>3, <4>1, <4>2, <4>3
    <3>5. \A m \in (IF b < Blocks THEN {<<"data", b + 1>>} ELSE {}) : GoodFrame(m)
        BY <3>2, <3>3 DEF GoodFrame
    <3>6. /\ \A m \in sent' : GoodFrame(m)
          /\ \E T : fifo' \in Seq(T)
          /\ Len(fifo') \in Nat /\ \A i \in 1 .. Len(fifo') : GoodFrame(fifo'[i])
      <4>1. PICK ms : ms = IF b < Blocks THEN {<<"data", b + 1>>} ELSE {}
        BY Zenon
      <4>2. Downloads!wifi_data_tx(ms, Tail(fifo)) /\ \A m \in ms : GoodFrame(m)
        BY <3>1, <3>5, <4>1
      <4> QED  BY Zenon, <1>1, <1>2, <2>1, <4>2, TxKeeps
    <3>7. (\E T : results' \in Seq(T)) /\ (op' = Downloads!Idle \/ Runs(op')) /\ FileWhole'
      <4>1. CASE b = Blocks
        <5>1. op' = Downloads!Idle /\ results' = Append(results, <<"tftp", "complete">>)
            BY <3>1, <4>1 DEF Downloads!Finish
        <5>2. PICK T : results \in Seq(T)
            BY DEF DownInv
        <5>3. results \in Seq(T \cup {<<"tftp", "complete">>})
            BY <5>2
        <5>4. results' \in Seq(T \cup {<<"tftp", "complete">>})
            BY <5>1, <5>3, AppendProperties
        <5>5. Len(tftpfile') = Blocks
            BY <3>1, <3>2, <3>3, <3>4, <4>1 DEF Counts
        <5> QED  BY <5>1, <5>4, <5>5 DEF FileWhole
      <4>2. CASE b # Blocks
        <5>1. op' = op /\ results' = results
            BY <3>1, <4>2
        <5>2. op # Downloads!Idle
            BY <2>1 DEF Downloads!Idle
        <5> QED  BY <1>1, <5>1, <5>2 DEF FileWhole, DownInv
      <4> QED  BY <4>1, <4>2
    <3> QED  BY <2>1, <3>4, <3>6, <3>7 DEF DownInv
  <2>3. CASE ~(Head(fifo)[1] = "data" /\ Downloads!Awaited(b))
    <3>1. fifo' = Tail(fifo) /\ UNCHANGED <<sent, tftpfile, nextblk, op, results>>
        BY <1>13, <2>3 DEF Downloads!TftpBlock
    <3> QED  BY <1>1, <1>2, <2>1, <3>1, DownSame
  <2> QED  BY <2>2, <2>3
<1> QED  BY <1>4, <1>5, <1>6, <1>7, <1>8, <1>9, <1>10, <1>11, <1>12, <1>13 DEF Downloads!Next

\* What is downloaded is in order.
LEMMA DownOrder == DownInv => Downloads!DownloadsInOrder
<1> SUFFICES ASSUME DownInv PROVE Downloads!DownloadsInOrder
    OBVIOUS
<1>1. \A q, k : Counts(q, k) => \A i \in DOMAIN q : q[i] = i
    BY DEF Counts
<1>2. Downloads!Prefix(httppage) /\ Downloads!Prefix(tftpfile)
    BY <1>1 DEF DownInv, Downloads!Prefix
<1> QED  BY <1>2 DEF DownInv, FileWhole, Downloads!DownloadsInOrder

-----------------------------------------------------------------------------
(* The browser (Browser): what is shown and served is a whole body.         *)

Url == Page \cup {"dict"} \cup ({Css[p] : p \in Page} \ {"none"})

\* The first k segments of the body of u, from its host.
PartOf(q, u, k) == q \in Seq({<<Host[u], u, i>> : i \in 1 .. k}) /\ Len(q) = k /\ \A i \in 1 .. k : q[i] = <<Host[u], u, i>>

\* A fetch that waits for its turn or has begun.
JobOK(j) ==
    /\ DOMAIN j = DOMAIN Pages!Idle
    /\ j.pc \in {"idle", "dns", "syn", "get"}
    /\ j.pc # "idle" => j.url \in Url /\ j.step \in {"dict", "page", "css", "proxy", "raw"}
    /\ j.step = "page" => j.page = j.url
    /\ j.step \in {"dict", "page"} => j.page \in Page

\* A document is whole, or made without the network.
WholeDoc(x) == x.url \notin {"none", "xinu://mesh"} => x.body = Pages!Body(x.url)

ViewOK(v) ==
    /\ DOMAIN v = {"doc", "html", "cur", "css", "cssurl", "lang", "dict", "have"}
    /\ WholeDoc(v.doc) /\ WholeDoc(v.html) /\ v.cur \in Page \cup {"xinu://mesh"}

\* The proxy's reply is the chunk of its url at its offset.
ReplyOK(y) ==
    y # << >> => y[3] = IF y[2] < Segs[y[1]] THEN Pages!Body(y[1])[y[2] + 1] ELSE "end"

PxOK(x) ==
    /\ DOMAIN x = {"url", "body", "ok", "err", "want", "reply"}
    /\ x.ok => x.url \in Url /\ x.body = Pages!Body(x.url)
    /\ x.want \in Page \cup {"none"} /\ ReplyOK(x.reply)

\* What the connection of a running fetch has received.
ConnOK ==
    /\ fetch.pc = "syn" => fetch.ip = Host[fetch.url]
    /\ fetch.pc = "get" => /\ DOMAIN conn = DOMAIN Pages!Closed /\ conn.url = fetch.url /\ conn.from = Host[fetch.url]
                           /\ \E k \in 0 .. Segs[fetch.url] : PartOf(page, fetch.url, k)

PagesInv == JobOK(fetch) /\ ConnOK /\ ViewOK(view) /\ PxOK(px) /\ dns.flight = {}

\* What is assumed of the web.
LEMMA WebIs == /\ "home" \in Page /\ "none" \notin Page /\ "xinu://mesh" \notin Page
               /\ Page \subseteq Url /\ "dict" \in Url /\ "none" \notin Page
               /\ \A u \in Url : Segs[u] \in Nat \ {0}
               /\ \A p \in Page : Css[p] = "none" \/ Css[p] \in Url
BY DevicesAssumption DEF Url

\* The browser at boot.
LEMMA PagesInit == Pages!BInit => PagesInv
<1> SUFFICES ASSUME Pages!BInit PROVE PagesInv
    OBVIOUS
<1>1. JobOK(fetch) /\ fetch.pc = "idle"
    BY DEF Pages!BInit, JobOK, Pages!Idle
<1>2. ViewOK(view)
    BY WebIs DEF Pages!BInit, ViewOK, Pages!NoDoc, WholeDoc
<1>3. PxOK(px)
    BY DEF Pages!BInit, PxOK, ReplyOK
<1>4. dns.flight = {}
    BY DEF Pages!BInit
<1> QED  BY <1>1, <1>2, <1>3, <1>4 DEF PagesInv, ConnOK

\* A new fetch of u for a page or something else.
LEMMA FetchIs ==
    ASSUME NEW j, DOMAIN j = DOMAIN Pages!Idle, NEW step, NEW u \in Url,
           step \in {"dict", "css", "proxy", "raw"} \/ (step = "page" /\ j.page = u),
           step \in {"dict", "page"} => j.page \in Page
    PROVE  LET f == Pages!Fetch(j, step, u) IN JobOK(f) /\ f.pc = "dns" /\ f.url = u
<1>1. PICK f : f = Pages!Fetch(j, step, u)
    OBVIOUS
<1>2. DOMAIN f = DOMAIN j
    BY <1>1 DEF Pages!Fetch
<1>3. {"step", "url", "try", "pc", "page"} \subseteq DOMAIN j
    BY DEF Pages!Idle
<1>4. f.step = step /\ f.url = u /\ f.pc = "dns" /\ f.page = j.page
    BY <1>1, <1>3 DEF Pages!Fetch
<1>5. JobOK(f)
    BY <1>2, <1>4 DEF JobOK
<1> QED  BY <1>1, <1>4, <1>5

\* browser_fetch_en begins with the dictionary or the page.
LEMMA FetchEnIs ==
    ASSUME NEW for, NEW p \in Page, NEW again
    PROVE  LET f == Pages!browser_fetch_en(for, p, again) IN JobOK(f) /\ f.pc = "dns"
<1> DEFINE j == [Pages!Idle EXCEPT !.for = for, !.page = p, !.again = again]
<1>1. DOMAIN j = DOMAIN Pages!Idle /\ j.page = p
    BY DEF Pages!Idle
<1>2. Pages!browser_fetch_en(for, p, again) \in {Pages!Fetch(j, "dict", "dict"), Pages!Fetch(j, "page", p)}
    BY DEF Pages!browser_fetch_en
<1> HIDE DEF j
<1>3. JobOK(Pages!Fetch(j, "dict", "dict")) /\ Pages!Fetch(j, "dict", "dict").pc = "dns"
    BY <1>1, WebIs, FetchIs
<1>4. JobOK(Pages!Fetch(j, "page", p)) /\ Pages!Fetch(j, "page", p).pc = "dns"
    BY <1>1, WebIs, FetchIs
<1> QED  BY <1>2, <1>3, <1>4

\* No fetch.
LEMMA IdleIs == JobOK(Pages!Idle) /\ Pages!Idle.pc = "idle" /\ DOMAIN Pages!Idle = DOMAIN Pages!Idle
BY DEF JobOK, Pages!Idle

\* Showing the kept page again keeps what is shown whole.
LEMMA PresentIs ==
    ASSUME NEW v, ViewOK(v)
    PROVE  ViewOK(Pages!br_present_lang(v))
<1>1. CASE v.html = Pages!NoDoc
    BY <1>1 DEF Pages!br_present_lang
<1>2. CASE v.html # Pages!NoDoc
  <2>1. PICK y : y = [v EXCEPT !.doc = v.html]
    BY Zenon
  <2>2. DOMAIN y = DOMAIN v /\ y.doc = v.html /\ y.html = v.html /\ y.cur = v.cur
    BY <2>1 DEF ViewOK
  <2>3. Pages!br_present_lang(v) = y
    BY <1>2, <2>1 DEF Pages!br_present_lang
  <2> QED  BY <2>2, <2>3 DEF ViewOK
<1> QED  BY <1>1, <1>2

\* The fields of the view that a page is not made of.
LEMMA ViewSame ==
    ASSUME NEW v, ViewOK(v), NEW y, DOMAIN y = DOMAIN v, y.doc = v.doc, y.html = v.html, y.cur = v.cur
    PROVE  ViewOK(y)
BY DEF ViewOK

\* The end of a fetch, good or bad: a body that is called good is whole.
LEMMA EndedOk ==
    ASSUME NEW r, JobOK(fetch), ViewOK(view), PxOK(px), fetch.pc # "idle", Pages!Ended(r),
           r = "ok" => page = Pages!Body(fetch.url)
    PROVE  JobOK(fetch') /\ fetch'.pc \in {"idle", "dns"} /\ ViewOK(view') /\ PxOK(px')
<1>0. fetch.url \in Url /\ DOMAIN fetch = DOMAIN Pages!Idle /\ fetch.step \in {"dict", "page", "css", "proxy", "raw"}
    BY DEF JobOK
<1>1. CASE r \in {"cut", "nosyn"} /\ fetch.try = 1
  <2>1. fetch' = [fetch EXCEPT !.try = 2, !.pc = "dns"] /\ UNCHANGED <<view, px>>
    BY <1>1 DEF Pages!Ended
  <2>2. {"try", "pc", "url", "step", "page"} \subseteq DOMAIN fetch
    BY <1>0 DEF Pages!Idle
  <2>3. DOMAIN fetch' = DOMAIN fetch /\ fetch'.pc = "dns" /\ fetch'.url = fetch.url /\ fetch'.step = fetch.step /\ fetch'.page = fetch.page
    BY <2>1, <2>2
  <2> QED  BY <2>1, <2>3 DEF JobOK
<1>2. CASE ~(r \in {"cut", "nosyn"} /\ fetch.try = 1) /\ fetch.step = "proxy"
  <2>1. /\ px' = [px EXCEPT !.url = fetch.url, !.want = "none", !.ok = (r = "ok"), !.err = ~(r = "ok"),
                            !.body = IF r = "ok" THEN page ELSE px.body]
        /\ fetch' = Pages!Idle /\ UNCHANGED view
    BY <1>2 DEF Pages!Ended, Pages!br_proxy_poll
  <2>2. /\ DOMAIN px' = DOMAIN px /\ px'.url = fetch.url /\ px'.want = "none" /\ px'.ok = (r = "ok")
        /\ px'.body = (IF r = "ok" THEN page ELSE px.body) /\ px'.reply = px.reply
    BY <2>1 DEF PxOK
  <2>3. PxOK(px')
    BY Zenon, <1>0, <2>2 DEF PxOK
  <2> QED  BY <2>1, <2>3, IdleIs
<1>3. CASE ~(r \in {"cut", "nosyn"} /\ fetch.try = 1) /\ fetch.step = "css"
  <2> DEFINE y == [view EXCEPT !.css = IF r = "ok" THEN fetch.url ELSE "none",
                               !.cssurl = IF r = "ok" THEN fetch.url ELSE view.cssurl,
                               !.have = view.have \/ fetch.for = "home"]
  <2>1. view' = Pages!br_present_lang(y) /\ fetch' = Pages!Idle /\ UNCHANGED px
    BY <1>3 DEF Pages!Ended, Pages!GotCss
  <2>2. DOMAIN y = DOMAIN view /\ y.doc = view.doc /\ y.html = view.html /\ y.cur = view.cur
    BY DEF ViewOK
  <2> HIDE DEF y
  <2>3. ViewOK(view')
    BY <2>1, <2>2, ViewSame, PresentIs
  <2> QED  BY <2>1, <2>3, IdleIs
<1>4. CASE ~(r \in {"cut", "nosyn"} /\ fetch.try = 1) /\ fetch.step \notin {"proxy", "css"} /\ r # "ok"
  <2>1. fetch' = Pages!br_fetch_home_failed /\ UNCHANGED <<view, px>>
    BY <1>4 DEF Pages!Ended
  <2>2. \/ fetch' = Pages!Idle
        \/ fetch' = Pages!browser_fetch_en("home", "home", TRUE)
        \/ fetch' = Pages!Fetch(fetch, "raw", "home")
    BY Zenon, <2>1 DEF Pages!br_fetch_home_failed
  <2>3. JobOK(fetch') /\ fetch'.pc \in {"idle", "dns"}
    <3>1. CASE fetch' = Pages!Idle
        BY <3>1, IdleIs
    <3>2. CASE fetch' = Pages!browser_fetch_en("home", "home", TRUE)
        BY Zenon, <3>2, WebIs, FetchEnIs
    <3>3. CASE fetch' = Pages!Fetch(fetch, "raw", "home")
        BY <1>0, <3>3, WebIs, FetchIs
    <3> QED  BY Zenon, <2>2, <3>1, <3>2, <3>3
  <2> QED  BY <2>1, <2>3
<1>5. CASE r = "ok" /\ fetch.step = "dict"
  <2>1. view' = [view EXCEPT !.dict = TRUE] /\ fetch' = Pages!Fetch(fetch, "page", fetch.page) /\ UNCHANGED px
    BY <1>5 DEF Pages!Ended
  <2>2. DOMAIN view' = DOMAIN view /\ view'.doc = view.doc /\ view'.html = view.html /\ view'.cur = view.cur
    BY <2>1 DEF ViewOK
  <2>3. fetch.page \in Page /\ fetch.page \in Url
    BY <1>5, WebIs DEF JobOK
  <2>4. JobOK(fetch') /\ fetch'.pc \in {"idle", "dns"}
    BY <1>0, <2>1, <2>3, FetchIs
  <2> QED  BY Zenon, <2>1, <2>2, <2>4, ViewSame
<1>6. CASE r = "ok" /\ fetch.step = "page"
  <2> DEFINE v == [view EXCEPT !.html = [url |-> fetch.page, body |-> page], !.cur = fetch.page]
  <2>1. Pages!GotPage /\ UNCHANGED px
    BY <1>6 DEF Pages!Ended
  <2>2. fetch.page = fetch.url /\ fetch.page \in Page
    BY <1>6 DEF JobOK
  <2>3. DOMAIN v = DOMAIN view /\ v.doc = view.doc /\ v.html.url = fetch.page /\ v.html.body = page /\ v.cur = fetch.page
    BY DEF ViewOK
  <2>4. \/ view' = v /\ fetch' = Pages!Fetch(fetch, "css", Css[fetch.page]) /\ Css[fetch.page] # "none"
        \/ /\ fetch' = Pages!Idle
           /\ view' = Pages!br_present_lang([v EXCEPT !.css = "none", !.cssurl = "none", !.have = v.have \/ fetch.for = "home"])
        \/ /\ fetch' = Pages!Idle
           /\ view' = Pages!br_present_lang([v EXCEPT !.have = v.have \/ fetch.for = "home"])
    BY <2>1 DEF Pages!GotPage
  <2> HIDE DEF v
  <2>5. ViewOK(v)
    BY <1>6, <2>2, <2>3 DEF ViewOK, WholeDoc
  <2>6. CASE view' = v /\ fetch' = Pages!Fetch(fetch, "css", Css[fetch.page]) /\ Css[fetch.page] # "none"
    <3>1. Css[fetch.page] \in Url
        BY <2>2, <2>6, WebIs
    <3>2. JobOK(fetch') /\ fetch'.pc \in {"idle", "dns"}
        BY <1>0, <2>6, <3>1, FetchIs
    <3> QED  BY <2>1, <2>5, <2>6, <3>2
  <2>7. ASSUME NEW y, DOMAIN y = DOMAIN v, y.doc = v.doc, y.html = v.html, y.cur = v.cur,
               fetch' = Pages!Idle, view' = Pages!br_present_lang(y)
        PROVE  JobOK(fetch') /\ fetch'.pc \in {"idle", "dns"} /\ ViewOK(view') /\ PxOK(px')
    <3>1. ViewOK(view')
        BY <2>5, <2>7, ViewSame, PresentIs
    <3> QED  BY <2>1, <2>7, <3>1, IdleIs
  <2>8. DOMAIN v = {"doc", "html", "cur", "css", "cssurl", "lang", "dict", "have"}
    BY <2>5 DEF ViewOK
  <2>9. CASE fetch' = Pages!Idle /\ view' = Pages!br_present_lang([v EXCEPT !.css = "none", !.cssurl = "none", !.have = v.have \/ fetch.for = "home"])
    <3>1. PICK y : y = [v EXCEPT !.css = "none", !.cssurl = "none", !.have = v.have \/ fetch.for = "home"]
        OBVIOUS
    <3>2. DOMAIN y = DOMAIN v /\ y.doc = v.doc /\ y.html = v.html /\ y.cur = v.cur
        BY <2>8, <3>1
    <3> QED  BY Zenon, <2>7, <2>9, <3>1, <3>2
  <2>10. CASE fetch' = Pages!Idle /\ view' = Pages!br_present_lang([v EXCEPT !.have = v.have \/ fetch.for = "home"])
    <3>1. PICK y : y = [v EXCEPT !.have = v.have \/ fetch.for = "home"]
        BY Zenon
    <3>2. DOMAIN y = DOMAIN v /\ y.doc = v.doc /\ y.html = v.html /\ y.cur = v.cur
        BY <2>8, <3>1
    <3> QED  BY Zenon, <2>7, <2>10, <3>1, <3>2
  <2> QED  BY <2>4, <2>6, <2>9, <2>10
<1>7. CASE r = "ok" /\ fetch.step = "raw"
  <2>1. view' = [view EXCEPT !.doc = [url |-> fetch.url, body |-> page]] /\ fetch' = Pages!Idle /\ UNCHANGED px
    BY <1>7 DEF Pages!Ended
  <2>2. DOMAIN view' = DOMAIN view /\ view'.doc.url = fetch.url /\ view'.doc.body = page /\ view'.html = view.html /\ view'.cur = view.cur
    BY <2>1 DEF ViewOK
  <2>3. ViewOK(view')
    BY <1>7, <2>2 DEF ViewOK, WholeDoc
  <2> QED  BY <2>1, <2>3, IdleIs
<1>8. r = "ok" => r \notin {"cut", "nosyn"}
    OBVIOUS
<1> QED  BY <1>0, <1>1, <1>2, <1>3, <1>4, <1>5, <1>6, <1>7, <1>8

\* A cut-short body is not called good; the only one that is is whole.
LEMMA GoodBody ==
    ASSUME PagesInv, fetch.pc = "get", page # << >>, ~Pages!CutShort
    PROVE  page = Pages!Body(fetch.url)
<1>1. PICK k \in 0 .. Segs[fetch.url] : PartOf(page, fetch.url, k)
    BY DEF PagesInv, ConnOK
<1>2. PICK m \in Nat : m = Segs[fetch.url]
    BY WebIs DEF PagesInv, JobOK
<1>3. Len(page) = k /\ ~(k < m)
    BY <1>1, <1>2 DEF PartOf, Pages!CutShort
<1>4. k = m
    BY <1>1, <1>2, <1>3
<1>5. page \in Seq({<<Host[fetch.url], fetch.url, i>> : i \in 1 .. k}) /\ \A i \in 1 .. m : page[i] = <<Host[fetch.url], fetch.url, i>>
    BY <1>1, <1>4 DEF PartOf
<1>6. DOMAIN page = 1 .. m /\ page = [i \in 1 .. m |-> page[i]]
    BY <1>3, <1>4, <1>5
<1> QED  BY Zenon, <1>2, <1>5, <1>6 DEF Pages!Body

\* Every step of the browser keeps it.
LEMMA PagesNext == PagesInv /\ Pages!BrNext => PagesInv'
<1> SUFFICES ASSUME PagesInv, Pages!BrNext PROVE PagesInv'
    OBVIOUS
<1>0. JobOK(fetch) /\ ConnOK /\ ViewOK(view) /\ PxOK(px) /\ dns.flight = {}
    BY DEF PagesInv
<1>00. DOMAIN fetch = {"for", "page", "step", "url", "try", "again", "pc", "ip"}
    BY <1>0 DEF JobOK, Pages!Idle
<1>1. CASE Pages!br_dns_query
  <2>1. CASE Pages!Ended("nodns") /\ UNCHANGED dns
    <3>1. fetch.pc # "idle"
        BY Zenon, <1>1 DEF Pages!br_dns_query
    <3>2. JobOK(fetch') /\ fetch'.pc \in {"idle", "dns"} /\ ViewOK(view') /\ PxOK(px')
        BY <1>0, <2>1, <3>1, EndedOk
    <3> QED  BY <1>0, <2>1, <3>2 DEF PagesInv, ConnOK
  <2>2. CASE fetch' = [fetch EXCEPT !.pc = "syn", !.ip = Host[fetch.url]] /\ dns'.flight = {} /\ UNCHANGED <<view, px>>
    <3>1. /\ DOMAIN fetch' = DOMAIN fetch /\ fetch'.pc = "syn" /\ fetch'.ip = Host[fetch.url]
          /\ fetch'.url = fetch.url /\ fetch'.step = fetch.step /\ fetch'.page = fetch.page
        BY <1>00, <2>2
    <3>2. fetch.pc # "idle"
        BY Zenon, <1>1 DEF Pages!br_dns_query
    <3>3. JobOK(fetch')
        BY <1>0, <3>1, <3>2 DEF JobOK
    <3> QED  BY <1>0, <2>2, <3>1, <3>3 DEF PagesInv, ConnOK
  <2>3. \/ Pages!Ended("nodns") /\ UNCHANGED dns
        \/ fetch' = [fetch EXCEPT !.pc = "syn", !.ip = Host[fetch.url]] /\ dns'.flight = {} /\ UNCHANGED <<view, px>>
    <3>1. Pages!DnsAnswers = {Host[fetch.url]}
        BY <1>0 DEF Pages!DnsAnswers
    <3>2. CASE \E x \in Pages!DnsAnswers :
                 /\ fetch' = [fetch EXCEPT !.pc = "syn", !.ip = x]
                 /\ dns' = [flight |-> {}, name |-> Host[fetch.url]]
                 /\ UNCHANGED <<conn, page, view, px, asked>>
      <4>1. PICK x : x \in Pages!DnsAnswers /\ fetch' = [fetch EXCEPT !.pc = "syn", !.ip = x]
        BY Zenon, <3>2
      <4>2. x = Host[fetch.url]
        BY <3>1, <4>1
      <4>3. fetch' = [fetch EXCEPT !.pc = "syn", !.ip = Host[fetch.url]]
        BY <4>1, <4>2
      <4>4. dns'.flight = {} /\ UNCHANGED <<view, px>>
        BY <3>2
      <4> QED  BY <4>3, <4>4
    <3>3. CASE /\ dns.name = Host[fetch.url] /\ fetch' = [fetch EXCEPT !.pc = "syn", !.ip = dns.name]
               /\ UNCHANGED <<conn, page, dns, view, px, asked>>
        BY <1>0, <3>3
    <3>4. CASE Pages!Ended("nodns") /\ UNCHANGED <<page, dns>>
        BY <3>4
    <3> QED  BY Zenon, <1>1, <3>2, <3>3, <3>4 DEF Pages!br_dns_query
  <2> QED  BY <2>1, <2>2, <2>3
<1>2. CASE Pages!br_http_get
  <2>0. fetch.pc = "syn" /\ UNCHANGED dns
    BY <1>2 DEF Pages!br_http_get
  <2>1. ASSUME NEW r \in {"noroute", "rst", "nosyn"}, Pages!Ended(r) PROVE PagesInv'
    <3>2. JobOK(fetch') /\ fetch'.pc \in {"idle", "dns"} /\ ViewOK(view') /\ PxOK(px')
        BY <1>0, <2>0, <2>1, EndedOk
    <3> QED  BY <1>0, <2>0, <3>2 DEF PagesInv, ConnOK
  <2>2. CASE /\ conn' = [Pages!Closed EXCEPT !.state = 2, !.from = fetch.ip, !.url = fetch.url]
             /\ page' = << >> /\ fetch' = [fetch EXCEPT !.pc = "get"] /\ UNCHANGED <<view, px>>
    <3>1. /\ DOMAIN fetch' = DOMAIN fetch /\ fetch'.pc = "get"
          /\ fetch'.url = fetch.url /\ fetch'.step = fetch.step /\ fetch'.page = fetch.page
        BY <1>00, <2>2
    <3>2. JobOK(fetch') /\ fetch.url \in Url
        BY <1>0, <2>0, <3>1 DEF JobOK
    <3>3. DOMAIN conn' = DOMAIN Pages!Closed /\ conn'.url = fetch.url /\ conn'.from = Host[fetch.url]
        BY <1>0, <2>0, <2>2 DEF Pages!Closed, ConnOK
    <3>4. PartOf(page', fetch.url, 0) /\ 0 \in 0 .. Segs[fetch.url]
        BY <2>2, <3>2, WebIs DEF PartOf
    <3>5. ConnOK'
        BY <3>1, <3>3, <3>4 DEF ConnOK
    <3> QED  BY <1>0, <2>0, <2>2, <3>2, <3>5 DEF PagesInv
  <2>3. \/ \E r \in {"noroute", "rst", "nosyn"} : Pages!Ended(r)
        \/ /\ conn' = [Pages!Closed EXCEPT !.state = 2, !.from = fetch.ip, !.url = fetch.url]
           /\ page' = << >> /\ fetch' = [fetch EXCEPT !.pc = "get"] /\ UNCHANGED <<view, px>>
    BY <1>2 DEF Pages!br_http_get
  <2> QED  BY <2>1, <2>2, <2>3
<1>3. CASE Pages!browser_handle
  <2>1. fetch.pc = "get" /\ UNCHANGED <<fetch, dns, view, px>>
    BY <1>3 DEF Pages!browser_handle
  <2>2. DOMAIN conn = DOMAIN Pages!Closed /\ conn.url = fetch.url /\ conn.from = Host[fetch.url] /\ fetch.url \in Url
    BY <1>0, <2>1 DEF ConnOK, JobOK
  <2>3. PICK k \in 0 .. Segs[fetch.url] : PartOf(page, fetch.url, k)
    BY <1>0, <2>1 DEF ConnOK
  <2>4. PICK m \in Nat : m = Segs[fetch.url]
    BY <2>2, WebIs
  <2>5. DOMAIN conn' = DOMAIN Pages!Closed /\ conn'.url = conn.url /\ conn'.from = conn.from
    BY Zenon, <1>3, <2>2 DEF Pages!browser_handle, Pages!Closed
  <2>6. \E h \in 0 .. m : PartOf(page', fetch.url, h)
    <3>1. CASE page' = page
        BY <2>3, <2>4, <3>1
    <3>2. CASE page' # page
      <4>1. PICK i \in 1 .. m : i = Len(page) + 1 /\ page' = Append(page, <<Host[fetch.url], fetch.url, i>>)
        BY <1>3, <2>2, <2>4, <3>2 DEF Pages!browser_handle, Pages!InSequence
      <4>2. PICK u, x : u = fetch.url /\ x = Host[u]
        OBVIOUS
      <4> DEFINE T(j) == {<<x, u, q>> : q \in 1 .. j}
      <4>3. page \in Seq(T(k)) /\ Len(page) = k /\ \A q \in 1 .. k : page[q] = <<x, u, q>>
        BY <2>3, <4>2 DEF PartOf
      <4>4. k \in Nat /\ i = k + 1
        BY <2>4, <4>1, <4>3
      <4>5. T(k) \subseteq T(k + 1) /\ <<x, u, k + 1>> \in T(k + 1)
        BY <4>4
      <4>6. page \in Seq(T(k + 1))
        BY <4>3, <4>5
      <4> HIDE DEF T
      <4>7. page' = Append(page, <<x, u, k + 1>>)
        BY <4>1, <4>2, <4>4
      <4>8. /\ page' \in Seq(T(k + 1)) /\ Len(page') = k + 1 /\ page'[k + 1] = <<x, u, k + 1>>
            /\ \A q \in 1 .. k : page'[q] = page[q]
        BY <4>3, <4>5, <4>6, <4>7, AppendProperties
      <4>9. \A q \in 1 .. k + 1 : page'[q] = <<x, u, q>>
        BY <4>3, <4>4, <4>8
      <4>10. PartOf(page', u, k + 1)
        BY <4>2, <4>8, <4>9 DEF PartOf, T
      <4> QED  BY <4>1, <4>2, <4>4, <4>10
    <3> QED  BY <3>1, <3>2
  <2>7. ConnOK'
    BY <2>1, <2>2, <2>4, <2>5, <2>6 DEF ConnOK
  <2> QED  BY <1>0, <2>1, <2>7 DEF PagesInv
<1>4. CASE Pages!browser_fetch1
  <2>1. PICK r : r = IF page = << >> THEN "empty" ELSE IF Pages!CutShort THEN "cut" ELSE "ok"
    OBVIOUS
  <2>2. Pages!Ended(r) /\ fetch.pc = "get" /\ UNCHANGED dns
    BY <1>4, <2>1 DEF Pages!browser_fetch1
  <2>3. r = "ok" => page = Pages!Body(fetch.url)
    <3>1. r = "ok" => page # << >> /\ ~Pages!CutShort
        BY <2>1
    <3> QED  BY <2>2, <3>1, GoodBody
  <2>4. JobOK(fetch') /\ fetch'.pc \in {"idle", "dns"} /\ ViewOK(view') /\ PxOK(px')
    BY <1>0, <2>2, <2>3, EndedOk
  <2> QED  BY <1>0, <2>2, <2>4 DEF PagesInv, ConnOK
<1>5. CASE Pages!browser_click
  <2>1. UNCHANGED <<fetch, conn, page, dns, view, px>>
    BY <1>5 DEF Pages!browser_click
  <2> QED  BY <1>0, <2>1 DEF PagesInv, ConnOK
<1>6. CASE Pages!browser_fetch
  <2> DEFINE j == [Pages!Idle EXCEPT !.for = "shell"]
  <2>1. PICK u \in Page : fetch' = Pages!Fetch(j, "raw", u)
    BY <1>6 DEF Pages!browser_fetch
  <2>2. DOMAIN j = DOMAIN Pages!Idle
    BY DEF Pages!Idle
  <2> HIDE DEF j
  <2>3. JobOK(fetch') /\ fetch'.pc = "dns"
    BY <2>1, <2>2, WebIs, FetchIs
  <2>4. UNCHANGED <<dns, view, px>>
    BY <1>6 DEF Pages!browser_fetch
  <2> QED  BY <1>0, <2>3, <2>4 DEF PagesInv, ConnOK
<1>7. CASE Pages!browser_proxy_request
  <2>1. UNCHANGED <<fetch, conn, page, dns, view>>
    BY <1>7 DEF Pages!browser_proxy_request
  <2>2. DOMAIN px = {"url", "body", "ok", "err", "want", "reply"}
    BY <1>0 DEF PxOK
  <2>3. PICK u \in Page :
          \/ /\ px.ok /\ u = px.url
             /\ \E off \in 0..Len(px.body) :
                  px' = [px EXCEPT !.reply = <<u, off, IF off < Len(px.body) THEN px.body[off + 1] ELSE "end">>]
          \/ px' = [px EXCEPT !.reply = << >>]
          \/ px' = [px EXCEPT !.reply = << >>, !.want = IF px.want = "none" THEN u ELSE px.want,
                              !.err = IF px.want = "none" THEN FALSE ELSE px.err]
    BY Zenon, <1>7 DEF Pages!browser_proxy_request
  <2>4. /\ DOMAIN px' = DOMAIN px /\ px'.url = px.url /\ px'.ok = px.ok /\ px'.body = px.body
        /\ px'.want \in {px.want, u}
    BY Zenon, <2>2, <2>3
  <2>5. ReplyOK(px'.reply)
    <3>1. CASE px'.reply = << >>
        BY <3>1 DEF ReplyOK
    <3>2. CASE px'.reply # << >>
      <4>1. PICK off \in 0..Len(px.body) :
               px' = [px EXCEPT !.reply = <<u, off, IF off < Len(px.body) THEN px.body[off + 1] ELSE "end">>]
               /\ px.ok /\ u = px.url
        BY Zenon, <2>2, <2>3, <3>2
      <4>2. px'.reply = <<u, off, IF off < Len(px.body) THEN px.body[off + 1] ELSE "end">>
        BY <2>2, <4>1
      <4>3. px.body = Pages!Body(u)
        BY <1>0, <4>1 DEF PxOK
      <4>4. PICK m \in Nat : m = Segs[u]
        BY WebIs
      <4>5. Len(px.body) = m
        <5>1. px.body = [i \in 1 .. m |-> <<Host[u], u, i>>]
            BY <4>3, <4>4 DEF Pages!Body
        <5>2. px.body \in Seq({<<Host[u], u, i>> : i \in 1 .. m})
            BY <4>4, <5>1
        <5> QED  BY <4>4, <5>1, <5>2
      <4>6. PICK y : y = px'.reply
        OBVIOUS
      <4>7. y[1] = u /\ y[2] = off /\ y[3] = IF off < m THEN Pages!Body(u)[off + 1] ELSE "end"
        BY <4>2, <4>3, <4>5, <4>6
      <4> QED  BY <4>4, <4>6, <4>7 DEF ReplyOK
    <3> QED  BY <3>1, <3>2
  <2>6. PxOK(px')
    BY <1>0, <2>4, <2>5 DEF PxOK
  <2> QED  BY <1>0, <2>1, <2>6 DEF PagesInv, ConnOK
<1>8. CASE Pages!browser_poll_pending
  <2>1. fetch.pc = "idle" /\ UNCHANGED <<conn, page, dns, px>>
    BY <1>8 DEF Pages!browser_poll_pending
  <2>2. CASE ~asked.first
    <3>1. fetch' = Pages!browser_fetch_en("home", "home", FALSE) /\ UNCHANGED view
        BY <1>8, <2>2 DEF Pages!browser_poll_pending
    <3>2. JobOK(fetch') /\ fetch'.pc = "dns"
        BY Zenon, <3>1, WebIs, FetchEnIs
    <3> QED  BY Zenon, <1>0, <2>1, <3>1, <3>2 DEF PagesInv, ConnOK
  <2>3. CASE asked.first /\ px.want # "none"
    <3> DEFINE j == [Pages!Idle EXCEPT !.for = "proxy"]
    <3>1. fetch' = Pages!Fetch(j, "proxy", px.want) /\ UNCHANGED view
        BY <1>8, <2>3 DEF Pages!browser_poll_pending
    <3>2. DOMAIN j = DOMAIN Pages!Idle
        BY DEF Pages!Idle
    <3>3. px.want \in Url
        BY <1>0, <2>3, WebIs DEF PxOK
    <3> HIDE DEF j
    <3>4. JobOK(fetch') /\ fetch'.pc = "dns"
        BY <3>1, <3>2, <3>3, FetchIs
    <3> QED  BY <1>0, <2>1, <3>1, <3>4 DEF PagesInv, ConnOK
  <2>4. CASE asked.first /\ px.want = "none"
    <3> DEFINE v == IF asked.lang = "none" THEN view ELSE Pages!br_present_lang([view EXCEPT !.lang = asked.lang])
               mesh == [v EXCEPT !.html = Pages!br_builtin_mesh, !.doc = Pages!br_builtin_mesh,
                                 !.cur = "xinu://mesh", !.css = "none", !.cssurl = "none"]
               home == IF view.have THEN view.cur ELSE "home"
    <3>1. ViewOK(v)
      <4>1. PICK y : y = [view EXCEPT !.lang = asked.lang]
        BY Zenon
      <4>2. DOMAIN y = DOMAIN view /\ y.doc = view.doc /\ y.html = view.html /\ y.cur = view.cur
        BY <1>0, <4>1 DEF ViewOK
      <4>3. ViewOK(Pages!br_present_lang(y))
        BY <1>0, <4>2, ViewSame, PresentIs
      <4> QED  BY <1>0, <4>1, <4>3
    <3>2. home \in Page \cup {"xinu://mesh"}
        BY <1>0, WebIs DEF ViewOK
    <3>3. \/ fetch' = fetch /\ view' \in {v, mesh}
          \/ view' = v /\ \E u \in Page : fetch' = Pages!browser_fetch_en("click", u, FALSE)
          \/ view' = v /\ home \in Page /\ fetch' = Pages!browser_fetch_en("home", home, FALSE)
        BY Zenon, <1>8, <2>4, <3>2 DEF Pages!browser_poll_pending
    <3> HIDE DEF v, home
    <3>4. ViewOK(mesh)
      <4>1. PICK y : y = mesh
        OBVIOUS
      <4>2. DOMAIN y = DOMAIN v /\ y.html = Pages!br_builtin_mesh /\ y.doc = Pages!br_builtin_mesh /\ y.cur = "xinu://mesh"
        BY <3>1, <4>1 DEF ViewOK
      <4>3. WholeDoc(Pages!br_builtin_mesh)
        BY DEF WholeDoc, Pages!br_builtin_mesh
      <4> QED  BY <3>1, <4>1, <4>2, <4>3 DEF ViewOK
    <3> HIDE DEF mesh
    <3>5. ViewOK(view')
        BY Zenon, <3>1, <3>3, <3>4
    <3>6. JobOK(fetch') /\ fetch'.pc \in {"idle", "dns"}
        BY Zenon, <1>0, <2>1, <3>3, FetchEnIs
    <3> QED  BY <1>0, <2>1, <3>5, <3>6 DEF PagesInv, ConnOK
  <2> QED  BY <2>2, <2>3, <2>4
<1> QED  BY <1>1, <1>2, <1>3, <1>4, <1>5, <1>6, <1>7, <1>8 DEF Pages!BrNext

\* What the invariant says of the screen and of the proxy.
LEMMA PagesWhole == PagesInv => Pages!ShowsWholePages /\ Pages!ProxyServesItsUrl
<1> SUFFICES ASSUME PagesInv PROVE Pages!ShowsWholePages /\ Pages!ProxyServesItsUrl
    OBVIOUS
<1>1. Pages!ShowsWholePages
    BY DEF PagesInv, ViewOK, WholeDoc, Pages!ShowsWholePages
<1>2. Pages!ProxyServesItsUrl
    BY DEF PagesInv, PxOK, ReplyOK, Pages!ProxyServesItsUrl
<1> QED  BY <1>1, <1>2

-----------------------------------------------------------------------------
(* The scenes                                                              *)

\* A scene's part is changed by that scene's steps only.
LEMMA SceneStep ==
    ASSUME [Next]_allvars
    PROVE  /\ scene' = scene
           /\ scene = "firmware" => Firmware!Next \/ UNCHANGED fwvars
           /\ scene = "radio" => Radio!Next \/ UNCHANGED linkvars
           /\ scene = "loops" => Loops!PNext \/ UNCHANGED parvars
           /\ scene = "downloads" => Downloads!Next \/ UNCHANGED clientvars
           /\ scene = "lease" => Lease!Next \/ UNCHANGED dhcpvars
           /\ scene = "pages" => Pages!BrNext \/ UNCHANGED browservars
BY DEF Next, allvars, Rest

ChipInv == (scene = "firmware" => FwInv) /\ (scene = "radio" => RadioInv)

\* wifi.c, wifi_fwload_write and the public entries: for every size of the images,
\* of the chip's RAM, of transfers, windows and blocks that cut into whole blocks,
\* a download that reports success has written everything, and no entry uses a
\* chip it has not ensured to be up.
THEOREM ChipIsReady == Spec => []ChipReady
<1>1. Init => ChipInv
    BY FwInit, RadioInit DEF Init, ChipInv
<1>2. ChipInv /\ [Next]_allvars => ChipInv'
  <2> SUFFICES ASSUME ChipInv, [Next]_allvars  PROVE ChipInv'
      OBVIOUS
  <2>1. scene' = scene
      BY SceneStep
  <2>2. ASSUME scene = "firmware"  PROVE FwInv'
    <3>1. FwInv
        BY <2>2 DEF ChipInv
    <3>2. CASE Firmware!Next
        BY <3>1, <3>2, FwNext
    <3>3. CASE UNCHANGED fwvars
        BY Zenon, <3>1, <3>3 DEF fwvars, FwInv, Writing, InRam
    <3> QED  BY <2>2, <3>2, <3>3, SceneStep
  <2>3. ASSUME scene = "radio"  PROVE RadioInv'
    <3>1. RadioInv
        BY <2>3 DEF ChipInv
    <3>2. CASE Radio!Next
        BY <3>1, <3>2, RadioNext
    <3>3. CASE UNCHANGED linkvars
        BY <3>1, <3>3 DEF linkvars, RadioInv
    <3> QED  BY <2>3, <3>2, <3>3, SceneStep
  <2> QED  BY <2>1, <2>2, <2>3 DEF ChipInv
<1>3. ChipInv => ChipReady
    BY FwWhole DEF ChipInv, ChipReady, RadioInv, Radio!EnsuresChipUp
<1> QED  BY <1>1, <1>2, <1>3, PTL DEF Spec

LoopsInv == scene = "loops" => LoopInv

\* smpsched.c, smpsched_parallel and smpsched_nqueens: for every range, number of
\* units, size of proctab and number of stack generations, a call none of whose
\* waits was broken off returns each index of its own range once, and units that
\* live on one stack are SP_GEN calls apart.
THEOREM ParallelIsExact == Spec => []ParallelExact
<1>1. Init => LoopsInv
    BY LoopInit DEF Init, LoopsInv
<1>2. LoopsInv /\ [Next]_allvars => LoopsInv'
  <2> SUFFICES ASSUME LoopsInv, [Next]_allvars, scene = "loops"  PROVE LoopInv'
      BY SceneStep DEF LoopsInv
  <2>1. LoopInv
      BY DEF LoopsInv
  <2>2. CASE Loops!PNext
      BY <2>1, <2>2, LoopNext
  <2>3. CASE UNCHANGED parvars
      BY <2>1, <2>3 DEF parvars, LoopInv, LoopTypes, Generations, Numbered, Spawning, Exact,
                        Live, Mine, Uncounted, Idling
  <2> QED  BY <2>2, <2>3, SceneStep
<1>3. LoopsInv => ParallelExact
    BY LoopWhole DEF LoopsInv, ParallelExact
<1> QED  BY <1>1, <1>2, <1>3, PTL DEF Spec

ClientsInv ==
    /\ scene = "downloads" => DownInv
    /\ scene = "lease" => LeaseInv
    /\ scene = "pages" => PagesInv

\* wifi.c, dhcp.c and browser.c: whatever is lost, repeated or late, for files and
\* pages of every length, every set of servers and every web of pages whose servers
\* send Content-Length, a download is in order and a complete one whole, an address
\* in use was granted, and a page that is shown or served is the whole page.
THEOREM ClientsAreExact == Spec => []ClientsExact
<1>1. Init => ClientsInv
    BY DownInit, LeaseInit, PagesInit DEF Init, ClientsInv
<1>2. ClientsInv /\ [Next]_allvars => ClientsInv'
  <2> SUFFICES ASSUME ClientsInv, [Next]_allvars  PROVE ClientsInv'
      OBVIOUS
  <2>1. scene' = scene
      BY SceneStep
  <2>2. ASSUME scene = "downloads"  PROVE DownInv'
    <3>1. DownInv
        BY <2>2 DEF ClientsInv
    <3>2. CASE Downloads!Next
        BY <3>1, <3>2, DownNext
    <3>3. CASE UNCHANGED clientvars
        BY <3>1, <3>3 DEF clientvars, DownInv, FileWhole
    <3> QED  BY <2>2, <3>2, <3>3, SceneStep
  <2>3. ASSUME scene = "lease"  PROVE LeaseInv'
    <3>1. LeaseInv
        BY <2>3 DEF ClientsInv
    <3>2. CASE Lease!Next
        BY <3>1, <3>2, LeaseNext
    <3>3. CASE UNCHANGED dhcpvars
        BY <3>1, <3>3 DEF dhcpvars, LeaseInv, Lease!LeaseGranted
    <3> QED  BY <2>3, <3>2, <3>3, SceneStep
  <2>4. ASSUME scene = "pages"  PROVE PagesInv'
    <3>1. PagesInv
        BY <2>4 DEF ClientsInv
    <3>2. CASE Pages!BrNext
        BY <3>1, <3>2, PagesNext
    <3>3. CASE UNCHANGED browservars
        BY <3>1, <3>3 DEF browservars, PagesInv, ConnOK
    <3> QED  BY <2>4, <3>2, <3>3, SceneStep
  <2> QED  BY <2>1, <2>2, <2>3, <2>4 DEF ClientsInv
<1>3. ClientsInv => ClientsExact
    BY DownOrder, PagesWhole DEF ClientsInv, ClientsExact, LeaseInv
<1> QED  BY <1>1, <1>2, <1>3, PTL DEF Spec
=============================================================================
