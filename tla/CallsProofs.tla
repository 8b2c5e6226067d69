----------------------------- MODULE CallsProofs -----------------------------
(***************************************************************************)
(* The worker pool for any number of cores, any ranges and any number of   *)
(* calls, whichever workers come up late or hang, with kernel_chainload    *)
(* coming at any time: PoolInv says, for every place the caller can be,    *)
(* what is in each mailbox, how far its worker has got with it, how often  *)
(* each chunk was run and which chunks are in the total.                   *)
(* Remote calls for any boards and any number of requests and repetitions: *)
(* LeafInv says which board asked each request under which id, and that    *)
(* every datagram, cache entry, frame and result agrees with it.           *)
(***************************************************************************)
EXTENDS MCCalls, FiniteSetTheorems, SequenceTheorems, WellFoundedInduction, TLAPS

-----------------------------------------------------------------------------
(* The worker pool                                                         *)

\* The call of the one caller, and where it is.
cur == call["p"]
pc == cpc["p"]

PostPcs == {"post", "post_lo", "post_hi", "arm"}
Places == PostPcs \cup {"idle", "collect", "read", "ret", "confirm", "gone"}
Working == {"fn", "lo", "hi", "run", "res", "done"}
WorkerPlaces == Working \cup {"held", "init", "wait", "hung", "parked"}

\* The call has been through worker w's mailbox, and waits for its answer.
Posted(w) == w < cur.nc /\ (pc \in PostPcs => w < cur.c) /\ pc # "idle"
Open(w) ==
    /\ Posted(w)
    /\ pc \in {"collect", "confirm"} => cur.c <= w
    /\ pc = "read" => cur.c < w
    /\ pc \notin {"ret", "gone"}

CallRec ==
    [fn : {-1} \cup (0..MaxCalls), n : 0..Pool!MaxSize, nc : 1..NCORES, c : 1..NCORES,
     total : Seq(Pool!Chunk)]

PoolTypes ==
    /\ online \in [Pool!Worker -> BOOLEAN]
    /\ fn \in [Pool!Worker -> {-1} \cup (0..MaxCalls)]
    /\ lo \in [Pool!Worker -> 0..Pool!MaxSize] /\ hi \in [Pool!Worker -> 0..Pool!MaxSize]
    /\ res \in [Pool!Worker -> Pool!Chunk] /\ arg \in [Pool!Worker -> Pool!Chunk]
    /\ seq \in [Pool!Worker -> Nat] /\ done \in [Pool!Worker -> Nat]
    /\ last \in [Pool!Worker -> Nat] /\ wpc \in [Pool!Worker -> WorkerPlaces]
    /\ calls \in 0..(MaxCalls + 1)
    /\ cpc \in [{"p"} -> Places] /\ call \in [{"p"} -> CallRec]
    /\ ran \in [1..(MaxCalls + 1) -> [0..(NCORES - 1) -> Nat]]
    /\ polling = [w \in Pool!Worker |-> FALSE] /\ plast = [w \in Pool!Worker |-> 0]
    /\ smpsched_on = FALSE

\* Where the call is, against what it is for.
Stage ==
    /\ cur.c <= cur.nc
    /\ pc \in {"post_lo", "post_hi", "arm", "read"} => cur.c < cur.nc
    /\ pc \in {"ret", "gone"} => cur.c = cur.nc
    /\ pc # "idle" => calls >= 1
    /\ pc \in {"confirm", "gone"} => cur.fn = -1 /\ cur.nc = NCORES
    /\ pc \in {"collect", "read", "ret"} => cur.fn # -1
    /\ pc # "idle" /\ cur.fn # -1 => cur.fn = calls
    /\ pc # "idle" /\ cur.fn = -1 => cur.nc = NCORES

\* The mailbox of worker w, what the worker has taken from it, and its answer.
Box(w) ==
    /\ done[w] <= seq[w] /\ seq[w] <= calls /\ last[w] <= seq[w]
    /\ pc \in PostPcs /\ cur.c <= w => seq[w] < calls
    /\ seq[w] = 0 => res[w] = Pool!Nothing /\ wpc[w] \in {"held", "init", "wait"}
    /\ wpc[w] = "held" => ~online[w] /\ seq[w] = 0
    /\ ~online[w] /\ pc # "gone" /\ (pc = "confirm" => cur.c <= w) => wpc[w] = "held"
    /\ pc \in {"post_lo", "post_hi", "arm"} /\ w = cur.c => online[w] /\ fn[w] = cur.fn
    /\ pc \in {"post_hi", "arm"} /\ w = cur.c => lo[w] = Pool!Lo(cur, w)
    /\ pc = "arm" /\ w = cur.c => hi[w] = Pool!Hi(cur, w)
    /\ Posted(w) /\ seq[w] > 0 =>
          fn[w] = cur.fn /\ lo[w] = Pool!Lo(cur, w) /\ hi[w] = Pool!Hi(cur, w)
    /\ wpc[w] = "wait" /\ last[w] # seq[w] => Open(w) /\ done[w] # seq[w]
    /\ wpc[w] \in Working => last[w] = seq[w] /\ done[w] # seq[w] /\ Open(w)
    /\ wpc[w] \in Working \ {"fn"} => arg[w].fn = fn[w]
    /\ wpc[w] \in Working \ {"fn", "lo"} => arg[w].lo = lo[w]
    /\ wpc[w] \in {"run", "res", "done"} => arg[w].hi = hi[w]
    /\ wpc[w] \in {"res", "done"} => arg[w].fn > 0
    /\ wpc[w] = "done" => res[w] = arg[w]
    /\ Open(w) /\ seq[w] > 0 /\ done[w] = seq[w] => res[w] = Pool!ChunkOf(cur, w)
    /\ pc = "read" /\ w = cur.c /\ seq[w] > 0 => res[w] = Pool!ChunkOf(cur, w)

\* How often the chunks of the present call have been run.
Runs ==
    /\ \A k \in 1..(MaxCalls + 1) : \A c \in 0..(NCORES - 1) :
          ran[k][c] <= 1 /\ (k > calls => ran[k][c] = 0)
    /\ pc \in PostPcs /\ cur.fn # -1 =>
          /\ ran[calls][0] = 0
          /\ \A w \in Pool!Worker : cur.c <= w => ran[calls][w] = 0
    /\ cur.fn # -1 => \A w \in Pool!Worker :
          Open(w) /\ done[w] # seq[w] /\ wpc[w] \notin {"res", "done"} => ran[calls][w] = 0

\* The chunks that are in the total: each once, and nothing else that counts.
Added(w) ==
    /\ w < cur.nc
    /\ \/ w = 0 /\ pc \in {"collect", "read", "ret"}
       \/ w > 0 /\ Posted(w) /\ seq[w] = 0
       \/ w > 0 /\ pc \in {"collect", "read", "ret"} /\ w < cur.c
Counts(r) == r.lo < r.hi
Summed ==
    pc # "idle" /\ cur.fn # -1 =>
    /\ \A i \in 1..Len(cur.total) : Counts(cur.total[i]) =>
          \E w \in 0..(NCORES - 1) : Added(w) /\ cur.total[i] = Pool!ChunkOf(cur, w)
    /\ \A w \in 0..(NCORES - 1) : Added(w) =>
          \E i \in 1..Len(cur.total) : cur.total[i] = Pool!ChunkOf(cur, w)
    /\ \A i1, i2 \in 1..Len(cur.total) :
          i1 # i2 /\ Counts(cur.total[i1]) => cur.total[i1] # cur.total[i2]

PoolInv == PoolTypes /\ Stage /\ (\A w \in Pool!Worker : Box(w)) /\ Runs /\ Summed
-----------------------------------------------------------------------------
\* The constants, and the arithmetic of chunks.
LEMMA PoolConstants ==
    /\ NCORES \in Nat /\ NCORES > 1 /\ MaxCalls \in Nat /\ Pool!MaxSize \in Nat
    /\ Pool!Worker = 1..(NCORES - 1)
    /\ \A n \in Sizes : n \in Int /\ n <= Pool!MaxSize
    /\ Pool!Park = -1 /\ Pool!Nothing \in Pool!Chunk /\ ~Counts(Pool!Nothing)
<1>1. /\ NCORES \in Nat /\ NCORES > 1 /\ MaxCalls \in Nat /\ Sizes \subseteq Int
      /\ \E n \in Sizes \cup {0} : \A m \in Sizes \cup {0} : m <= n
    BY CallsAssumption DEF Pool!ConstantsOK
<1>2. Pool!MaxSize \in Sizes \cup {0} /\ \A m \in Sizes \cup {0} : m <= Pool!MaxSize
    BY Zenon, <1>1 DEF Pool!MaxSize
<1>3. Pool!MaxSize \in Nat
    BY <1>1, <1>2
<1>4. Pool!Nothing \in Pool!Chunk /\ ~Counts(Pool!Nothing)
    BY <1>1, <1>3 DEF Pool!Nothing, Pool!Chunk, Counts
<1> QED  BY <1>1, <1>2, <1>3, <1>4 DEF Pool!Worker, Pool!Park

LEMMA DivMod ==
    ASSUME NEW a \in Nat, NEW w \in Nat \ {0}
    PROVE  /\ a \div w \in Nat /\ a \div w <= a
           /\ (a \div w) * w <= a
<1>1. a \div w \in Int
    OBVIOUS
<1>2. a % w \in Int /\ 0 <= a % w /\ a % w < w
    OBVIOUS
<1>3. a = w * (a \div w) + (a % w)
    OBVIOUS
<1>4. a \div w >= 0 /\ a \div w <= a
    BY <1>1, <1>2, <1>3
<1> QED  BY <1>1, <1>2, <1>3, <1>4

LEMMA DivMono ==
    ASSUME NEW a \in Nat, NEW b \in Nat, a <= b, NEW w \in Nat \ {0}
    PROVE  a \div w <= b \div w
BY Z3

LEMMA LeastNumber ==
    ASSUME NEW T, T \subseteq Nat, T # {}
    PROVE  \E x \in T : \A y \in T : x <= y
<1> DEFINE R == OpToRel(<, Nat)
<1>1. IsWellFoundedOn(R, Nat)
    BY Zenon, NatLessThanWellFounded
<1>2. \A x, y \in Nat : x < y => <<x, y>> \in R
    BY DEF OpToRel
<1> HIDE DEF R
<1>3. PICK x \in T : \A y \in T : ~ (<<y, x>> \in R)
    BY Zenon, <1>1, WFMin
<1>4. ASSUME NEW y \in T  PROVE x <= y
  <2>1. x \in Nat /\ y \in Nat /\ ~ (y < x)
      BY Zenon, <1>2, <1>3
  <2> QED  BY <2>1
<1> QED  BY <1>4

\* The chunks of a call tile its range.
LEMMA Tiles ==
    ASSUME NEW c \in CallRec
    PROVE  /\ \A w \in 0..(c.nc - 1) :
                 /\ Pool!Lo(c, w) \in Nat /\ Pool!Hi(c, w) \in Nat
                 /\ Pool!Lo(c, w) <= Pool!Hi(c, w) /\ Pool!Hi(c, w) <= c.n
           /\ Pool!Lo(c, 0) = 0 /\ Pool!Hi(c, 0) = c.n \div c.nc
           /\ c.nc = 1 => Pool!Hi(c, 0) = c.n
           /\ \A x \in 0..(c.n - 1) : \E w \in 0..(c.nc - 1) :
                 Pool!Lo(c, w) <= x /\ x < Pool!Hi(c, w)
           /\ \A v, w \in 0..(c.nc - 1) : v < w => Pool!Hi(c, v) <= Pool!Lo(c, w)
<1> DEFINE F(i) == (i * c.n) \div c.nc
<1>1. c.n \in Nat /\ c.nc \in Nat \ {0}
    BY PoolConstants DEF CallRec
<1>2. \A i \in Nat : i * c.n \in Nat
    BY <1>1
<1>3. \A i \in Nat : F(i) \in Nat
    BY Zenon, <1>1, <1>2, DivMod
<1>4. ASSUME NEW i \in Nat, NEW k \in Nat, i <= k  PROVE F(i) <= F(k)
  <2>1. i * c.n <= k * c.n
      BY <1>1, <1>4
  <2> QED  BY Zenon, <1>1, <1>2, <2>1, DivMono
<1>5. F(0) = 0 /\ F(1) = c.n \div c.nc /\ F(c.nc) = c.n
    BY <1>1
<1>6. \A w \in Nat : Pool!Lo(c, w) = F(w) /\ Pool!Hi(c, w) = F(w + 1)
    BY DEF Pool!Lo, Pool!Hi
<1> HIDE DEF F
<1>7. ASSUME NEW w \in 0..(c.nc - 1)
      PROVE  /\ Pool!Lo(c, w) \in Nat /\ Pool!Hi(c, w) \in Nat
             /\ Pool!Lo(c, w) <= Pool!Hi(c, w) /\ Pool!Hi(c, w) <= c.n
  <2>1. w \in Nat /\ w + 1 \in Nat /\ w <= w + 1 /\ w + 1 <= c.nc
      BY <1>1
  <2> QED  BY Zenon, <1>1, <1>3, <1>4, <1>5, <1>6, <2>1
<1>8. ASSUME NEW x \in 0..(c.n - 1)
      PROVE  \E w \in 0..(c.nc - 1) : Pool!Lo(c, w) <= x /\ x < Pool!Hi(c, w)
  <2> DEFINE T == {i \in 0..c.nc : x < F(i)}
  <2>1. c.nc \in T /\ T \subseteq Nat
      BY <1>1, <1>5
  <2>2. PICK i \in T : \A y \in T : i <= y
      BY Zenon, <2>1, LeastNumber
  <2>3. i \in 0..c.nc /\ x < F(i) /\ x \in Nat /\ i # 0
      BY <1>1, <1>5
  <2>4. i - 1 \in 0..(c.nc - 1) /\ i - 1 \in 0..c.nc /\ i - 1 \in Nat
      BY <1>1, <2>3
  <2>5. ~ (x < F(i - 1))
      BY <2>2, <2>4
  <2>6. F(i - 1) <= x
      BY <1>3, <2>3, <2>4, <2>5
  <2>7. Pool!Lo(c, i - 1) = F(i - 1) /\ Pool!Hi(c, i - 1) = F(i)
      BY <1>6, <2>3, <2>4
  <2> QED  BY <2>3, <2>4, <2>6, <2>7
<1>9. ASSUME NEW v \in 0..(c.nc - 1), NEW w \in 0..(c.nc - 1), v < w
      PROVE  Pool!Hi(c, v) <= Pool!Lo(c, w)
  <2>1. v \in Nat /\ w \in Nat /\ v + 1 \in Nat /\ v + 1 <= w
      BY <1>1, <1>9
  <2> QED  BY <1>4, <1>6, <2>1
<1>10. c.nc = 1 => Pool!Hi(c, 0) = c.n
    BY <1>5, <1>6
<1>11. Pool!Lo(c, 0) = 0 /\ Pool!Hi(c, 0) = c.n \div c.nc
    BY <1>5, <1>6
<1> QED  BY <1>7, <1>8, <1>9, <1>10, <1>11

\* What PoolTypes says of the call.
LEMMA CurIs ==
    ASSUME PoolTypes
    PROVE  /\ cur \in CallRec /\ cur.fn \in {-1} \cup (0..MaxCalls) /\ cur.n \in 0..Pool!MaxSize
           /\ cur.nc \in 1..NCORES /\ cur.c \in 1..NCORES /\ cur.total \in Seq(Pool!Chunk)
           /\ pc \in Places
<1>1. cur \in CallRec /\ pc \in Places
    BY DEF PoolTypes, cur, pc
<1> QED  BY <1>1 DEF CallRec

LEMMA ChunkIs ==
    ASSUME NEW c \in CallRec, NEW w \in 0..(c.nc - 1)
    PROVE  /\ Pool!ChunkOf(c, w) \in Pool!Chunk /\ Pool!ChunkOf(c, w).fn = c.fn
           /\ Pool!ChunkOf(c, w).lo = Pool!Lo(c, w) /\ Pool!ChunkOf(c, w).hi = Pool!Hi(c, w)
<1>1. c.fn \in {-1} \cup (0..MaxCalls) /\ c.n \in 0..Pool!MaxSize
    BY DEF CallRec
<1>2. Pool!Lo(c, w) \in 0..Pool!MaxSize /\ Pool!Hi(c, w) \in 0..Pool!MaxSize
    BY <1>1, Tiles, PoolConstants
<1> QED  BY <1>1, <1>2 DEF Pool!ChunkOf, Pool!Chunk, Pool!Park
\* What PoolTypes says of one worker.
LEMMA OneWorker ==
    ASSUME PoolTypes, NEW w \in Pool!Worker
    PROVE  /\ online[w] \in BOOLEAN /\ seq[w] \in Nat /\ done[w] \in Nat /\ last[w] \in Nat
           /\ wpc[w] \in WorkerPlaces /\ arg[w] \in Pool!Chunk /\ res[w] \in Pool!Chunk
           /\ fn[w] \in {-1} \cup (0..MaxCalls)
           /\ lo[w] \in 0..Pool!MaxSize /\ hi[w] \in 0..Pool!MaxSize
           /\ w \in Nat /\ w >= 1 /\ w < NCORES /\ calls \in Nat
           /\ ~polling[w] /\ Pool!Seen(w) = last[w]
<1>1. w \in Nat /\ w >= 1 /\ w < NCORES /\ calls \in Nat
    BY PoolConstants DEF PoolTypes
<1>2. polling[w] = FALSE
    BY DEF PoolTypes
<1> QED  BY <1>1, <1>2 DEF PoolTypes, Pool!Seen

LEMMA PoolStarts == Pool!Init => PoolInv
<1> SUFFICES ASSUME Pool!Init  PROVE PoolInv
    OBVIOUS
<1>0. /\ NCORES \in Nat /\ NCORES > 1 /\ MaxCalls \in Nat /\ Pool!MaxSize \in Nat
      /\ Pool!Worker = 1..(NCORES - 1) /\ Pool!Nothing \in Pool!Chunk
    BY PoolConstants
<1>1. cur = Pool!NoCall /\ pc = "idle"
    BY DEF Pool!Init, cur, pc
<1>2. /\ cur.fn = 0 /\ cur.n = 0 /\ cur.nc = 1 /\ cur.c = 1 /\ cur.total = << >>
      /\ cur \in CallRec
  <2>1. << >> \in Seq(Pool!Chunk)
      OBVIOUS
  <2>2. cur = [fn |-> 0, n |-> 0, nc |-> 1, c |-> 1, total |-> << >>]
      BY <1>1 DEF Pool!NoCall
  <2>3. 0 \in {-1} \cup (0..MaxCalls) /\ 0 \in 0..Pool!MaxSize /\ 1 \in 1..NCORES
      BY <1>0
  <2> QED  BY <2>1, <2>2, <2>3 DEF CallRec
<1>3. PoolTypes
  <2>1. call = [q \in {"p"} |-> Pool!NoCall] /\ cpc = [q \in {"p"} |-> "idle"]
      BY DEF Pool!Init
  <2>2. call \in [{"p"} -> CallRec] /\ cpc \in [{"p"} -> Places]
      BY <1>1, <1>2, <2>1 DEF Places
  <2>3. 0 \in {-1} \cup (0..MaxCalls) /\ 0 \in 0..Pool!MaxSize /\ 0 \in 0..(MaxCalls + 1)
      BY <1>0
  <2>4. "held" \in WorkerPlaces
      BY DEF WorkerPlaces
  <2> QED  BY <1>0, <2>2, <2>3, <2>4 DEF PoolTypes, Pool!Init
<1>4. Stage
    BY <1>1, <1>2 DEF Stage
<1>5. \A w \in Pool!Worker : Box(w)
  <2> SUFFICES ASSUME NEW w \in Pool!Worker  PROVE Box(w)
      OBVIOUS
  <2>1. /\ seq[w] = 0 /\ done[w] = 0 /\ last[w] = 0 /\ wpc[w] = "held" /\ ~online[w]
        /\ res[w] = Pool!Nothing /\ calls = 0
      BY DEF Pool!Init
  <2> QED  BY <1>1, <2>1 DEF Box, Posted, Open, PostPcs, Working
<1>6. Runs
  <2>1. \A k \in 1..(MaxCalls + 1) : \A c \in 0..(NCORES - 1) : ran[k][c] = 0
      BY DEF Pool!Init
  <2> QED  BY <1>1, <2>1 DEF Runs, PostPcs, Open, Posted
<1>7. Summed
    BY <1>1 DEF Summed
<1> QED  BY <1>3, <1>4, <1>5, <1>6, <1>7 DEF PoolInv

-----------------------------------------------------------------------------
(* Steps of a worker                                                       *)

\* A worker changes what is its own, and the mailboxes' answers.
LEMMA WorkerFrame ==
    ASSUME PoolInv, NEW w \in Pool!Worker,
           UNCHANGED <<fn, lo, hi, seq, cpc, call, calls>>, PoolTypes', Box(w)',
           \/ Runs'
           \/ /\ ran' = ran
              /\ Open(w) /\ done'[w] # seq[w] /\ wpc'[w] \notin {"res", "done"} =>
                    done[w] # seq[w] /\ wpc[w] \notin {"res", "done"},
           \A v \in Pool!Worker : v # w =>
              /\ online'[v] = online[v] /\ res'[v] = res[v] /\ done'[v] = done[v]
              /\ wpc'[v] = wpc[v] /\ last'[v] = last[v] /\ arg'[v] = arg[v]
    PROVE  PoolInv'
<1>1. pc' = pc /\ cur' = cur
    BY DEF pc, cur
<1>2. Stage'
    BY <1>1 DEF PoolInv, Stage
<1>3. ASSUME NEW v \in Pool!Worker  PROVE (Posted(v)' <=> Posted(v)) /\ (Open(v)' <=> Open(v))
    BY <1>1 DEF Posted, Open
<1>4. ASSUME NEW v \in Pool!Worker, v # w  PROVE Box(v)'
  <2>1. Box(v)
      BY DEF PoolInv
  <2> QED  BY <1>1, <1>3, <1>4, <2>1 DEF Box
<1>5. Runs'
  <2> SUFFICES ASSUME ran' = ran,
                      Open(w) /\ done'[w] # seq[w] /\ wpc'[w] \notin {"res", "done"} =>
                          done[w] # seq[w] /\ wpc[w] \notin {"res", "done"}
               PROVE  Runs'
      OBVIOUS
  <2>1. Runs
      BY DEF PoolInv
  <2>2. cur.fn # -1 => \A v \in Pool!Worker :
          Open(v)' /\ done'[v] # seq'[v] /\ wpc'[v] \notin {"res", "done"} => ran'[calls'][v] = 0
      BY <1>3, <2>1 DEF Runs
  <2> QED  BY <1>1, <2>1, <2>2 DEF Runs
<1>6. Summed'
  <2>1. \A v : Added(v)' <=> Added(v)
      BY <1>1 DEF Added, Posted
  <2> QED  BY <1>1, <2>1 DEF PoolInv, Summed
<1> QED  BY <1>2, <1>4, <1>5, <1>6 DEF PoolInv

\* The facts every worker step starts from.
LEMMA WorkerFacts ==
    ASSUME PoolInv, NEW w \in Pool!Worker, UNCHANGED <<fn, lo, hi, seq, cpc, call, calls>>
    PROVE  /\ PoolTypes /\ Stage /\ Box(w) /\ Runs /\ pc' = pc /\ cur' = cur
           /\ Posted(w)' = Posted(w) /\ Open(w)' = Open(w)
           /\ Pool!Lo(cur, w)' = Pool!Lo(cur, w) /\ Pool!Hi(cur, w)' = Pool!Hi(cur, w)
           /\ Pool!ChunkOf(cur, w)' = Pool!ChunkOf(cur, w)
<1>1. pc' = pc /\ cur' = cur
    BY DEF pc, cur
<1>2. Posted(w)' = Posted(w) /\ Open(w)' = Open(w)
    BY <1>1 DEF Posted, Open
<1> QED  BY <1>1, <1>2 DEF PoolInv

\* Coming up, and waiting for a job.
LEMMA EntrySteps ==
    ASSUME PoolInv, NEW w \in Pool!Worker,
           Pool!smp_secondary_entry(w) \/ Pool!loop_enter(w) \/ Pool!loop_notice(w)
    PROVE  PoolInv'
<1> USE DEF Pool!mailbox, Pool!quiet, Pool!caller, Pool!polled, Pool!Goto
<1>1. UNCHANGED <<fn, lo, hi, seq, cpc, call, calls, res, done, arg, ran, polling, plast, smpsched_on>>
    BY DEF Pool!smp_secondary_entry, Pool!loop_enter, Pool!loop_notice
<1>2. /\ PoolTypes /\ Stage /\ Box(w) /\ Runs /\ pc' = pc /\ cur' = cur
      /\ Posted(w)' = Posted(w) /\ Open(w)' = Open(w)
      /\ Pool!Lo(cur, w)' = Pool!Lo(cur, w) /\ Pool!Hi(cur, w)' = Pool!Hi(cur, w)
      /\ Pool!ChunkOf(cur, w)' = Pool!ChunkOf(cur, w)
    BY <1>1, WorkerFacts
<1>3. /\ online[w] \in BOOLEAN /\ seq[w] \in Nat /\ done[w] \in Nat /\ last[w] \in Nat
    BY <1>2, OneWorker
<1>4. /\ online \in [Pool!Worker -> BOOLEAN] /\ wpc \in [Pool!Worker -> WorkerPlaces]
      /\ last \in [Pool!Worker -> Nat]
    BY <1>2 DEF PoolTypes
<1>5. \A v \in Pool!Worker : v # w =>
              /\ online'[v] = online[v] /\ res'[v] = res[v] /\ done'[v] = done[v]
              /\ wpc'[v] = wpc[v] /\ last'[v] = last[v] /\ arg'[v] = arg[v]
    BY <1>1, <1>4 DEF Pool!smp_secondary_entry, Pool!loop_enter, Pool!loop_notice
<1>6. PoolTypes'
  <2>1. /\ online' \in [Pool!Worker -> BOOLEAN] /\ wpc' \in [Pool!Worker -> WorkerPlaces]
        /\ last' \in [Pool!Worker -> Nat]
      BY Zenon, <1>1, <1>3, <1>4
      DEF Pool!smp_secondary_entry, Pool!loop_enter, Pool!loop_notice, WorkerPlaces, Working
  <2> QED  BY Zenon, <1>1, <1>2, <2>1 DEF PoolTypes
<1>7. Box(w)'
  <2>1. CASE Pool!smp_secondary_entry(w)
    <3>1. wpc[w] = "held" /\ wpc'[w] = "init" /\ online'[w] /\ last'[w] = last[w]
        BY <1>4, <2>1 DEF Pool!smp_secondary_entry
    <3> QED  BY <1>1, <1>2, <1>3, <3>1 DEF Box, Working
  <2>2. CASE Pool!loop_enter(w)
    <3>1. wpc[w] = "init" /\ wpc'[w] = "wait" /\ online'[w] = online[w] /\ last'[w] = seq[w]
        BY <1>4, <2>2 DEF Pool!loop_enter
    <3> QED  BY <1>1, <1>2, <1>3, <3>1 DEF Box, Working
  <2>3. CASE Pool!loop_notice(w)
    <3>1. /\ wpc[w] = "wait" /\ wpc'[w] = "fn" /\ online'[w] = online[w] /\ last'[w] = seq[w]
          /\ seq[w] # last[w]
        BY <1>4, <2>3 DEF Pool!loop_notice
    <3> QED  BY <1>1, <1>2, <1>3, <3>1 DEF Box, Working
  <2> QED  BY <2>1, <2>2, <2>3
<1>8. wpc[w] \notin {"res", "done"}
    BY DEF Pool!smp_secondary_entry, Pool!loop_enter, Pool!loop_notice
<1> QED  BY <1>1, <1>5, <1>6, <1>7, <1>8, WorkerFrame

\* Loading the arguments of a job.
LEMMA LoadSteps ==
    ASSUME PoolInv, NEW w \in Pool!Worker,
           Pool!load_fn(w) \/ Pool!load_lo(w) \/ Pool!load_hi(w)
    PROVE  PoolInv'
<1> USE DEF Pool!mailbox, Pool!quiet, Pool!caller, Pool!polled, Pool!Goto
<1>1. UNCHANGED <<fn, lo, hi, seq, cpc, call, calls, res, done, online, last, ran, polling, plast, smpsched_on>>
    BY DEF Pool!load_fn, Pool!load_lo, Pool!load_hi
<1>2. /\ PoolTypes /\ Stage /\ Box(w) /\ Runs /\ pc' = pc /\ cur' = cur
      /\ Posted(w)' = Posted(w) /\ Open(w)' = Open(w)
      /\ Pool!Lo(cur, w)' = Pool!Lo(cur, w) /\ Pool!Hi(cur, w)' = Pool!Hi(cur, w)
      /\ Pool!ChunkOf(cur, w)' = Pool!ChunkOf(cur, w)
    BY <1>1, WorkerFacts
<1>3. /\ seq[w] \in Nat /\ done[w] \in Nat /\ last[w] \in Nat /\ arg[w] \in Pool!Chunk
      /\ fn[w] \in {-1} \cup (0..MaxCalls)
      /\ lo[w] \in 0..Pool!MaxSize /\ hi[w] \in 0..Pool!MaxSize
    BY <1>2, OneWorker
<1>4. /\ wpc \in [Pool!Worker -> WorkerPlaces] /\ arg \in [Pool!Worker -> Pool!Chunk]
    BY <1>2 DEF PoolTypes
<1>5. \A v \in Pool!Worker : v # w => wpc'[v] = wpc[v] /\ arg'[v] = arg[v]
    BY <1>4 DEF Pool!load_fn, Pool!load_lo, Pool!load_hi
<1>6. /\ arg' \in [Pool!Worker -> Pool!Chunk] /\ wpc[w] # "wait"
      /\ wpc[w] \in Working /\ wpc'[w] \in {"lo", "hi", "run"}
      /\ wpc'[w] = "lo" => arg'[w].fn = fn[w]
      /\ wpc'[w] = "hi" => wpc[w] = "lo" /\ arg'[w].fn = arg[w].fn /\ arg'[w].lo = lo[w]
      /\ wpc'[w] = "run" => /\ wpc[w] = "hi" /\ arg'[w].fn = arg[w].fn /\ arg'[w].lo = arg[w].lo
                            /\ arg'[w].hi = hi[w]
  <2>1. CASE Pool!load_fn(w)
    <3>1. arg' = [arg EXCEPT ![w] = [arg[w] EXCEPT !.fn = fn[w]]]
        BY <2>1 DEF Pool!load_fn
    <3>2. [arg[w] EXCEPT !.fn = fn[w]] \in Pool!Chunk /\ [arg[w] EXCEPT !.fn = fn[w]].fn = fn[w]
        BY <1>3 DEF Pool!Chunk, Pool!Park
    <3>3. wpc[w] = "fn" /\ wpc'[w] = "lo"
        BY <1>4, <2>1 DEF Pool!load_fn
    <3> QED  BY <1>4, <3>1, <3>2, <3>3 DEF Working
  <2>2. CASE Pool!load_lo(w)
    <3>1. arg' = [arg EXCEPT ![w] = [arg[w] EXCEPT !.lo = lo[w]]]
        BY <2>2 DEF Pool!load_lo
    <3>2. /\ [arg[w] EXCEPT !.lo = lo[w]] \in Pool!Chunk /\ [arg[w] EXCEPT !.lo = lo[w]].lo = lo[w]
          /\ [arg[w] EXCEPT !.lo = lo[w]].fn = arg[w].fn
        BY <1>3 DEF Pool!Chunk, Pool!Park
    <3>3. wpc[w] = "lo" /\ wpc'[w] = "hi"
        BY <1>4, <2>2 DEF Pool!load_lo
    <3> QED  BY <1>4, <3>1, <3>2, <3>3 DEF Working
  <2>3. CASE Pool!load_hi(w)
    <3>1. arg' = [arg EXCEPT ![w] = [arg[w] EXCEPT !.hi = hi[w]]]
        BY <2>3 DEF Pool!load_hi
    <3>2. /\ [arg[w] EXCEPT !.hi = hi[w]] \in Pool!Chunk /\ [arg[w] EXCEPT !.hi = hi[w]].hi = hi[w]
          /\ [arg[w] EXCEPT !.hi = hi[w]].fn = arg[w].fn
          /\ [arg[w] EXCEPT !.hi = hi[w]].lo = arg[w].lo
        BY <1>3 DEF Pool!Chunk, Pool!Park
    <3>3. wpc[w] = "hi" /\ wpc'[w] = "run"
        BY <1>4, <2>3 DEF Pool!load_hi
    <3> QED  BY <1>4, <3>1, <3>2, <3>3 DEF Working
  <2> QED  BY <2>1, <2>2, <2>3
<1>7. PoolTypes'
  <2>1. wpc' \in [Pool!Worker -> WorkerPlaces]
      BY <1>4 DEF Pool!load_fn, Pool!load_lo, Pool!load_hi, WorkerPlaces, Working
  <2> QED  BY <1>1, <1>2, <1>6, <2>1 DEF PoolTypes
<1>8. Box(w)'
    BY <1>1, <1>2, <1>3, <1>6 DEF Box, Working
<1>9. wpc[w] \notin {"res", "done"}
    BY DEF Pool!load_fn, Pool!load_lo, Pool!load_hi
<1> QED  BY <1>1, <1>5, <1>7, <1>8, <1>9, WorkerFrame
\* What counting one run of chunk c of call k does.
LEMMA RanBump ==
    ASSUME PoolTypes, NEW k \in 1..(MaxCalls + 1), NEW c \in 0..(NCORES - 1), Pool!Ran(k, c)
    PROVE  /\ ran' \in [1..(MaxCalls + 1) -> [0..(NCORES - 1) -> Nat]]
           /\ ran'[k][c] = ran[k][c] + 1
           /\ \A k2 \in 1..(MaxCalls + 1), c2 \in 0..(NCORES - 1) :
                 k2 # k \/ c2 # c => ran'[k2][c2] = ran[k2][c2]
<1>1. ran \in [1..(MaxCalls + 1) -> [0..(NCORES - 1) -> Nat]]
    BY DEF PoolTypes
<1> DEFINE row == [ran[k] EXCEPT ![c] = ran[k][c] + 1]
<1>2. ran' = [ran EXCEPT ![k] = row]
    BY DEF Pool!Ran
<1>3. ran[k] \in [0..(NCORES - 1) -> Nat]
    BY <1>1
<1>4. /\ row \in [0..(NCORES - 1) -> Nat] /\ row[c] = ran[k][c] + 1
      /\ \A c2 \in 0..(NCORES - 1) : c2 # c => row[c2] = ran[k][c2]
  <2>1. ran[k][c] \in Nat
      BY Zenon, <1>3
  <2>2. ran[k][c] + 1 \in Nat
      BY <2>1
  <2>3. ASSUME NEW D, NEW f \in [D -> Nat], NEW d \in D, NEW x \in Nat
        PROVE  /\ [f EXCEPT ![d] = x] \in [D -> Nat] /\ [f EXCEPT ![d] = x][d] = x
               /\ \A e \in D : e # d => [f EXCEPT ![d] = x][e] = f[e]
      OBVIOUS
  <2> QED  BY Zenon, <1>3, <2>2, <2>3
<1> HIDE DEF row
<1>5. ran'[k] = row /\ \A k2 \in 1..(MaxCalls + 1) : k2 # k => ran'[k2] = ran[k2]
    BY <1>1, <1>2
<1>6. ran' \in [1..(MaxCalls + 1) -> [0..(NCORES - 1) -> Nat]]
    BY <1>1, <1>2, <1>4
<1> QED  BY Zenon, <1>4, <1>5, <1>6

\* Running the job.
LEMMA RunSteps ==
    ASSUME PoolInv, NEW w \in Pool!Worker,
           Pool!run_fn(w) \/ Pool!smp_park_self(w) \/ Pool!hang(w)
    PROVE  PoolInv'
<1> USE DEF Pool!mailbox, Pool!quiet, Pool!caller, Pool!polled, Pool!Goto
<1>1. UNCHANGED <<fn, lo, hi, seq, cpc, call, calls, res, done, online, last, arg, polling, plast,
                  smpsched_on>>
    BY DEF Pool!run_fn, Pool!smp_park_self, Pool!hang
<1>2. /\ PoolTypes /\ Stage /\ Box(w) /\ Runs /\ pc' = pc /\ cur' = cur
      /\ Posted(w)' = Posted(w) /\ Open(w)' = Open(w)
      /\ Pool!Lo(cur, w)' = Pool!Lo(cur, w) /\ Pool!Hi(cur, w)' = Pool!Hi(cur, w)
      /\ Pool!ChunkOf(cur, w)' = Pool!ChunkOf(cur, w)
    BY <1>1, WorkerFacts
<1>3. /\ seq[w] \in Nat /\ done[w] \in Nat /\ last[w] \in Nat /\ arg[w] \in Pool!Chunk
      /\ w \in Nat /\ w >= 1 /\ w < NCORES /\ calls \in Nat
    BY <1>2, OneWorker
<1>4. wpc \in [Pool!Worker -> WorkerPlaces] /\ wpc[w] = "run"
    BY <1>2 DEF PoolTypes, Pool!run_fn, Pool!smp_park_self, Pool!hang
<1>5. /\ \A v \in Pool!Worker : v # w => wpc'[v] = wpc[v]
      /\ wpc' \in [Pool!Worker -> WorkerPlaces] /\ wpc'[w] \in {"res", "parked", "hung"}
      /\ wpc'[w] = "res" => arg[w].fn > 0
    BY <1>4 DEF Pool!run_fn, Pool!smp_park_self, Pool!hang, WorkerPlaces, Working
<1>6. Box(w)'
    BY <1>1, <1>2, <1>3, <1>4, <1>5 DEF Box, Working
<1>7. CASE ran' = ran
  <2>1. PoolTypes'
      BY <1>1, <1>2, <1>5, <1>7 DEF PoolTypes
  <2> QED  BY <1>1, <1>4, <1>5, <1>6, <1>7, <2>1, WorkerFrame
<1>8. CASE Pool!run_fn(w)
  <2>1. /\ Open(w) /\ done[w] # seq[w] /\ seq[w] # 0 /\ arg[w].fn = fn[w] /\ arg[w].fn > 0
      BY <1>2, <1>4, <1>8 DEF Box, Working, Pool!run_fn
  <2>2. Posted(w) /\ pc # "idle"
      BY <2>1 DEF Open, Posted
  <2>3. seq[w] > 0
      BY <1>3, <2>1
  <2>4. fn[w] = cur.fn
      BY <1>2, <2>2, <2>3 DEF Box
  <2>5. cur.fn = calls /\ cur.fn # -1 /\ calls >= 1
      BY <1>2, <2>1, <2>2, <2>4 DEF Stage
  <2>6. calls \in 1..(MaxCalls + 1) /\ w \in 0..(NCORES - 1)
      BY <1>2, <1>3, <2>5, PoolConstants DEF PoolTypes
  <2>7. Pool!Ran(calls, w)
      BY <1>8, <2>1, <2>4, <2>5 DEF Pool!run_fn
  <2>9. ran[calls][w] = 0
      BY <1>2, <1>4, <2>1, <2>5 DEF Runs
  <2>10. /\ ran' \in [1..(MaxCalls + 1) -> [0..(NCORES - 1) -> Nat]]
         /\ ran'[calls][w] = 1
         /\ \A k \in 1..(MaxCalls + 1), c \in 0..(NCORES - 1) :
               k # calls \/ c # w => ran'[k][c] = ran[k][c]
      BY <1>2, <2>6, <2>7, <2>9, RanBump
  <2>11. PoolTypes'
      BY <1>1, <1>2, <1>5, <2>10 DEF PoolTypes
  <2>12. Runs'
    <3>1. ASSUME NEW k \in 1..(MaxCalls + 1), NEW c \in 0..(NCORES - 1)
          PROVE  ran'[k][c] <= 1 /\ (k > calls => ran'[k][c] = 0)
      <4>1. ran[k][c] <= 1 /\ (k > calls => ran[k][c] = 0)
          BY <1>2 DEF Runs
      <4> QED  BY <1>3, <2>10, <4>1
    <3>2. pc \in PostPcs => w < cur.c
        BY <2>2 DEF Posted
    <3>3. ASSUME pc \in PostPcs
          PROVE  /\ ran'[calls][0] = 0
                 /\ \A v \in Pool!Worker : cur.c <= v => ran'[calls][v] = 0
      <4>1. 0 # w /\ 0 \in 0..(NCORES - 1) /\ cur.c \in Nat
          BY <1>2, <1>3, CurIs, PoolConstants
      <4>2. ran'[calls][0] = 0
          BY <1>2, <2>5, <2>6, <2>10, <3>3, <4>1 DEF Runs
      <4>3. ASSUME NEW v \in Pool!Worker, cur.c <= v  PROVE ran'[calls][v] = 0
        <5>1. v # w /\ v \in 0..(NCORES - 1)
            BY <1>3, <3>2, <3>3, <4>1, <4>3, PoolConstants
        <5>2. ran[calls][v] = 0
            BY <1>2, <2>5, <3>3, <4>3 DEF Runs
        <5> QED  BY <2>6, <2>10, <5>1, <5>2
      <4> QED  BY <4>2, <4>3
    <3>4. ASSUME NEW v \in Pool!Worker,
                 Open(v)' /\ done[v] # seq[v] /\ wpc'[v] \notin {"res", "done"}
          PROVE  ran'[calls][v] = 0
      <4>1. v # w
          BY <1>8, <3>4, <1>4 DEF Pool!run_fn
      <4>2. Open(v) /\ wpc[v] = wpc'[v]
          BY <1>2, <1>5, <3>4, <4>1 DEF Open, Posted
      <4>3. ran[calls][v] = 0 /\ v \in 0..(NCORES - 1)
          BY <1>2, <2>5, <3>4, <4>2, PoolConstants DEF Runs
      <4> QED  BY <2>6, <2>10, <4>1, <4>3
    <3> QED  BY <1>1, <1>2, <3>1, <3>3, <3>4 DEF Runs
  <2> QED  BY <1>1, <1>5, <1>6, <2>11, <2>12, WorkerFrame
<1> QED  BY <1>7, <1>8 DEF Pool!smp_park_self, Pool!hang

\* Answering.
LEMMA StoreSteps ==
    ASSUME PoolInv, NEW w \in Pool!Worker, Pool!store_res(w) \/ Pool!store_done(w)
    PROVE  PoolInv'
<1> USE DEF Pool!quiet, Pool!caller, Pool!polled, Pool!Goto
<1>1. UNCHANGED <<fn, lo, hi, seq, cpc, call, calls, online, last, arg, ran, polling, plast,
                  smpsched_on>>
    BY DEF Pool!store_res, Pool!store_done
<1>2. /\ PoolTypes /\ Stage /\ Box(w) /\ Runs /\ pc' = pc /\ cur' = cur
      /\ Posted(w)' = Posted(w) /\ Open(w)' = Open(w)
      /\ Pool!Lo(cur, w)' = Pool!Lo(cur, w) /\ Pool!Hi(cur, w)' = Pool!Hi(cur, w)
      /\ Pool!ChunkOf(cur, w)' = Pool!ChunkOf(cur, w)
    BY <1>1, WorkerFacts
<1>3. /\ seq[w] \in Nat /\ done[w] \in Nat /\ last[w] \in Nat /\ arg[w] \in Pool!Chunk
      /\ ~polling[w] /\ Pool!Seen(w) = last[w]
    BY <1>2, OneWorker
<1>4. /\ wpc \in [Pool!Worker -> WorkerPlaces] /\ res \in [Pool!Worker -> Pool!Chunk]
      /\ done \in [Pool!Worker -> Nat]
    BY <1>2 DEF PoolTypes
<1>5. /\ \A v \in Pool!Worker : v # w => wpc'[v] = wpc[v] /\ res'[v] = res[v] /\ done'[v] = done[v]
      /\ wpc' \in [Pool!Worker -> WorkerPlaces] /\ res' \in [Pool!Worker -> Pool!Chunk]
      /\ done' \in [Pool!Worker -> Nat]
    BY <1>3, <1>4 DEF Pool!store_res, Pool!store_done, WorkerPlaces, Working
<1>6. PoolTypes'
    BY Zenon, <1>1, <1>2, <1>5 DEF PoolTypes
<1>7. CASE Pool!store_res(w)
  <2>1. wpc[w] = "res" /\ wpc'[w] = "done" /\ res'[w] = arg[w] /\ done' = done
      BY <1>4, <1>7 DEF Pool!store_res
  <2>2. done[w] # seq[w] /\ Open(w) /\ last[w] = seq[w]
      BY <1>2, <2>1 DEF Box, Working
  <2>3. ~ (pc = "read" /\ w = cur.c)
    <3>1. cur.c \in Nat
        BY <1>2, CurIs, PoolConstants
    <3> QED  BY <2>2, <3>1 DEF Open
  <2>4. Box(w)'
      BY <1>1, <1>2, <1>3, <2>1, <2>2, <2>3 DEF Box, Working
  <2> QED  BY <1>1, <1>5, <1>6, <2>1, <2>4, WorkerFrame
<1>8. CASE Pool!store_done(w)
  <2>1. wpc[w] = "done" /\ wpc'[w] = "wait" /\ res' = res /\ done'[w] = last[w]
      BY <1>3, <1>4, <1>8 DEF Pool!store_done
  <2>2. /\ Open(w) /\ last[w] = seq[w] /\ seq[w] # 0 /\ arg[w].fn = fn[w] /\ arg[w].lo = lo[w]
        /\ arg[w].hi = hi[w] /\ res[w] = arg[w]
      BY <1>2, <2>1 DEF Box, Working
  <2>3. Posted(w) /\ seq[w] > 0
      BY <1>3, <2>2 DEF Open
  <2>4. fn[w] = cur.fn /\ lo[w] = Pool!Lo(cur, w) /\ hi[w] = Pool!Hi(cur, w)
      BY <1>2, <2>3 DEF Box
  <2>5. res[w] = Pool!ChunkOf(cur, w)
      BY <1>3, <2>2, <2>4 DEF Pool!ChunkOf, Pool!Chunk
  <2>6. Box(w)'
      BY <1>1, <1>2, <1>3, <2>1, <2>2, <2>5 DEF Box, Working
  <2> QED  BY <1>1, <1>5, <1>6, <2>1, <2>2, <2>6, WorkerFrame
<1> QED  BY <1>7, <1>8

\* What the polling loop does needs smpsched_on.
LEMMA NoPolling ==
    ASSUME PoolInv, NEW w \in Pool!Worker
    PROVE  /\ ~Pool!loop_leave(w) /\ ~Pool!poll_first(w) /\ ~Pool!poll_init(w)
           /\ ~Pool!poll_again(w) /\ ~Pool!poll_notice(w) /\ ~Pool!poll_nothing(w)
           /\ ~Pool!smpsched_enable
<1>1. wpc[w] \in WorkerPlaces /\ smpsched_on = FALSE
    BY OneWorker DEF PoolInv, PoolTypes
<1> QED  BY <1>1 DEF Pool!loop_leave, Pool!poll_first, Pool!poll_init, Pool!poll_again,
            Pool!poll_notice, Pool!poll_nothing, Pool!smpsched_enable, Pool!Goto,
            WorkerPlaces, Working
-----------------------------------------------------------------------------
(* Steps of the caller                                                     *)

\* What moving on does to the call.
LEMMA ProceedIs ==
    ASSUME PoolTypes, NEW place \in Places, NEW c \in 1..NCORES, NEW rs \in Seq(Pool!Chunk),
           Pool!Proceed("p", place, c, rs)
    PROVE  /\ pc' = place /\ cur'.c = c /\ cur'.total = cur.total \o rs
           /\ cur'.fn = cur.fn /\ cur'.n = cur.n /\ cur'.nc = cur.nc /\ cur' \in CallRec
           /\ cpc' \in [{"p"} -> Places] /\ call' \in [{"p"} -> CallRec]
           /\ \A w : /\ Pool!Lo(cur, w)' = Pool!Lo(cur, w) /\ Pool!Hi(cur, w)' = Pool!Hi(cur, w)
                     /\ Pool!ChunkOf(cur, w)' = Pool!ChunkOf(cur, w)
           /\ UNCHANGED <<calls, wpc, last, arg, polling, plast, smpsched_on>>
<1> DEFINE new == [cur EXCEPT !.c = c, !.total = cur.total \o rs]
<1>1. call' = [call EXCEPT !["p"] = new]
    BY Zenon DEF Pool!Proceed, cur
<1>2. cur \in CallRec /\ cur.total \in Seq(Pool!Chunk)
    BY CurIs
<1>3. cur.total \o rs \in Seq(Pool!Chunk)
    BY <1>2
<1>4. /\ new \in CallRec /\ new.c = c /\ new.total = cur.total \o rs
      /\ new.fn = cur.fn /\ new.n = cur.n /\ new.nc = cur.nc
    BY Zenon, <1>2, <1>3 DEF CallRec
<1> HIDE DEF new
<1>5. call \in [{"p"} -> CallRec] /\ cpc \in [{"p"} -> Places]
    BY DEF PoolTypes
<1>6. call' \in [{"p"} -> CallRec] /\ cur' = new
    BY <1>1, <1>4, <1>5 DEF cur
<1>7. cpc' \in [{"p"} -> Places] /\ pc' = place
    BY <1>5 DEF Pool!Proceed, pc
<1>8. UNCHANGED <<calls, wpc, last, arg, polling, plast, smpsched_on>>
    BY DEF Pool!Proceed, Pool!worker, Pool!polled
<1>9. \A w : /\ Pool!Lo(cur, w)' = Pool!Lo(cur, w) /\ Pool!Hi(cur, w)' = Pool!Hi(cur, w)
             /\ Pool!ChunkOf(cur, w)' = Pool!ChunkOf(cur, w)
    BY <1>4, <1>6 DEF Pool!Lo, Pool!Hi, Pool!ChunkOf
<1> QED  BY <1>4, <1>6, <1>7, <1>8, <1>9

\* A step that adds nothing to the total.
LEMMA SumSame ==
    ASSUME Summed, pc # "idle" \/ pc' = "idle",
           cur'.fn = cur.fn, cur'.total = cur.total,
           \A w : Pool!ChunkOf(cur, w)' = Pool!ChunkOf(cur, w),
           \A w \in 0..(NCORES - 1) : Added(w)' <=> Added(w)
    PROVE  Summed'
BY DEF Summed

\* A step that adds the chunk of worker v, or nothing that counts.
LEMMA SumGrow ==
    ASSUME PoolTypes, Summed, pc # "idle", NEW r \in Pool!Chunk, NEW v \in 0..(cur.nc - 1),
           cur'.fn = cur.fn, cur'.total = cur.total \o <<r>>,
           \A w : Pool!ChunkOf(cur, w)' = Pool!ChunkOf(cur, w),
           \/ /\ r = Pool!ChunkOf(cur, v) /\ ~Added(v)
              /\ \A w \in 0..(NCORES - 1) : Added(w)' <=> (Added(w) \/ w = v)
           \/ /\ ~Counts(r)
              /\ \A w \in 0..(NCORES - 1) : Added(w)' <=> Added(w)
    PROVE  Summed'
<1> SUFFICES ASSUME cur.fn # -1
             PROVE  Summed'
    BY Zenon DEF Summed
<1> DEFINE n == Len(cur.total)
<1>1. /\ cur \in CallRec /\ cur.total \in Seq(Pool!Chunk) /\ cur.nc \in 1..NCORES
    BY CurIs
<1>2. n \in Nat /\ Len(cur'.total) = n + 1 /\ cur'.total[n + 1] = r
      /\ \A i \in 1..n : cur'.total[i] = cur.total[i]
    BY <1>1
<1>3. \A i \in 1..Len(cur'.total) : i \in 1..n \/ i = n + 1
    BY <1>2
<1>4. NCORES \in Nat
    BY PoolConstants
<1>5. v \in 0..(NCORES - 1)
    BY <1>1, <1>4
<1>6. \A w \in 0..(NCORES - 1) : Added(w) => w \in 0..(cur.nc - 1)
    BY <1>1, <1>4 DEF Added
<1>7. ASSUME NEW i \in 1..Len(cur'.total), Counts(cur'.total[i])
      PROVE  \E w \in 0..(NCORES - 1) : Added(w)' /\ cur'.total[i] = Pool!ChunkOf(cur, w)
  <2>1. CASE i \in 1..n
    <3>1. PICK w \in 0..(NCORES - 1) : Added(w) /\ cur.total[i] = Pool!ChunkOf(cur, w)
        BY <1>2, <1>7, <2>1 DEF Summed
    <3>2. Added(w)' /\ cur'.total[i] = Pool!ChunkOf(cur, w)
        BY Zenon, <1>2, <2>1, <3>1
    <3> QED  BY <3>2
  <2>2. CASE i = n + 1
    <3>1. cur'.total[i] = r /\ Counts(r)
        BY <1>2, <1>7, <2>2
    <3> QED  BY <1>5, <3>1
  <2> QED  BY <1>3, <2>1, <2>2
<1>8. ASSUME NEW w \in 0..(NCORES - 1), Added(w)'
      PROVE  \E i \in 1..Len(cur'.total) : cur'.total[i] = Pool!ChunkOf(cur, w)
  <2>1. CASE Added(w)
    <3>1. PICK i \in 1..n : cur.total[i] = Pool!ChunkOf(cur, w)
        BY <2>1 DEF Summed
    <3>2. i \in 1..Len(cur'.total) /\ cur'.total[i] = Pool!ChunkOf(cur, w)
        BY <1>2, <3>1
    <3> QED  BY <3>2
  <2>2. CASE w = v /\ r = Pool!ChunkOf(cur, v)
    <3>1. n + 1 \in 1..Len(cur'.total)
        BY <1>2
    <3> QED  BY <1>2, <2>2, <3>1
  <2> QED  BY <1>8, <2>1, <2>2
<1>9. ASSUME NEW i \in 1..n, Counts(r) \/ Counts(cur.total[i])  PROVE cur.total[i] # r
  <2> SUFFICES ASSUME cur.total[i] = r  PROVE FALSE
      OBVIOUS
  <2>1. Counts(r) /\ r = Pool!ChunkOf(cur, v) /\ ~Added(v)
      BY <1>9
  <2>2. PICK w \in 0..(NCORES - 1) : Added(w) /\ cur.total[i] = Pool!ChunkOf(cur, w)
      BY <1>9, <2>1 DEF Summed
  <2>3. w # v /\ w \in 0..(cur.nc - 1)
      BY <1>6, <2>1, <2>2
  <2>4. /\ r.lo = Pool!Lo(cur, v) /\ r.hi = Pool!Hi(cur, v)
        /\ r.lo = Pool!Lo(cur, w) /\ r.hi = Pool!Hi(cur, w)
      BY <1>1, <2>1, <2>2, <2>3, ChunkIs
  <2>5. r.lo < r.hi /\ r.lo \in Nat /\ r.hi \in Nat
      BY Zenon, <1>1, <2>1, <2>4, Tiles DEF Counts
  <2>6. w < v \/ v < w
      BY <1>1, <2>3
  <2>7. r.hi <= r.lo
      BY Zenon, <1>1, <2>3, <2>4, <2>6, Tiles
  <2> QED  BY <2>5, <2>7
<1>10. ASSUME NEW i1 \in 1..Len(cur'.total), NEW i2 \in 1..Len(cur'.total),
              i1 # i2, Counts(cur'.total[i1])
       PROVE  cur'.total[i1] # cur'.total[i2]
  <2>1. CASE i1 \in 1..n /\ i2 \in 1..n
      BY <1>2, <1>10, <2>1 DEF Summed
  <2>2. CASE i1 \in 1..n /\ i2 = n + 1
      BY <1>2, <1>9, <1>10, <2>2
  <2>3. CASE i1 = n + 1 /\ i2 \in 1..n
      BY <1>2, <1>9, <1>10, <2>3
  <2> QED  BY <1>3, <1>10, <2>1, <2>2, <2>3
<1>11. \A i \in 1..Len(cur'.total) : cur'.total[i].lo < cur'.total[i].hi =>
          \E w \in 0..(NCORES - 1) : Added(w)' /\ cur'.total[i] = Pool!ChunkOf(cur, w)'
    BY Zenon, <1>7 DEF Counts
<1>12. \A w \in 0..(NCORES - 1) : Added(w)' =>
          \E i \in 1..Len(cur'.total) : cur'.total[i] = Pool!ChunkOf(cur, w)'
    BY Zenon, <1>8
<1>13. \A i1, i2 \in 1..Len(cur'.total) :
          i1 # i2 /\ cur'.total[i1].lo < cur'.total[i1].hi => cur'.total[i1] # cur'.total[i2]
    BY <1>10 DEF Counts
<1> QED  BY Zenon, <1>11, <1>12, <1>13 DEF Summed, Counts
\* The facts every step of a running call starts from.
LEMMA CallerFacts ==
    ASSUME PoolInv
    PROVE  /\ PoolTypes /\ Stage /\ Runs /\ Summed /\ (\A w \in Pool!Worker : Box(w))
           /\ cur \in CallRec /\ cur.fn \in {-1} \cup (0..MaxCalls)
           /\ cur.nc \in 1..NCORES /\ cur.c \in 1..NCORES /\ cur.nc \in Nat /\ cur.c \in Nat
           /\ cur.c <= cur.nc /\ calls \in Nat /\ NCORES \in Nat
           /\ Pool!Worker = 1..(NCORES - 1)
           /\ (cur.c < cur.nc => cur.c \in Pool!Worker /\ cur.c + 1 \in 1..NCORES)
           /\ (pc # "idle" /\ cur.fn # -1 => cur.fn = calls /\ calls \in 1..(MaxCalls + 1))
           /\ << >> \in Seq(Pool!Chunk) /\ cur.total \o << >> = cur.total
<1>1. PoolTypes /\ Stage /\ Runs /\ Summed /\ (\A w \in Pool!Worker : Box(w))
    BY DEF PoolInv
<1>2. /\ cur \in CallRec /\ cur.fn \in {-1} \cup (0..MaxCalls) /\ cur.nc \in 1..NCORES
      /\ cur.c \in 1..NCORES /\ cur.total \in Seq(Pool!Chunk)
    BY <1>1, CurIs
<1>3. NCORES \in Nat /\ Pool!Worker = 1..(NCORES - 1) /\ MaxCalls \in Nat
    BY PoolConstants
<1>4. cur.nc \in Nat /\ cur.c \in Nat /\ calls \in 0..(MaxCalls + 1) /\ calls \in Nat
    BY <1>1, <1>2, <1>3 DEF PoolTypes
<1>5. cur.c <= cur.nc
    BY <1>1 DEF Stage
<1>6. pc # "idle" /\ cur.fn # -1 => cur.fn = calls /\ calls \in 1..(MaxCalls + 1)
    BY <1>1, <1>3, <1>4 DEF Stage
<1>7. cur.c < cur.nc => cur.c \in Pool!Worker /\ cur.c + 1 \in 1..NCORES
    BY <1>2, <1>3, <1>4
<1> QED  BY <1>1, <1>2, <1>3, <1>4, <1>5, <1>6, <1>7

\* The stores into the mailbox of a worker that has answered its last job.
LEMMA PostSteps ==
    ASSUME PoolInv, Pool!post_fn("p") \/ Pool!post_lo("p") \/ Pool!post_hi("p")
    PROVE  PoolInv'
<1> DEFINE v == cur.c
           place == IF pc = "post" THEN "post_lo" ELSE IF pc = "post_lo" THEN "post_hi" ELSE "arm"
<1>1. /\ PoolTypes /\ Stage /\ Runs /\ Summed /\ (\A w \in Pool!Worker : Box(w))
      /\ cur \in CallRec /\ cur.fn \in {-1} \cup (0..MaxCalls) /\ cur.c \in 1..NCORES
      /\ cur.nc \in Nat /\ cur.c \in Nat /\ NCORES \in Nat /\ Pool!Worker = 1..(NCORES - 1)
      /\ (cur.c < cur.nc => cur.c \in Pool!Worker)
      /\ << >> \in Seq(Pool!Chunk) /\ cur.total \o << >> = cur.total
    BY CallerFacts
<1>2. /\ pc \in {"post", "post_lo", "post_hi"} /\ cur.c < cur.nc
      /\ Pool!Proceed("p", place, cur.c, << >>)
      /\ UNCHANGED <<online, res, seq, done, ran>>
    BY <1>1 DEF Pool!post_fn, Pool!post_lo, Pool!post_hi, Pool!At, pc, cur, Stage
<1>3. place \in {"post_lo", "post_hi", "arm"} /\ place \in Places
    BY DEF Places, PostPcs
<1> HIDE DEF place
<1>4. /\ pc' = place /\ cur'.c = cur.c /\ cur'.total = cur.total \o << >>
      /\ cur'.fn = cur.fn /\ cur'.n = cur.n /\ cur'.nc = cur.nc /\ cur' \in CallRec
      /\ cpc' \in [{"p"} -> Places] /\ call' \in [{"p"} -> CallRec]
      /\ \A w : /\ Pool!Lo(cur, w)' = Pool!Lo(cur, w) /\ Pool!Hi(cur, w)' = Pool!Hi(cur, w)
                /\ Pool!ChunkOf(cur, w)' = Pool!ChunkOf(cur, w)
      /\ UNCHANGED <<calls, wpc, last, arg, polling, plast, smpsched_on>>
    BY Zenon, <1>1, <1>2, <1>3, ProceedIs
<1>5. /\ fn \in [Pool!Worker -> {-1} \cup (0..MaxCalls)]
      /\ lo \in [Pool!Worker -> 0..Pool!MaxSize] /\ hi \in [Pool!Worker -> 0..Pool!MaxSize]
    BY Zenon, <1>1 DEF PoolTypes
<1>6. v \in 0..(cur.nc - 1) /\ v \in Pool!Worker
    BY <1>1, <1>2
<1>7. Pool!Lo(cur, v) \in 0..Pool!MaxSize /\ Pool!Hi(cur, v) \in 0..Pool!MaxSize
  <2>1. /\ Pool!Lo(cur, v) \in Nat /\ Pool!Hi(cur, v) \in Nat
        /\ Pool!Lo(cur, v) <= Pool!Hi(cur, v) /\ Pool!Hi(cur, v) <= cur.n
      BY <1>1, <1>6, Tiles
  <2> QED  BY <1>1, <2>1, PoolConstants, CurIs
<1>8. /\ fn' \in [Pool!Worker -> {-1} \cup (0..MaxCalls)]
      /\ lo' \in [Pool!Worker -> 0..Pool!MaxSize] /\ hi' \in [Pool!Worker -> 0..Pool!MaxSize]
      /\ \A w \in Pool!Worker : w # v => fn'[w] = fn[w] /\ lo'[w] = lo[w] /\ hi'[w] = hi[w]
      /\ pc = "post" => place = "post_lo" /\ online[v] /\ fn'[v] = cur.fn
      /\ pc = "post_lo" => /\ place = "post_hi" /\ fn'[v] = fn[v] /\ lo'[v] = Pool!Lo(cur, v)
      /\ pc = "post_hi" => /\ place = "arm" /\ fn'[v] = fn[v] /\ lo'[v] = lo[v]
                           /\ hi'[v] = Pool!Hi(cur, v)
    BY Zenon, <1>1, <1>5, <1>6, <1>7
    DEF Pool!post_fn, Pool!post_lo, Pool!post_hi, Pool!At, pc, cur, place
<1>9. PoolTypes'
    BY Zenon, <1>1, <1>2, <1>4, <1>8 DEF PoolTypes
<1>10. Stage'
    BY <1>1, <1>2, <1>3, <1>4 DEF Stage, PostPcs
<1>11. \A w : (Posted(w)' <=> Posted(w)) /\ (Open(w)' <=> Open(w))
    BY <1>2, <1>3, <1>4 DEF Posted, Open, PostPcs
<1>12. ASSUME NEW w \in Pool!Worker  PROVE Box(w)'
  <2>1. Box(w)
      BY <1>1
  <2>2. CASE w # v
    <3>1. fn'[w] = fn[w] /\ lo'[w] = lo[w] /\ hi'[w] = hi[w]
        BY <1>8, <2>2
    <3> QED  BY <1>2, <1>3, <1>4, <1>11, <2>1, <2>2, <3>1 DEF Box, PostPcs
  <2>3. CASE w = v
    <3>1. ~Posted(v) /\ ~Open(v)
        BY <1>1, <1>2 DEF Posted, Open, PostPcs
    <3> QED  BY <1>2, <1>3, <1>4, <1>8, <1>11, <2>1, <2>3, <3>1 DEF Box, PostPcs, Working
  <2> QED  BY <2>2, <2>3
<1>13. Runs'
    BY Zenon, <1>1, <1>2, <1>3, <1>4, <1>11 DEF Runs, PostPcs
<1>14. Summed'
  <2>1. \A w : Added(w)' <=> Added(w)
      BY <1>2, <1>3, <1>4, <1>11 DEF Added
  <2> QED  BY <1>1, <1>2, <1>4, <2>1, SumSame
<1> QED  BY <1>9, <1>10, <1>12, <1>13, <1>14 DEF PoolInv

\* The job is armed: the mailbox is the worker's.
LEMMA ArmStep ==
    ASSUME PoolInv, Pool!arm("p")
    PROVE  PoolInv'
<1> PICK v \in Nat : v = cur.c
    BY CallerFacts
<1>1. /\ PoolTypes /\ Stage /\ Runs /\ Summed /\ (\A w \in Pool!Worker : Box(w))
      /\ cur.nc \in Nat /\ cur.c \in Nat /\ NCORES \in Nat /\ Pool!Worker = 1..(NCORES - 1)
      /\ (cur.c < cur.nc => cur.c \in Pool!Worker /\ cur.c + 1 \in 1..NCORES)
      /\ << >> \in Seq(Pool!Chunk) /\ cur.total \o << >> = cur.total
    BY CallerFacts
<1>2. /\ pc = "arm" /\ cur.c < cur.nc /\ Pool!Proceed("p", "post", cur.c + 1, << >>)
      /\ UNCHANGED <<online, res, fn, lo, hi, done, ran>>
      /\ seq' = [seq EXCEPT ![v] = seq[v] + 1]
    BY <1>1 DEF Pool!arm, Pool!At, pc, cur, Stage
<1>3. "post" \in Places
    BY DEF Places, PostPcs
<1>4. /\ pc' = "post" /\ cur'.c = cur.c + 1 /\ cur'.total = cur.total \o << >>
      /\ cur'.fn = cur.fn /\ cur'.n = cur.n /\ cur'.nc = cur.nc /\ cur' \in CallRec
      /\ cpc' \in [{"p"} -> Places] /\ call' \in [{"p"} -> CallRec]
      /\ \A w : /\ Pool!Lo(cur, w)' = Pool!Lo(cur, w) /\ Pool!Hi(cur, w)' = Pool!Hi(cur, w)
                /\ Pool!ChunkOf(cur, w)' = Pool!ChunkOf(cur, w)
      /\ UNCHANGED <<calls, wpc, last, arg, polling, plast, smpsched_on>>
    BY Zenon, <1>1, <1>2, <1>3, ProceedIs
<1>5. v \in Pool!Worker /\ seq \in [Pool!Worker -> Nat]
    BY Zenon, <1>1, <1>2 DEF PoolTypes
<1>6. /\ seq[v] \in Nat /\ seq' \in [Pool!Worker -> Nat] /\ seq'[v] = seq[v] + 1
      /\ \A w \in Pool!Worker : w # v => seq'[w] = seq[w]
    BY <1>2, <1>5
<1>7. PoolTypes'
    BY Zenon, <1>1, <1>2, <1>4, <1>6 DEF PoolTypes
<1>8. Stage'
    BY <1>1, <1>2, <1>4 DEF Stage, PostPcs
<1>9. \A w \in Pool!Worker : w # v =>
         (Posted(w)' <=> Posted(w)) /\ (Open(w)' <=> Open(w))
    BY <1>1, <1>2, <1>4 DEF Posted, Open, PostPcs
<1>10. ~Posted(v) /\ ~Open(v) /\ Posted(v)' /\ Open(v)'
    BY <1>1, <1>2, <1>4 DEF Posted, Open, PostPcs
<1>11. ASSUME NEW w \in Pool!Worker  PROVE Box(w)'
  <2>1. Box(w)
      BY <1>1
  <2>2. CASE w # v
    <3>1. (cur.c <= w \/ cur.c + 1 <= w => cur.c <= w) /\ w # cur.c
        BY <1>1, <2>2
    <3> QED  BY <1>1, <1>2, <1>4, <1>6, <1>9, <2>1, <2>2, <3>1 DEF Box, PostPcs
  <2>3. CASE w = v
    <3>1. ~ (cur.c + 1 <= w) /\ cur.c <= w
        BY <1>1, <2>3
    <3>2. seq[w] \in Nat /\ done[w] \in Nat /\ last[w] \in Nat /\ calls \in Nat
        BY <1>1, OneWorker
    <3> QED  BY SMTT(40), <1>2, <1>4, <1>6, <1>10, <2>1, <2>3, <3>1, <3>2 DEF Box, PostPcs, Working
  <2> QED  BY <2>2, <2>3
<1>12. Runs'
  <2>1. ASSUME cur.fn # -1, NEW w \in Pool!Worker
        PROVE  /\ cur.c + 1 <= w => ran[calls][w] = 0
               /\ Open(w)' /\ done[w] # seq'[w] /\ wpc[w] \notin {"res", "done"}
                     => ran[calls][w] = 0
    <3>1. CASE w = v
        BY <1>1, <1>2, <2>1, <3>1 DEF Runs, PostPcs
    <3>2. CASE w # v
      <4>1. cur.c + 1 <= w => cur.c <= w
          BY <1>1
      <4> QED  BY <1>1, <1>2, <1>6, <1>9, <2>1, <3>2, <4>1 DEF Runs, PostPcs
    <3> QED  BY <3>1, <3>2
  <2> QED  BY <1>1, <1>2, <1>4, <2>1 DEF Runs, PostPcs
<1>13. Summed'
  <2>1. ASSUME NEW w \in 0..(NCORES - 1)  PROVE Added(w)' <=> Added(w)
    <3>1. w = 0 \/ w \in Pool!Worker
        BY <1>1
    <3> QED  BY <1>1, <1>2, <1>4, <1>6, <1>9, <1>10, <3>1 DEF Added
  <2> QED  BY <1>1, <1>2, <1>4, <2>1, SumSame
<1> QED  BY <1>7, <1>8, <1>11, <1>12, <1>13 DEF PoolInv

\* The chunk of a core that is not there is run by the caller.
LEMMA PostOffline ==
    ASSUME PoolInv, Pool!post_offline("p")
    PROVE  PoolInv'
<1> PICK v \in Nat : v = cur.c
    BY CallerFacts
<1> DEFINE rs == IF cur.fn = -1 THEN << >> ELSE <<Pool!ChunkOf(cur, v)>>
<1>1. /\ PoolTypes /\ Stage /\ Runs /\ Summed /\ (\A w \in Pool!Worker : Box(w))
      /\ cur \in CallRec /\ cur.nc \in Nat /\ cur.c \in Nat /\ calls \in Nat /\ NCORES \in Nat
      /\ Pool!Worker = 1..(NCORES - 1)
      /\ (cur.c < cur.nc => cur.c \in Pool!Worker /\ cur.c + 1 \in 1..NCORES)
      /\ (pc # "idle" /\ cur.fn # -1 => cur.fn = calls /\ calls \in 1..(MaxCalls + 1))
      /\ << >> \in Seq(Pool!Chunk) /\ cur.total \o << >> = cur.total
    BY CallerFacts
<1>2. /\ pc = "post" /\ cur.c < cur.nc /\ ~online[v]
      /\ Pool!Proceed("p", "post", cur.c + 1, rs)
      /\ cur.fn = -1 => ran' = ran
      /\ cur.fn # -1 => Pool!Ran(cur.fn, v)
      /\ UNCHANGED <<online, fn, lo, hi, seq, done, res>>
    BY DEF Pool!post_offline, Pool!At, Pool!mailbox, Pool!Park, pc, cur
<1>3. v \in 0..(cur.nc - 1) /\ v \in Pool!Worker /\ v \in 0..(NCORES - 1)
    BY <1>1, <1>2
<1>4. Pool!ChunkOf(cur, v) \in Pool!Chunk
    BY <1>1, <1>3, ChunkIs
<1>5. rs \in Seq(Pool!Chunk) /\ "post" \in Places
    BY <1>1, <1>4 DEF Places, PostPcs
<1> HIDE DEF rs
<1>6. /\ pc' = "post" /\ cur'.c = cur.c + 1 /\ cur'.total = cur.total \o rs
      /\ cur'.fn = cur.fn /\ cur'.n = cur.n /\ cur'.nc = cur.nc /\ cur' \in CallRec
      /\ cpc' \in [{"p"} -> Places] /\ call' \in [{"p"} -> CallRec]
      /\ \A w : /\ Pool!Lo(cur, w)' = Pool!Lo(cur, w) /\ Pool!Hi(cur, w)' = Pool!Hi(cur, w)
                /\ Pool!ChunkOf(cur, w)' = Pool!ChunkOf(cur, w)
      /\ UNCHANGED <<calls, wpc, last, arg, polling, plast, smpsched_on>>
    BY Zenon, <1>1, <1>2, <1>5, ProceedIs
<1>7. wpc[v] = "held" /\ seq[v] = 0 /\ done[v] = 0
  <2>1. Box(v) /\ done[v] \in Nat
      BY <1>1, <1>3, OneWorker
  <2> QED  BY <1>2, <2>1 DEF Box
<1>8. /\ ran' \in [1..(MaxCalls + 1) -> [0..(NCORES - 1) -> Nat]]
      /\ \A k \in 1..(MaxCalls + 1), c \in 0..(NCORES - 1) :
            /\ ran'[k][c] <= 1 /\ (k > calls => ran'[k][c] = 0)
            /\ c # v => ran'[k][c] = ran[k][c]
  <2>1. CASE cur.fn = -1
      BY Zenon, <1>1, <1>2, <2>1 DEF Runs, PoolTypes
  <2>2. CASE cur.fn # -1
    <3>1. calls \in 1..(MaxCalls + 1) /\ Pool!Ran(calls, v) /\ ran[calls][v] = 0
        BY <1>1, <1>2, <1>3, <2>2 DEF Runs, PostPcs
    <3>2. /\ ran' \in [1..(MaxCalls + 1) -> [0..(NCORES - 1) -> Nat]]
          /\ ran'[calls][v] = 1
          /\ \A k2 \in 1..(MaxCalls + 1), c2 \in 0..(NCORES - 1) :
                k2 # calls \/ c2 # v => ran'[k2][c2] = ran[k2][c2]
        BY <1>1, <1>3, <3>1, RanBump
    <3>3. \A k \in 1..(MaxCalls + 1), c \in 0..(NCORES - 1) :
             ran[k][c] <= 1 /\ (k > calls => ran[k][c] = 0)
        BY Zenon, <1>1 DEF Runs
    <3> QED  BY SMTT(40), <1>1, <3>1, <3>2, <3>3
  <2> QED  BY <2>1, <2>2
<1>9. PoolTypes'
    BY Zenon, <1>1, <1>2, <1>6, <1>8 DEF PoolTypes
<1>10. Stage'
    BY <1>1, <1>2, <1>6 DEF Stage, PostPcs
<1>11. \A w \in Pool!Worker : w # v =>
         (Posted(w)' <=> Posted(w)) /\ (Open(w)' <=> Open(w))
    BY <1>1, <1>2, <1>6 DEF Posted, Open, PostPcs
<1>12. ~Posted(v) /\ Posted(v)' /\ ~Open(v)
    BY <1>1, <1>2, <1>6 DEF Posted, Open, PostPcs
<1>13. ASSUME NEW w \in Pool!Worker  PROVE Box(w)'
  <2>1. Box(w) /\ (cur.c + 1 <= w => cur.c <= w)
      BY <1>1
  <2>2. CASE w # v
      BY <1>1, <1>2, <1>6, <1>11, <2>1, <2>2 DEF Box, PostPcs
  <2>3. CASE w = v
      BY <1>1, <1>2, <1>6, <1>7, <2>1, <2>3 DEF Box, PostPcs, Working
  <2> QED  BY <2>2, <2>3
<1>14. Runs'
  <2>1. ASSUME cur.fn # -1
        PROVE  /\ ran'[calls][0] = 0
               /\ \A w \in Pool!Worker : cur.c + 1 <= w => ran'[calls][w] = 0
               /\ \A w \in Pool!Worker :
                    Open(w)' /\ done[w] # seq[w] /\ wpc[w] \notin {"res", "done"}
                       => ran'[calls][w] = 0
    <3>1. calls \in 1..(MaxCalls + 1) /\ 0 \in 0..(NCORES - 1) /\ 0 # v
        BY <1>1, <1>2, <1>3, <2>1
    <3>2. ran'[calls][0] = 0
        BY <1>1, <1>2, <1>8, <2>1, <3>1 DEF Runs, PostPcs
    <3>3. ASSUME NEW w \in Pool!Worker, w # v  PROVE ran'[calls][w] = ran[calls][w]
        BY <1>1, <1>8, <3>1, <3>3
    <3>4. ASSUME NEW w \in Pool!Worker, cur.c + 1 <= w  PROVE ran'[calls][w] = 0
      <4>1. w # v /\ cur.c <= w
          BY <1>1, <3>4
      <4> QED  BY Zenon, <1>1, <1>2, <2>1, <3>3, <4>1 DEF Runs, PostPcs
    <3>5. ASSUME NEW w \in Pool!Worker,
                 Open(w)' /\ done[w] # seq[w] /\ wpc[w] \notin {"res", "done"}
          PROVE  ran'[calls][w] = 0
      <4>1. w # v
          BY <1>7, <3>5
      <4> QED  BY <1>1, <1>11, <2>1, <3>3, <3>5, <4>1 DEF Runs
    <3> QED  BY <3>2, <3>4, <3>5
  <2>2. \A k \in 1..(MaxCalls + 1) : \A c \in 0..(NCORES - 1) :
           ran'[k][c] <= 1 /\ (k > calls => ran'[k][c] = 0)
      BY <1>8
  <2> QED  BY Zenon, <1>2, <1>6, <2>1, <2>2 DEF Runs, PostPcs
<1>15. Summed'
  <2>1. CASE cur.fn = -1
      BY <1>6, <2>1 DEF Summed
  <2>2. CASE cur.fn # -1
    <3>1. ASSUME NEW w \in 0..(NCORES - 1)  PROVE Added(w)' <=> (Added(w) \/ w = v)
      <4>1. w = 0 \/ w \in Pool!Worker
          BY <1>1
      <4> QED  BY <1>1, <1>2, <1>3, <1>6, <1>7, <1>11, <1>12, <4>1 DEF Added
    <3>2. ~Added(v)
        BY <1>1, <1>2, <1>3, <1>12 DEF Added
    <3>3. rs = <<Pool!ChunkOf(cur, v)>>
        BY <2>2 DEF rs
    <3> QED  BY Zenon, <1>1, <1>2, <1>3, <1>4, <1>6, <3>1, <3>2, <3>3, SumGrow
  <2> QED  BY <2>1, <2>2
<1> QED  BY <1>9, <1>10, <1>13, <1>14, <1>15 DEF PoolInv

\* Core 0 runs chunk 0, or starts to confirm that the workers are parked.
LEMMA OwnChunk ==
    ASSUME PoolInv, Pool!own_chunk("p")
    PROVE  PoolInv'
<1> DEFINE rs == IF cur.fn = -1 THEN << >> ELSE <<Pool!ChunkOf(cur, 0)>>
           place == IF cur.fn = -1 THEN "confirm" ELSE "collect"
<1>1. /\ PoolTypes /\ Stage /\ Runs /\ Summed /\ (\A w \in Pool!Worker : Box(w))
      /\ cur \in CallRec /\ cur.nc \in Nat /\ cur.c \in Nat /\ calls \in Nat /\ NCORES \in Nat
      /\ cur.nc \in 1..NCORES /\ Pool!Worker = 1..(NCORES - 1)
      /\ (pc # "idle" /\ cur.fn # -1 => cur.fn = calls /\ calls \in 1..(MaxCalls + 1))
      /\ << >> \in Seq(Pool!Chunk) /\ cur.total \o << >> = cur.total
    BY CallerFacts
<1>2. [fn |-> cur.fn, lo |-> 0, hi |-> IF cur.nc = 1 THEN cur.n ELSE cur.n \div cur.nc]
         = Pool!ChunkOf(cur, 0)
    BY <1>1, Tiles DEF Pool!ChunkOf
<1>3. /\ pc = "post" /\ cur.c = cur.nc
      /\ Pool!Proceed("p", place, 1, rs)
      /\ cur.fn = -1 => ran' = ran
      /\ cur.fn # -1 => Pool!Ran(cur.fn, 0)
      /\ UNCHANGED <<online, fn, lo, hi, seq, done, res>>
    BY <1>2 DEF Pool!own_chunk, Pool!At, Pool!mailbox, Pool!Park, pc, cur
<1>4. 0 \in 0..(cur.nc - 1) /\ 0 \in 0..(NCORES - 1) /\ 1 \in 1..NCORES
    BY <1>1
<1>5. Pool!ChunkOf(cur, 0) \in Pool!Chunk
    BY <1>1, <1>4, ChunkIs
<1>6. /\ rs \in Seq(Pool!Chunk) /\ place \in Places /\ place \in {"confirm", "collect"}
      /\ (place = "confirm" <=> cur.fn = -1)
    BY <1>1, <1>5 DEF Places, PostPcs
<1> HIDE DEF rs, place
<1>7. /\ pc' = place /\ cur'.c = 1 /\ cur'.total = cur.total \o rs
      /\ cur'.fn = cur.fn /\ cur'.n = cur.n /\ cur'.nc = cur.nc /\ cur' \in CallRec
      /\ cpc' \in [{"p"} -> Places] /\ call' \in [{"p"} -> CallRec]
      /\ \A w : /\ Pool!Lo(cur, w)' = Pool!Lo(cur, w) /\ Pool!Hi(cur, w)' = Pool!Hi(cur, w)
                /\ Pool!ChunkOf(cur, w)' = Pool!ChunkOf(cur, w)
      /\ UNCHANGED <<calls, wpc, last, arg, polling, plast, smpsched_on>>
    BY <1>1, <1>3, <1>4, <1>6, ProceedIs
<1>8. /\ ran' \in [1..(MaxCalls + 1) -> [0..(NCORES - 1) -> Nat]]
      /\ \A k \in 1..(MaxCalls + 1), c \in 0..(NCORES - 1) :
            /\ ran'[k][c] <= 1 /\ (k > calls => ran'[k][c] = 0)
            /\ c # 0 => ran'[k][c] = ran[k][c]
  <2>1. CASE cur.fn = -1
      BY <1>1, <1>3, <2>1 DEF Runs, PoolTypes
  <2>2. CASE cur.fn # -1
    <3>1. calls \in 1..(MaxCalls + 1) /\ Pool!Ran(calls, 0) /\ ran[calls][0] = 0
        BY <1>1, <1>3, <2>2 DEF Runs, PostPcs
    <3>2. /\ ran' \in [1..(MaxCalls + 1) -> [0..(NCORES - 1) -> Nat]]
          /\ ran'[calls][0] = 1
          /\ \A k2 \in 1..(MaxCalls + 1), c2 \in 0..(NCORES - 1) :
                k2 # calls \/ c2 # 0 => ran'[k2][c2] = ran[k2][c2]
        BY <1>1, <1>4, <3>1, RanBump
    <3>3. \A k \in 1..(MaxCalls + 1), c \in 0..(NCORES - 1) :
             ran[k][c] <= 1 /\ (k > calls => ran[k][c] = 0)
        BY <1>1 DEF Runs
    <3> QED  BY SMTT(40), <1>1, <3>1, <3>2, <3>3
  <2> QED  BY <2>1, <2>2
<1>9. PoolTypes'
    BY Zenon, <1>1, <1>3, <1>7, <1>8 DEF PoolTypes
<1>10. Stage'
    BY <1>1, <1>3, <1>6, <1>7 DEF Stage, PostPcs
<1>11. \A w \in Pool!Worker : (Posted(w)' <=> Posted(w)) /\ (Open(w)' <=> Open(w))
    BY <1>1, <1>3, <1>6, <1>7 DEF Posted, Open, PostPcs
<1>12. ASSUME NEW w \in Pool!Worker  PROVE Box(w)'
  <2>1. Box(w) /\ w >= 1
      BY <1>1
  <2> QED  BY <1>1, <1>3, <1>6, <1>7, <1>11, <2>1 DEF Box, PostPcs
<1>13. Runs'
  <2>1. ASSUME cur.fn # -1, NEW w \in Pool!Worker,
               Open(w)' /\ done[w] # seq[w] /\ wpc[w] \notin {"res", "done"}
        PROVE  ran'[calls][w] = 0
    <3>1. calls \in 1..(MaxCalls + 1) /\ w \in 0..(NCORES - 1) /\ w # 0
        BY <1>1, <1>3, <2>1
    <3>2. ran[calls][w] = 0
        BY <1>1, <1>11, <2>1 DEF Runs
    <3> QED  BY <1>8, <3>1, <3>2
  <2>2. \A k \in 1..(MaxCalls + 1) : \A c \in 0..(NCORES - 1) :
           ran'[k][c] <= 1 /\ (k > calls => ran'[k][c] = 0)
      BY <1>8
  <2> QED  BY <1>3, <1>6, <1>7, <2>1, <2>2 DEF Runs, PostPcs
<1>14. Summed'
  <2>1. CASE cur.fn = -1
      BY <1>7, <2>1 DEF Summed
  <2>2. CASE cur.fn # -1
    <3>1. ASSUME NEW w \in 0..(NCORES - 1)  PROVE Added(w)' <=> (Added(w) \/ w = 0)
      <4>1. w = 0 \/ (w \in Pool!Worker /\ w >= 1 /\ w # 0)
          BY <1>1
      <4>2. CASE w = 0
          BY <1>1, <1>3, <1>6, <1>7, <2>2, <4>2 DEF Added
      <4>3. CASE w \in Pool!Worker /\ w >= 1 /\ w # 0
          BY <1>1, <1>3, <1>6, <1>7, <1>11, <4>3 DEF Added
      <4> QED  BY <4>1, <4>2, <4>3
    <3>2. ~Added(0)
        BY <1>3 DEF Added
    <3>3. rs = <<Pool!ChunkOf(cur, 0)>>
        BY <2>2 DEF rs
    <3> QED  BY Zenon, <1>1, <1>3, <1>4, <1>5, <1>7, <3>1, <3>2, <3>3, SumGrow
  <2> QED  BY <2>1, <2>2
<1> QED  BY <1>9, <1>10, <1>12, <1>13, <1>14 DEF PoolInv

\* Core c is not there, or has answered, or is given up and its chunk run by core 0.
LEMMA CollectSteps ==
    ASSUME PoolInv,
           \/ Pool!collect_offline("p") \/ Pool!collect_done("p") \/ Pool!collect_timeout("p")
    PROVE  PoolInv'
<1> PICK v \in Nat : v = cur.c
    BY CallerFacts
<1>1. /\ PoolTypes /\ Stage /\ Runs /\ Summed /\ (\A w \in Pool!Worker : Box(w))
      /\ cur \in CallRec /\ cur.nc \in Nat /\ cur.c \in Nat /\ calls \in Nat /\ NCORES \in Nat
      /\ cur.c \in 1..NCORES /\ Pool!Worker = 1..(NCORES - 1)
      /\ (cur.c < cur.nc => cur.c \in Pool!Worker /\ cur.c + 1 \in 1..NCORES)
      /\ (pc # "idle" /\ cur.fn # -1 => cur.fn = calls /\ calls \in 1..(MaxCalls + 1))
      /\ << >> \in Seq(Pool!Chunk) /\ cur.total \o << >> = cur.total
    BY CallerFacts
<1>2. /\ pc = "collect" /\ v < cur.nc
      /\ UNCHANGED <<online, fn, lo, hi, seq, done>>
      /\ \/ /\ ~online[v] /\ Pool!Proceed("p", "collect", v + 1, << >>)
            /\ UNCHANGED <<res, ran>>
         \/ /\ Pool!Proceed("p", "read", v, << >>)
            /\ \/ done[v] = seq[v] /\ UNCHANGED <<res, ran>>
               \/ /\ done[v] # seq[v] /\ Pool!SpinsOut(v) /\ Pool!Ran(cur.fn, v)
                  /\ res' = [res EXCEPT ![v] = Pool!ChunkOf(cur, v)]
    BY DEF Pool!collect_offline, Pool!collect_done, Pool!collect_timeout, Pool!At, Pool!mailbox,
           pc, cur
<1>3. /\ v \in 0..(cur.nc - 1) /\ v \in Pool!Worker /\ v \in 0..(NCORES - 1)
      /\ v \in 1..NCORES /\ v + 1 \in 1..NCORES
    BY <1>1, <1>2
<1>4. cur.fn # -1 /\ cur.fn = calls /\ calls \in 1..(MaxCalls + 1)
    BY <1>1, <1>2 DEF Stage
<1>5. PICK place \in {"collect", "read"}, c \in {v, v + 1} :
         Pool!Proceed("p", place, c, << >>) /\ (place = "read" <=> c = v)
    BY <1>2
<1>6. place \in Places /\ c \in 1..NCORES
    BY <1>3 DEF Places
<1>7. /\ pc' = place /\ cur'.c = c /\ cur'.total = cur.total \o << >>
      /\ cur'.fn = cur.fn /\ cur'.n = cur.n /\ cur'.nc = cur.nc /\ cur' \in CallRec
      /\ cpc' \in [{"p"} -> Places] /\ call' \in [{"p"} -> CallRec]
      /\ \A w : /\ Pool!Lo(cur, w)' = Pool!Lo(cur, w) /\ Pool!Hi(cur, w)' = Pool!Hi(cur, w)
                /\ Pool!ChunkOf(cur, w)' = Pool!ChunkOf(cur, w)
      /\ UNCHANGED <<calls, wpc, last, arg, polling, plast, smpsched_on>>
    BY Zenon, <1>1, <1>5, <1>6, ProceedIs
<1>8. Pool!ChunkOf(cur, v) \in Pool!Chunk
    BY <1>1, <1>3, ChunkIs
<1>9. /\ Box(v) /\ seq[v] \in Nat /\ done[v] \in Nat /\ last[v] \in Nat
      /\ wpc[v] \in WorkerPlaces /\ ~polling[v] /\ Pool!Seen(v) = last[v]
    BY Zenon, <1>1, <1>3, OneWorker
<1>10. Open(v) /\ Posted(v) /\ ~Open(v)' /\ Posted(v)'
    BY <1>1, <1>2, <1>5, <1>7 DEF Open, Posted, PostPcs
<1>11. \A w \in Pool!Worker : w # v => (Posted(w)' <=> Posted(w)) /\ (Open(w)' <=> Open(w))
    BY <1>1, <1>2, <1>5, <1>7 DEF Open, Posted, PostPcs
<1>12. /\ wpc[v] \notin Working /\ ~(wpc[v] = "wait" /\ last[v] # seq[v])
       /\ seq[v] = 0 => res'[v] = res[v]
       /\ seq[v] > 0 /\ place = "read" => res'[v] = Pool!ChunkOf(cur, v)
       /\ place = "collect" => seq[v] = 0 /\ done[v] = 0
       /\ res' \in [Pool!Worker -> Pool!Chunk]
       /\ \A w \in Pool!Worker : w # v => res'[w] = res[w]
  <2>0. res \in [Pool!Worker -> Pool!Chunk]
      BY <1>1 DEF PoolTypes
  <2>1. CASE ~online[v] /\ Pool!Proceed("p", "collect", v + 1, << >>) /\ UNCHANGED <<res, ran>>
    <3>1. pc' = "collect"
        BY Zenon, <1>1, <1>3, <2>1, ProceedIs DEF Places
    <3>2. wpc[v] = "held" /\ seq[v] = 0 /\ done[v] = 0
        BY <1>2, <1>9, <2>1 DEF Box
    <3> QED  BY <1>7, <2>0, <2>1, <3>1, <3>2 DEF Working
  <2>2. CASE done[v] = seq[v] /\ Pool!Proceed("p", "read", v, << >>) /\ UNCHANGED <<res, ran>>
    <3>1. pc' = "read"
        BY Zenon, <1>1, <1>3, <2>2, ProceedIs DEF Places
    <3> QED  BY <1>7, <1>9, <1>10, <2>0, <2>2, <3>1 DEF Box
  <2>3. CASE /\ done[v] # seq[v] /\ Pool!SpinsOut(v) /\ Pool!Proceed("p", "read", v, << >>)
             /\ res' = [res EXCEPT ![v] = Pool!ChunkOf(cur, v)]
    <3>1. pc' = "read"
        BY Zenon, <1>1, <1>3, <2>3, ProceedIs DEF Places
    <3>2. wpc[v] \notin Working /\ ~(wpc[v] = "wait" /\ last[v] # seq[v])
        BY <1>9, <2>3 DEF Pool!SpinsOut, Pool!Busy, Working
    <3>3. seq[v] # 0
        BY <1>9, <2>3 DEF Box
    <3> QED  BY <1>3, <1>7, <1>8, <2>0, <2>3, <3>1, <3>2, <3>3
  <2> QED  BY <1>2, <2>1, <2>2, <2>3
<1>13. /\ ran' \in [1..(MaxCalls + 1) -> [0..(NCORES - 1) -> Nat]]
       /\ \A k \in 1..(MaxCalls + 1), d \in 0..(NCORES - 1) :
            /\ ran'[k][d] <= 1 /\ (k > calls => ran'[k][d] = 0)
            /\ d # v => ran'[k][d] = ran[k][d]
  <2>1. CASE ran' = ran
      BY Zenon, <1>1, <2>1 DEF Runs, PoolTypes
  <2>2. CASE done[v] # seq[v] /\ Pool!Ran(cur.fn, v)
    <3>1. Pool!Ran(calls, v) /\ ran[calls][v] = 0
        BY Zenon, <1>1, <1>3, <1>4, <1>10, <1>12, <2>2 DEF Runs, Working
    <3>2. /\ ran' \in [1..(MaxCalls + 1) -> [0..(NCORES - 1) -> Nat]]
          /\ ran'[calls][v] = 1
          /\ \A k2 \in 1..(MaxCalls + 1), c2 \in 0..(NCORES - 1) :
                k2 # calls \/ c2 # v => ran'[k2][c2] = ran[k2][c2]
        BY SMTT(40), <1>1, <1>3, <1>4, <3>1, RanBump
    <3>3. \A k \in 1..(MaxCalls + 1), d \in 0..(NCORES - 1) :
             ran[k][d] <= 1 /\ (k > calls => ran[k][d] = 0)
        BY Zenon, <1>1 DEF Runs
    <3> QED  BY SMTT(40), <1>1, <1>4, <3>1, <3>2, <3>3
  <2> QED  BY <1>2, <2>1, <2>2
<1>14. PoolTypes'
    BY Zenon, <1>1, <1>2, <1>7, <1>12, <1>13 DEF PoolTypes
<1>15. Stage'
    BY SMTT(40), <1>1, <1>2, <1>5, <1>7 DEF Stage, PostPcs
<1>16. ASSUME NEW w \in Pool!Worker  PROVE Box(w)'
  <2>1. Box(w)
      BY <1>1
  <2>2. CASE w # v
    <3>1. res'[w] = res[w]
        BY <1>12, <2>2
    <3>2. ~(pc' = "read" /\ w = cur'.c)
        BY <1>5, <1>7, <2>2
    <3> QED  BY <1>2, <1>7, <1>11, <2>1, <2>2, <3>1, <3>2 DEF Box, PostPcs
  <2>3. CASE w = v
      BY <1>2, <1>7, <1>9, <1>10, <1>12, <2>1, <2>3 DEF Box, PostPcs, Working
  <2> QED  BY <2>2, <2>3
<1>17. Runs'
  <2>1. ASSUME NEW w \in Pool!Worker,
               Open(w)' /\ done[w] # seq[w] /\ wpc[w] \notin {"res", "done"}
        PROVE  ran'[calls][w] = 0
    <3>1. w # v /\ w \in 0..(NCORES - 1)
        BY <1>1, <1>10, <2>1
    <3>2. ran[calls][w] = 0
        BY <1>1, <1>4, <1>11, <2>1, <3>1 DEF Runs
    <3> QED  BY <1>4, <1>13, <3>1, <3>2
  <2>2. \A k \in 1..(MaxCalls + 1) : \A d \in 0..(NCORES - 1) :
           ran'[k][d] <= 1 /\ (k > calls => ran'[k][d] = 0)
      BY <1>13
  <2> QED  BY <1>2, <1>7, <2>1, <2>2 DEF Runs, PostPcs
<1>18. Summed'
  <2>1. ASSUME NEW w \in 0..(NCORES - 1)  PROVE Added(w)' <=> Added(w)
    <3>1. w = 0 \/ (w \in Pool!Worker /\ w >= 1 /\ w # 0)
        BY <1>1
    <3>2. CASE w = 0
        BY <1>2, <1>7, <3>2 DEF Added
    <3>3. CASE w \in Pool!Worker /\ w >= 1 /\ w # v
        BY <1>1, <1>2, <1>5, <1>7, <1>11, <3>3 DEF Added
    <3>4. CASE w = v
        BY Zenon, <1>1, <1>2, <1>3, <1>5, <1>7, <1>10, <1>12, <3>4 DEF Added
    <3> QED  BY <3>1, <3>2, <3>3, <3>4
  <2> QED  BY <1>1, <1>2, <1>7, <2>1, SumSame
<1> QED  BY <1>14, <1>15, <1>16, <1>17, <1>18 DEF PoolInv

\* The answer of core c is added to the total.
LEMMA ReadStep ==
    ASSUME PoolInv, Pool!read_res("p")
    PROVE  PoolInv'
<1> PICK v \in Nat : v = cur.c
    BY CallerFacts
<1>1. /\ PoolTypes /\ Stage /\ Runs /\ Summed /\ (\A w \in Pool!Worker : Box(w))
      /\ cur \in CallRec /\ cur.nc \in Nat /\ cur.c \in Nat /\ NCORES \in Nat
      /\ Pool!Worker = 1..(NCORES - 1)
      /\ (cur.c < cur.nc => cur.c \in Pool!Worker /\ cur.c + 1 \in 1..NCORES)
    BY CallerFacts
<1>2. /\ pc = "read" /\ v < cur.nc /\ Pool!Proceed("p", "collect", v + 1, <<res[v]>>)
      /\ UNCHANGED <<online, fn, lo, hi, seq, done, res, ran>>
    BY <1>1 DEF Pool!read_res, Pool!At, Pool!mailbox, pc, cur, Stage
<1>3. /\ v \in 0..(cur.nc - 1) /\ v \in Pool!Worker /\ v \in 0..(NCORES - 1) /\ v >= 1
      /\ v + 1 \in 1..NCORES /\ "collect" \in Places
    BY <1>1, <1>2 DEF Places
<1>4. /\ Box(v) /\ seq[v] \in Nat /\ res[v] \in Pool!Chunk
    BY <1>1, <1>3, OneWorker
<1>5. <<res[v]>> \in Seq(Pool!Chunk)
    BY <1>4
<1>6. /\ pc' = "collect" /\ cur'.c = v + 1 /\ cur'.total = cur.total \o <<res[v]>>
      /\ cur'.fn = cur.fn /\ cur'.n = cur.n /\ cur'.nc = cur.nc /\ cur' \in CallRec
      /\ cpc' \in [{"p"} -> Places] /\ call' \in [{"p"} -> CallRec]
      /\ \A w : /\ Pool!Lo(cur, w)' = Pool!Lo(cur, w) /\ Pool!Hi(cur, w)' = Pool!Hi(cur, w)
                /\ Pool!ChunkOf(cur, w)' = Pool!ChunkOf(cur, w)
      /\ UNCHANGED <<calls, wpc, last, arg, polling, plast, smpsched_on>>
    BY Zenon, <1>1, <1>2, <1>3, <1>5, ProceedIs
<1>7. PoolTypes'
    BY Zenon, <1>1, <1>2, <1>6 DEF PoolTypes
<1>8. Stage'
    BY <1>1, <1>2, <1>6 DEF Stage, PostPcs
<1>9. \A w \in Pool!Worker : (Posted(w)' <=> Posted(w)) /\ (Open(w)' <=> Open(w))
    BY <1>1, <1>2, <1>6 DEF Posted, Open, PostPcs
<1>10. ASSUME NEW w \in Pool!Worker  PROVE Box(w)'
  <2>1. Box(w)
      BY <1>1
  <2> QED  BY <1>1, <1>2, <1>6, <1>9, <2>1 DEF Box, PostPcs
<1>11. Runs'
    BY Zenon, <1>1, <1>2, <1>6, <1>9 DEF Runs, PostPcs
<1>12. Summed'
  <2>1. ASSUME NEW w \in 0..(NCORES - 1)
        PROVE  /\ w # v => (Added(w)' <=> Added(w))
               /\ w = v => Added(w)' /\ (Added(w) <=> seq[v] = 0)
    <3>1. w = 0 \/ (w \in Pool!Worker /\ w >= 1 /\ w # 0)
        BY <1>1
    <3>2. CASE w = 0
        BY <1>2, <1>3, <1>6, <3>2 DEF Added
    <3>3. CASE w \in Pool!Worker /\ w >= 1 /\ w # v
        BY <1>1, <1>2, <1>6, <1>9, <3>3 DEF Added
    <3>4. CASE w = v
        BY <1>1, <1>2, <1>3, <1>6, <3>4 DEF Added, Posted, PostPcs
    <3> QED  BY <3>1, <3>2, <3>3, <3>4
  <2>2. CASE seq[v] = 0
    <3>1. ~Counts(res[v])
        BY <1>4, <2>2, PoolConstants DEF Box
    <3>2. \A w \in 0..(NCORES - 1) : Added(w)' <=> Added(w)
        BY <2>1, <2>2
    <3> QED  BY Zenon, <1>1, <1>2, <1>3, <1>4, <1>6, <3>1, <3>2, SumGrow
  <2>3. CASE seq[v] # 0
    <3>1. res[v] = Pool!ChunkOf(cur, v)
        BY <1>2, <1>4, <2>3 DEF Box
    <3>2. ~Added(v) /\ \A w \in 0..(NCORES - 1) : Added(w)' <=> (Added(w) \/ w = v)
        BY <1>3, <2>1, <2>3
    <3> QED  BY Zenon, <1>1, <1>2, <1>3, <1>4, <1>6, <3>1, <3>2, SumGrow
  <2> QED  BY <2>2, <2>3
<1> QED  BY <1>7, <1>8, <1>10, <1>11, <1>12 DEF PoolInv

\* The call is complete, or the kernel is about to be overwritten.
LEMMA FinishSteps ==
    ASSUME PoolInv, Pool!return("p") \/ Pool!chainload_stub("p")
    PROVE  PoolInv'
<1> DEFINE place == IF pc = "collect" THEN "ret" ELSE "gone"
<1>1. /\ PoolTypes /\ Stage /\ Runs /\ Summed /\ (\A w \in Pool!Worker : Box(w))
      /\ cur.nc \in Nat /\ cur.c \in Nat /\ cur.c \in 1..NCORES
      /\ << >> \in Seq(Pool!Chunk) /\ cur.total \o << >> = cur.total
    BY CallerFacts
<1>2. /\ pc \in {"collect", "confirm"} /\ cur.c = cur.nc /\ Pool!Proceed("p", place, cur.c, << >>)
      /\ UNCHANGED <<online, fn, lo, hi, seq, done, res, ran>>
    BY <1>1 DEF Pool!return, Pool!chainload_stub, Pool!At, Pool!mailbox, pc, cur
<1>3. place \in Places /\ place = (IF pc = "collect" THEN "ret" ELSE "gone")
    BY DEF Places
<1> HIDE DEF place
<1>4. /\ pc' = place /\ cur'.c = cur.c /\ cur'.total = cur.total \o << >>
      /\ cur'.fn = cur.fn /\ cur'.n = cur.n /\ cur'.nc = cur.nc /\ cur' \in CallRec
      /\ cpc' \in [{"p"} -> Places] /\ call' \in [{"p"} -> CallRec]
      /\ \A w : /\ Pool!Lo(cur, w)' = Pool!Lo(cur, w) /\ Pool!Hi(cur, w)' = Pool!Hi(cur, w)
                /\ Pool!ChunkOf(cur, w)' = Pool!ChunkOf(cur, w)
      /\ UNCHANGED <<calls, wpc, last, arg, polling, plast, smpsched_on>>
    BY Zenon, <1>1, <1>2, <1>3, ProceedIs
<1>5. PoolTypes'
    BY <1>1, <1>2, <1>4 DEF PoolTypes
<1>6. Stage'
    BY <1>1, <1>2, <1>3, <1>4 DEF Stage, PostPcs
<1>7. \A w \in Pool!Worker : w \in Nat
    BY PoolConstants
<1>8. \A w \in Pool!Worker : (Posted(w)' <=> Posted(w)) /\ ~Open(w)' /\ ~Open(w)
    BY <1>1, <1>2, <1>3, <1>4, <1>7 DEF Posted, Open, PostPcs
<1>9. ASSUME NEW w \in Pool!Worker  PROVE Box(w)'
  <2>1. Box(w) /\ (pc = "confirm" /\ cur.c <= w => ~(w < cur.nc))
      BY <1>1, <1>2, <1>7
  <2>2. pc = "confirm" => cur.nc = NCORES /\ ~(cur.c <= w)
    <3>1. w < NCORES /\ NCORES \in Nat
        BY PoolConstants
    <3> QED  BY <1>1, <1>2, <1>7, <3>1 DEF Stage
  <2> QED  BY <1>1, <1>2, <1>3, <1>4, <1>8, <2>1, <2>2 DEF Box, PostPcs
<1>10. Runs'
    BY <1>1, <1>2, <1>3, <1>4, <1>8 DEF Runs, PostPcs
<1>11. Summed'
  <2>1. CASE cur.fn = -1
      BY <1>4, <2>1 DEF Summed
  <2>2. CASE cur.fn # -1
    <3>1. pc = "collect" /\ pc' = "ret"
        BY <1>1, <1>2, <1>3, <1>4, <2>2 DEF Stage
    <3>2. \A w : Added(w)' <=> Added(w)
        BY <1>2, <1>4, <3>1 DEF Added, Posted, PostPcs
    <3> QED  BY <1>1, <1>4, <3>1, <3>2, SumSame
  <2> QED  BY <2>1, <2>2
<1> QED  BY <1>5, <1>6, <1>9, <1>10, <1>11 DEF PoolInv

\* Core c is off or given up.
LEMMA ConfirmStep ==
    ASSUME PoolInv, Pool!confirm("p")
    PROVE  PoolInv'
<1> PICK v \in Nat : v = cur.c
    BY CallerFacts
<1>1. /\ PoolTypes /\ Stage /\ Runs /\ Summed /\ (\A w \in Pool!Worker : Box(w))
      /\ cur.nc \in Nat /\ cur.c \in Nat /\ NCORES \in Nat /\ Pool!Worker = 1..(NCORES - 1)
      /\ (cur.c < cur.nc => cur.c \in Pool!Worker /\ cur.c + 1 \in 1..NCORES)
      /\ << >> \in Seq(Pool!Chunk) /\ cur.total \o << >> = cur.total
    BY CallerFacts
<1>2. /\ pc = "confirm" /\ v < cur.nc /\ cur.fn = -1
      /\ Pool!Proceed("p", "confirm", v + 1, << >>)
      /\ online[v] => wpc[v] = "parked" \/ Pool!SpinsOut(v)
      /\ online' = [online EXCEPT ![v] = FALSE]
      /\ UNCHANGED <<fn, lo, hi, seq, done, res, ran>>
    BY <1>1 DEF Pool!confirm, Pool!At, Pool!mailbox, pc, cur, Stage
<1>3. v \in Pool!Worker /\ v + 1 \in 1..NCORES /\ "confirm" \in Places
    BY <1>1, <1>2 DEF Places
<1>4. /\ pc' = "confirm" /\ cur'.c = v + 1 /\ cur'.total = cur.total \o << >>
      /\ cur'.fn = cur.fn /\ cur'.n = cur.n /\ cur'.nc = cur.nc /\ cur' \in CallRec
      /\ cpc' \in [{"p"} -> Places] /\ call' \in [{"p"} -> CallRec]
      /\ \A w : /\ Pool!Lo(cur, w)' = Pool!Lo(cur, w) /\ Pool!Hi(cur, w)' = Pool!Hi(cur, w)
                /\ Pool!ChunkOf(cur, w)' = Pool!ChunkOf(cur, w)
      /\ UNCHANGED <<calls, wpc, last, arg, polling, plast, smpsched_on>>
    BY Zenon, <1>1, <1>2, <1>3, ProceedIs
<1>5. online \in [Pool!Worker -> BOOLEAN]
    BY <1>1 DEF PoolTypes
<1>6. /\ online' \in [Pool!Worker -> BOOLEAN] /\ online'[v] = FALSE
      /\ \A w \in Pool!Worker : w # v => online'[w] = online[w]
    BY <1>2, <1>3, <1>5
<1>7. PoolTypes'
    BY Zenon, <1>1, <1>2, <1>4, <1>6 DEF PoolTypes
<1>8. Stage'
    BY <1>1, <1>2, <1>4 DEF Stage, PostPcs
<1>9. \A w \in Pool!Worker : w # v => (Posted(w)' <=> Posted(w)) /\ (Open(w)' <=> Open(w))
    BY <1>1, <1>2, <1>4 DEF Posted, Open, PostPcs
<1>10. Posted(v) /\ Posted(v)' /\ ~Open(v)'
    BY <1>1, <1>2, <1>4 DEF Posted, Open, PostPcs
<1>11. wpc[v] \notin Working /\ ~(wpc[v] = "wait" /\ last[v] # seq[v])
  <2>1. Box(v) /\ ~polling[v] /\ Pool!Seen(v) = last[v] /\ cur.c <= v
      BY <1>1, <1>3, OneWorker
  <2>2. CASE ~online[v]
      BY <1>2, <2>1, <2>2 DEF Box, Working
  <2>3. CASE online[v]
      BY <1>2, <2>1, <2>3 DEF Pool!SpinsOut, Pool!Busy, Working
  <2> QED  BY <2>2, <2>3
<1>12. ASSUME NEW w \in Pool!Worker  PROVE Box(w)'
  <2>1. Box(w) /\ (v + 1 <= w => cur.c <= w)
      BY <1>1
  <2>2. CASE w # v
    <3>1. online'[w] = online[w]
        BY <1>6, <2>2
    <3> QED  BY <1>2, <1>4, <1>9, <2>1, <2>2, <3>1 DEF Box, PostPcs
  <2>3. CASE w = v
    <3>1. ~(v + 1 <= w)
        BY <2>3
    <3> QED  BY <1>2, <1>4, <1>6, <1>10, <1>11, <2>1, <2>3, <3>1 DEF Box, PostPcs, Working
  <2> QED  BY <2>2, <2>3
<1>13. Runs'
    BY Zenon, <1>1, <1>2, <1>4 DEF Runs, PostPcs
<1>14. Summed'
    BY <1>2, <1>4 DEF Summed
<1> QED  BY <1>7, <1>8, <1>12, <1>13, <1>14 DEF PoolInv

\* The call returns to its caller.
LEMMA ReturnedStep ==
    ASSUME PoolInv, Pool!returned("p")
    PROVE  PoolInv'
<1>1. /\ PoolTypes /\ Stage /\ Runs /\ (\A w \in Pool!Worker : Box(w))
      /\ cur.nc \in Nat /\ cur.c \in Nat /\ NCORES \in Nat /\ << >> \in Seq(Pool!Chunk)
    BY CallerFacts
<1>2. /\ pc = "ret" /\ cpc' = [cpc EXCEPT !["p"] = "idle"]
      /\ call' = [call EXCEPT !["p"] = Pool!NoCall]
      /\ UNCHANGED <<online, fn, lo, hi, seq, done, res, calls, wpc, last, arg, polling, plast,
                     smpsched_on, ran>>
    BY DEF Pool!returned, Pool!At, Pool!mailbox, Pool!worker, Pool!polled, pc
<1>3. /\ Pool!NoCall \in CallRec /\ Pool!NoCall.c = 1 /\ Pool!NoCall.nc = 1
  <2>1. /\ 0 \in {-1} \cup (0..MaxCalls) /\ 0 \in 0..Pool!MaxSize /\ 1 \in 1..NCORES
      BY PoolConstants
  <2> QED  BY <1>1, <2>1 DEF Pool!NoCall, CallRec
<1>4. call \in [{"p"} -> CallRec] /\ cpc \in [{"p"} -> Places] /\ "idle" \in Places
    BY <1>1 DEF PoolTypes, Places
<1>5. /\ pc' = "idle" /\ cur' = Pool!NoCall
      /\ cpc' \in [{"p"} -> Places] /\ call' \in [{"p"} -> CallRec]
    BY <1>2, <1>3, <1>4 DEF pc, cur
<1>6. PoolTypes'
    BY Zenon, <1>1, <1>2, <1>5 DEF PoolTypes
<1>7. Stage'
    BY <1>3, <1>5 DEF Stage, PostPcs
<1>8. \A w : ~Posted(w)' /\ ~Open(w)' /\ ~Open(w)
    BY <1>2, <1>5 DEF Posted, Open
<1>9. ASSUME NEW w \in Pool!Worker  PROVE Box(w)'
  <2>1. Box(w)
      BY <1>1
  <2> QED  BY <1>2, <1>5, <1>8, <2>1 DEF Box, PostPcs, Working
<1>10. Runs'
    BY <1>1, <1>2, <1>5, <1>8 DEF Runs, PostPcs
<1>11. Summed'
    BY <1>5 DEF Summed
<1> QED  BY <1>6, <1>7, <1>9, <1>10, <1>11 DEF PoolInv

\* A call begins.
LEMMA BeginSteps ==
    ASSUME PoolInv, Pool!smp_parallel_sum("p") \/ Pool!kernel_chainload("p")
    PROVE  PoolInv'
<1>1. /\ PoolTypes /\ Stage /\ Runs /\ (\A w \in Pool!Worker : Box(w))
      /\ calls \in Nat /\ NCORES \in Nat /\ << >> \in Seq(Pool!Chunk)
    BY CallerFacts
<1>2. /\ NCORES > 1 /\ MaxCalls \in Nat /\ Pool!MaxSize \in Nat /\ Pool!Worker = 1..(NCORES - 1)
      /\ \A n \in Sizes : n \in Int /\ n <= Pool!MaxSize
    BY PoolConstants
<1>3. /\ pc = "idle" /\ calls' = calls + 1 /\ calls <= MaxCalls
      /\ cpc' = [cpc EXCEPT !["p"] = "post"]
      /\ UNCHANGED <<online, fn, lo, hi, seq, done, res, wpc, last, arg, polling, plast,
                     smpsched_on, ran>>
    BY <1>1, <1>2 DEF Pool!smp_parallel_sum, Pool!kernel_chainload, Pool!MayEnter, Pool!At,
                      Pool!mailbox, Pool!worker, Pool!polled, pc
<1>4. PICK new \in CallRec :
         /\ call' = [call EXCEPT !["p"] = new] /\ new.c = 1 /\ new.total = << >>
         /\ new.fn = calls + 1 \/ (new.fn = -1 /\ new.nc = NCORES)
  <2>1. CASE Pool!smp_parallel_sum("p")
    <3>1. PICK n \in Sizes, ncores \in 0..(NCORES + 1) :
            call' = [call EXCEPT !["p"] =
                       [fn |-> calls + 1, n |-> IF n < 0 THEN 0 ELSE n, c |-> 1, total |-> << >>,
                        nc |-> IF ncores < 1 THEN 1 ELSE IF ncores > NCORES THEN NCORES
                                                    ELSE ncores]]
        BY Zenon, <2>1 DEF Pool!smp_parallel_sum
    <3> DEFINE m == IF n < 0 THEN 0 ELSE n
               k == IF ncores < 1 THEN 1 ELSE IF ncores > NCORES THEN NCORES ELSE ncores
    <3>2. m \in 0..Pool!MaxSize
        BY <1>2
    <3>3. k \in 1..NCORES /\ 1 \in 1..NCORES
        BY <1>1, <1>2
    <3>4. calls + 1 \in {-1} \cup (0..MaxCalls)
        BY <1>1, <1>2, <2>1 DEF Pool!smp_parallel_sum
    <3> HIDE DEF m, k
    <3> DEFINE r == [fn |-> calls + 1, n |-> m, c |-> 1, total |-> << >>, nc |-> k]
    <3>5. r \in CallRec /\ r.c = 1 /\ r.total = << >> /\ r.fn = calls + 1
        BY <1>1, <3>2, <3>3, <3>4 DEF CallRec
    <3>6. call' = [call EXCEPT !["p"] = r]
        BY <3>1 DEF m, k
    <3> QED  BY Zenon, <3>5, <3>6
  <2>2. CASE Pool!kernel_chainload("p")
    <3> DEFINE r == [Pool!NoCall EXCEPT !.fn = Pool!Park, !.nc = NCORES]
    <3>1. /\ -1 \in {-1} \cup (0..MaxCalls) /\ 0 \in {-1} \cup (0..MaxCalls)
          /\ 0 \in 0..Pool!MaxSize /\ 1 \in 1..NCORES /\ NCORES \in 1..NCORES
        BY <1>1, <1>2
    <3>2. /\ Pool!NoCall \in CallRec /\ Pool!NoCall.c = 1 /\ Pool!NoCall.total = << >>
        BY <1>1, <3>1 DEF Pool!NoCall, CallRec
    <3>3. r \in CallRec /\ r.c = 1 /\ r.total = << >> /\ r.fn = -1 /\ r.nc = NCORES
        BY Zenon, <3>1, <3>2 DEF CallRec, Pool!Park
    <3>4. call' = [call EXCEPT !["p"] = r]
        BY <2>2 DEF Pool!kernel_chainload
    <3> QED  BY Zenon, <3>3, <3>4
  <2> QED  BY <2>1, <2>2
<1>5. call \in [{"p"} -> CallRec] /\ cpc \in [{"p"} -> Places] /\ "post" \in Places
    BY <1>1 DEF PoolTypes, Places, PostPcs
<1>6. /\ pc' = "post" /\ cur' = new
      /\ cpc' \in [{"p"} -> Places] /\ call' \in [{"p"} -> CallRec]
    BY <1>3, <1>4, <1>5 DEF pc, cur
<1>7. calls' \in 1..(MaxCalls + 1) /\ calls' \in 0..(MaxCalls + 1)
    BY <1>1, <1>2, <1>3
<1>8. PoolTypes'
    BY <1>1, <1>3, <1>6, <1>7 DEF PoolTypes
<1>9. Stage'
  <2>1. new.nc \in 1..NCORES
      BY DEF CallRec
  <2>2. cur'.c <= cur'.nc /\ calls' >= 1
      BY <1>1, <1>3, <1>4, <1>6, <2>1
  <2> QED  BY <1>3, <1>4, <1>6, <2>2 DEF Stage, PostPcs
<1>10. \A w \in Pool!Worker : ~Posted(w)' /\ ~Open(w)' /\ ~Open(w)
  <2>1. \A w \in Pool!Worker : ~(w < 1)
      BY <1>1, <1>2
  <2> QED  BY <1>3, <1>4, <1>6, <2>1 DEF Posted, Open, PostPcs
<1>11. ASSUME NEW w \in Pool!Worker  PROVE Box(w)'
  <2>1. Box(w) /\ seq[w] \in Nat /\ done[w] \in Nat /\ last[w] \in Nat
      BY <1>1, OneWorker
  <2>2. seq[w] <= calls' /\ seq[w] < calls'
      BY <1>1, <1>3, <2>1 DEF Box
  <2> QED  BY <1>3, <1>6, <1>10, <2>1, <2>2 DEF Box, PostPcs, Working
<1>12. Runs'
  <2>1. \A k \in 1..(MaxCalls + 1) : \A c \in 0..(NCORES - 1) :
            ran[k][c] <= 1 /\ (k > calls => ran[k][c] = 0)
      BY <1>1 DEF Runs
  <2>2. ASSUME NEW k \in 1..(MaxCalls + 1), NEW c \in 0..(NCORES - 1)
        PROVE  ran'[k][c] <= 1 /\ (k > calls' => ran'[k][c] = 0)
    <3>1. k > calls' => k > calls
        BY <1>1, <1>2, <1>3
    <3> QED  BY <1>3, <2>1, <3>1
  <2>3. ASSUME NEW c \in 0..(NCORES - 1)  PROVE ran'[calls'][c] = 0
    <3>1. calls' > calls
        BY <1>1, <1>3
    <3> QED  BY <1>3, <1>7, <2>1, <3>1
  <2>4. 0 \in 0..(NCORES - 1) /\ \A w \in Pool!Worker : w \in 0..(NCORES - 1)
      BY <1>1, <1>2
  <2> QED  BY <2>2, <2>3, <2>4 DEF Runs
<1>13. Summed'
  <2>1. Len(cur'.total) = 0
      BY <1>4, <1>6
  <2>2. \A i \in 1..Len(cur'.total) : FALSE
      BY <2>1
  <2>3. ASSUME NEW w \in 0..(NCORES - 1)  PROVE ~Added(w)'
    <3>1. w = 0 \/ w \in Pool!Worker
        BY <1>1, <1>2
    <3> QED  BY <1>6, <1>10, <3>1 DEF Added
  <2> QED  BY <2>2, <2>3 DEF Summed
<1> QED  BY <1>8, <1>9, <1>11, <1>12, <1>13 DEF PoolInv

\* Every step of the pool.
LEMMA PoolSteps ==
    ASSUME PoolInv, Pool!Next
    PROVE  PoolInv'
<1>1. CASE Pool!smp_init
  <2>1. UNCHANGED <<online, fn, lo, hi, res, seq, done, cpc, call, calls, wpc, last, arg, polling,
                    plast, smpsched_on, ran>>
      BY <1>1 DEF Pool!smp_init, Pool!mailbox, Pool!caller, Pool!worker, Pool!polled
  <2>2. pc' = pc /\ cur' = cur
      BY <2>1 DEF pc, cur
  <2>3. \A w : (Posted(w)' <=> Posted(w)) /\ (Open(w)' <=> Open(w)) /\ (Added(w)' <=> Added(w))
      BY <2>1, <2>2 DEF Posted, Open, Added
  <2>4. PoolTypes' /\ Stage'
      BY <2>1, <2>2 DEF PoolInv, PoolTypes, Stage
  <2>5. ASSUME NEW w \in Pool!Worker  PROVE Box(w)'
      BY <2>1, <2>2, <2>3 DEF PoolInv, Box
  <2>6. Runs'
      BY <2>1, <2>2, <2>3 DEF PoolInv, Runs
  <2>7. Summed'
      BY <2>2, <2>3 DEF PoolInv, Summed
  <2> QED  BY <2>4, <2>5, <2>6, <2>7 DEF PoolInv
<1>2. CASE Pool!smpsched_enable
  <2>1. smpsched_on = FALSE
      BY DEF PoolInv, PoolTypes
  <2> QED  BY <1>2, <2>1 DEF Pool!smpsched_enable
<1>3. CASE Pool!CallerStep("p")
    BY <1>3, PostSteps, ArmStep, PostOffline, OwnChunk, CollectSteps, ReadStep, FinishSteps,
       ConfirmStep, ReturnedStep, BeginSteps DEF Pool!CallerStep
<1>4. ASSUME NEW w \in Pool!Worker,
             Pool!smp_secondary_entry(w) \/ Pool!WorkerStep(w) \/ Pool!hang(w)
      PROVE  PoolInv'
    BY <1>4, EntrySteps, LoadSteps, RunSteps, StoreSteps, NoPolling DEF Pool!WorkerStep
<1> QED  BY <1>1, <1>2, <1>3, <1>4 DEF Pool!Next

-----------------------------------------------------------------------------
(* Which cores a chainload stops                                           *)

\* smp_park_secondaries has been through worker w's mailbox.
AskedOff(w) == cur.fn = -1 /\ Posted(w)

\* A core that was asked to stop is left out for a reason, has stopped, or is still
\* waited for and hangs or is on its way to stopping.
Stopped(w) ==
    \/ left[w] # "no" \/ wpc[w] = "parked"
    \/ Open(w) /\ (wpc[w] \in Working \cup {"hung"} \/ (wpc[w] = "wait" /\ seq[w] # last[w]))

LeftInv ==
    /\ left \in [Pool!Worker -> {"no", "not_up", "given_up"}]
    /\ \A w \in Pool!Worker : /\ AskedOff(w) => Stopped(w)
                              /\ left[w] = "given_up" => wpc[w] = "hung"

\* A step of the caller that asks no core and gives none up.
LEMMA LeftSame ==
    ASSUME LeftInv, UNCHANGED <<left, wpc, seq, last>>,
           \A w \in Pool!Worker : AskedOff(w)' => AskedOff(w) /\ (Open(w) => Open(w)')
    PROVE  LeftInv'
BY Zenon DEF LeftInv, Stopped

LEMMA LeftWorker ==
    ASSUME PoolInv, LeftInv, NEW w \in Pool!Worker,
           Pool!smp_secondary_entry(w) \/ Pool!WorkerStep(w) \/ Pool!hang(w)
    PROVE  LeftInv'
<1>1. /\ PoolTypes /\ Box(w) /\ wpc \in [Pool!Worker -> WorkerPlaces] /\ wpc[w] \in WorkerPlaces
      /\ last \in [Pool!Worker -> Nat] /\ ~polling[w]
    BY OneWorker DEF PoolInv, PoolTypes
<1>2. UNCHANGED <<left, seq, cpc, call>>
    BY DEF Pool!smp_secondary_entry, Pool!WorkerStep, Pool!hang, Pool!quiet, Pool!caller, Pool!mailbox,
       Pool!loop_enter, Pool!loop_notice, Pool!loop_leave, Pool!load_fn, Pool!load_lo, Pool!load_hi,
       Pool!run_fn, Pool!smp_park_self, Pool!store_res, Pool!store_done, Pool!poll_first,
       Pool!poll_init, Pool!poll_again, Pool!poll_notice, Pool!poll_nothing
<1>3. \A v : (AskedOff(v)' <=> AskedOff(v)) /\ (Open(v)' <=> Open(v)) /\ (Posted(v)' <=> Posted(v))
    BY <1>2 DEF AskedOff, Posted, Open, cur, pc
<1>4. \A v \in Pool!Worker : v # w => wpc'[v] = wpc[v] /\ last'[v] = last[v]
    BY <1>1 DEF Pool!smp_secondary_entry, Pool!WorkerStep, Pool!hang, Pool!Goto,
       Pool!loop_enter, Pool!loop_notice, Pool!loop_leave, Pool!load_fn, Pool!load_lo, Pool!load_hi,
       Pool!run_fn, Pool!smp_park_self, Pool!store_res, Pool!store_done, Pool!poll_first,
       Pool!poll_init, Pool!poll_again, Pool!poll_notice, Pool!poll_nothing
<1>5. wpc[w] \notin {"hung", "parked"}
    BY <1>1 DEF Pool!smp_secondary_entry, Pool!WorkerStep, Pool!hang, Pool!Goto,
       Pool!loop_enter, Pool!loop_notice, Pool!loop_leave, Pool!load_fn, Pool!load_lo, Pool!load_hi,
       Pool!run_fn, Pool!smp_park_self, Pool!store_res, Pool!store_done, Pool!poll_first,
       Pool!poll_init, Pool!poll_again, Pool!poll_notice, Pool!poll_nothing
<1>6. ASSUME AskedOff(w), left[w] = "no"  PROVE wpc'[w] \in Working \cup {"hung", "parked"}
  <2>1. Open(w) /\ (wpc[w] \in Working \/ (wpc[w] = "wait" /\ seq[w] # last[w]))
      BY <1>5, <1>6 DEF LeftInv, Stopped
  <2>2. seq[w] > 0
      BY <1>1, <2>1, OneWorker DEF Box, Working
  <2>3. fn[w] = -1
      BY <1>1, <1>6, <2>2 DEF Box, AskedOff
  <2>4. /\ wpc[w] = "run" => arg[w].fn = -1
        /\ wpc[w] \notin {"res", "done", "held", "init"}
    <3>1. wpc[w] \in {"run", "res", "done"} => arg[w].fn = -1
        BY <1>1, <2>3 DEF Box, Working
    <3> QED  BY <1>1, <2>1, <3>1 DEF Box, Working
  <2> QED  BY <1>1, <2>1, <2>4 DEF Pool!smp_secondary_entry, Pool!WorkerStep, Pool!hang, Pool!Goto,
       Pool!loop_enter, Pool!loop_notice, Pool!loop_leave, Pool!load_fn, Pool!load_lo, Pool!load_hi,
       Pool!run_fn, Pool!smp_park_self, Pool!store_res, Pool!store_done, Pool!poll_first,
       Pool!poll_init, Pool!poll_again, Pool!poll_notice, Pool!poll_nothing, Working
<1>7. ASSUME NEW v \in Pool!Worker, v # w
      PROVE  (AskedOff(v)' => Stopped(v)') /\ (left'[v] = "given_up" => wpc'[v] = "hung")
    BY Zenon, <1>2, <1>3, <1>4, <1>7 DEF LeftInv, Stopped
<1>8. AskedOff(w)' => Stopped(w)'
  <2>1. ASSUME AskedOff(w), left[w] = "no"  PROVE Open(w)
      BY <1>5, <2>1 DEF LeftInv, Stopped
  <2> QED  BY Zenon, <1>2, <1>3, <1>6, <2>1 DEF Stopped
<1>9. left'[w] # "given_up"
    BY <1>2, <1>5 DEF LeftInv
<1> QED  BY <1>2, <1>7, <1>8, <1>9 DEF LeftInv

LEMMA LeftCaller ==
    ASSUME PoolInv, LeftInv, Pool!CallerStep("p")
    PROVE  LeftInv'
<1>1. /\ PoolTypes /\ Stage /\ (\A w \in Pool!Worker : Box(w))
      /\ cur \in CallRec /\ cur.nc \in Nat /\ cur.c \in Nat /\ NCORES \in Nat
      /\ Pool!Worker = 1..(NCORES - 1)
      /\ (cur.c < cur.nc => cur.c \in Pool!Worker /\ cur.c + 1 \in 1..NCORES)
      /\ << >> \in Seq(Pool!Chunk) /\ pc \in Places
      /\ call \in [{"p"} -> CallRec] /\ cpc \in [{"p"} -> Places]
      /\ left \in [Pool!Worker -> {"no", "not_up", "given_up"}]
    BY CallerFacts, CurIs DEF PoolTypes, LeftInv
<1>2. CASE Pool!smp_parallel_sum("p") \/ Pool!kernel_chainload("p")
  <2>1. /\ UNCHANGED <<left, wpc, seq, last>> /\ cpc' = [cpc EXCEPT !["p"] = "post"]
        /\ \E r : call' = [call EXCEPT !["p"] = r] /\ r.c = 1
    <3>1. CASE Pool!smp_parallel_sum("p")
      <4>1. /\ UNCHANGED <<left, wpc, seq, last>> /\ cpc' = [cpc EXCEPT !["p"] = "post"]
            /\ \E n \in Sizes, k \in 0..(NCORES + 1) :
                  call' = [call EXCEPT !["p"] =
                    [fn |-> calls + 1, n |-> IF n < 0 THEN 0 ELSE n, c |-> 1, total |-> << >>,
                     nc |-> IF k < 1 THEN 1 ELSE IF k > NCORES THEN NCORES ELSE k]]
          BY <3>1 DEF Pool!smp_parallel_sum, Pool!worker, Pool!mailbox
      <4>2. PICK n \in Sizes, k \in 0..(NCORES + 1) :
                  call' = [call EXCEPT !["p"] =
                    [fn |-> calls + 1, n |-> IF n < 0 THEN 0 ELSE n, c |-> 1, total |-> << >>,
                     nc |-> IF k < 1 THEN 1 ELSE IF k > NCORES THEN NCORES ELSE k]]
          BY <4>1
      <4> DEFINE r == [fn |-> calls + 1, n |-> IF n < 0 THEN 0 ELSE n, c |-> 1, total |-> << >>,
                       nc |-> IF k < 1 THEN 1 ELSE IF k > NCORES THEN NCORES ELSE k]
      <4>3. r.c = 1 /\ call' = [call EXCEPT !["p"] = r]
          BY <4>2
      <4> HIDE DEF r
      <4> QED  BY <4>1, <4>3
    <3>2. CASE Pool!kernel_chainload("p")
      <4> DEFINE r == [Pool!NoCall EXCEPT !.fn = Pool!Park, !.nc = NCORES]
      <4>1. r.c = 1
          BY DEF Pool!NoCall
      <4>2. /\ UNCHANGED <<left, wpc, seq, last>> /\ cpc' = [cpc EXCEPT !["p"] = "post"]
            /\ call' = [call EXCEPT !["p"] = r]
          BY <3>2 DEF Pool!kernel_chainload, Pool!worker, Pool!mailbox
      <4> HIDE DEF r
      <4> QED  BY <4>1, <4>2
    <3> QED  BY <1>2, <3>1, <3>2
  <2>2. pc' = "post" /\ cur'.c = 1
      BY <1>1, <2>1 DEF pc, cur
  <2>3. \A w \in Pool!Worker : ~AskedOff(w)'
      BY <1>1, <2>2 DEF AskedOff, Posted, PostPcs
  <2> QED  BY <2>1, <2>3, LeftSame
<1>3. CASE Pool!returned("p")
  <2>1. UNCHANGED <<left, wpc, seq, last>> /\ cpc' = [cpc EXCEPT !["p"] = "idle"]
      BY <1>3 DEF Pool!returned, Pool!worker, Pool!mailbox
  <2>2. pc' = "idle"
      BY <1>1, <2>1 DEF pc
  <2>3. \A w \in Pool!Worker : ~AskedOff(w)'
      BY <2>2 DEF AskedOff, Posted
  <2> QED  BY <2>1, <2>3, LeftSame
<1>4. CASE Pool!collect_offline("p") \/ Pool!collect_done("p") \/ Pool!collect_timeout("p")
           \/ Pool!read_res("p") \/ Pool!return("p")
  <2>1. UNCHANGED <<left, wpc, seq, last>> /\ pc \in {"collect", "read"}
        /\ \E place, c, rs : Pool!Proceed("p", place, c, rs)
      BY <1>4 DEF Pool!collect_offline, Pool!collect_done, Pool!collect_timeout, Pool!read_res,
         Pool!return, Pool!worker, Pool!mailbox, Pool!At, Pool!Proceed, pc
  <2>2. cur'.fn = cur.fn
      BY <1>1, <2>1 DEF cur, Pool!Proceed, CallRec
  <2>3. \A w \in Pool!Worker : ~AskedOff(w)'
      BY <1>1, <2>1, <2>2 DEF AskedOff, Stage
  <2> QED  BY <2>1, <2>3, LeftSame
<1>5. CASE Pool!post_fn("p") \/ Pool!post_lo("p") \/ Pool!post_hi("p")
  <2>1. PICK place \in Places :
          /\ UNCHANGED <<left, wpc, seq, last>> /\ pc \in PostPcs /\ place \in PostPcs
          /\ Pool!Proceed("p", place, cur.c, << >>)
      BY <1>5 DEF Pool!post_fn, Pool!post_lo, Pool!post_hi, Pool!worker, Pool!mailbox, Pool!At,
         Pool!Proceed, pc, cur, PostPcs, Places
  <2>2. cur.c \in 1..NCORES
      BY <1>1, CurIs
  <2>3. pc' = place /\ cur'.c = cur.c /\ cur'.fn = cur.fn /\ cur'.nc = cur.nc
      BY Zenon, <1>1, <2>1, <2>2, ProceedIs
  <2>4. \A w \in Pool!Worker : AskedOff(w)' => AskedOff(w) /\ (Open(w) => Open(w)')
      BY <1>1, <2>1, <2>3 DEF AskedOff, Posted, Open, PostPcs
  <2> QED  BY <2>1, <2>4, LeftSame
<1>6. CASE Pool!own_chunk("p")
  <2>1. CASE cur.fn = -1
    <3>1. /\ UNCHANGED <<left, wpc, seq, last>> /\ pc = "post" /\ cur.c = cur.nc
          /\ Pool!Proceed("p", "confirm", 1, << >>)
        BY <1>6, <2>1 DEF Pool!own_chunk, Pool!worker, Pool!mailbox, Pool!At, Pool!Proceed, pc, cur,
           Pool!Park
    <3>2. "confirm" \in Places /\ 1 \in 1..NCORES
        BY <1>1, PoolConstants DEF Places
    <3>3. pc' = "confirm" /\ cur'.c = 1 /\ cur'.fn = cur.fn /\ cur'.nc = cur.nc
        BY Zenon, <1>1, <3>1, <3>2, ProceedIs
    <3>4. \A w \in Pool!Worker : AskedOff(w)' => AskedOff(w) /\ (Open(w) => Open(w)')
        BY <1>1, <3>1, <3>3 DEF AskedOff, Posted, Open, PostPcs
    <3> QED  BY <3>1, <3>4, LeftSame
  <2>2. CASE cur.fn # -1
    <3>1. /\ UNCHANGED <<left, wpc, seq, last>> /\ \E rs : Pool!Proceed("p", "collect", 1, rs)
        BY <1>6, <2>2 DEF Pool!own_chunk, Pool!worker, Pool!mailbox, Pool!At, Pool!Proceed, pc, cur,
           Pool!Park
    <3>2. cur'.fn = cur.fn
        BY <1>1, <3>1 DEF cur, Pool!Proceed, CallRec
    <3>3. \A w \in Pool!Worker : ~AskedOff(w)'
        BY <2>2, <3>2 DEF AskedOff
    <3> QED  BY <3>1, <3>3, LeftSame
  <2> QED  BY <2>1, <2>2
<1>7. CASE Pool!chainload_stub("p")
  <2>1. /\ UNCHANGED <<left, wpc, seq, last>> /\ pc = "confirm" /\ cur.c = cur.nc
        /\ Pool!Proceed("p", "gone", cur.c, << >>)
      BY <1>7 DEF Pool!chainload_stub, Pool!worker, Pool!mailbox, Pool!At, Pool!Proceed, pc, cur
  <2>2. "gone" \in Places /\ cur.c \in 1..NCORES
      BY <1>1, CurIs DEF Places
  <2>3. pc' = "gone" /\ cur'.c = cur.c /\ cur'.fn = cur.fn /\ cur'.nc = cur.nc
      BY Zenon, <1>1, <2>1, <2>2, ProceedIs
  <2>4. \A w \in Pool!Worker : AskedOff(w)' => AskedOff(w) /\ (Open(w) => Open(w)')
      BY <1>1, <2>1, <2>3 DEF AskedOff, Posted, Open, PostPcs
  <2> QED  BY <2>1, <2>4, LeftSame
<1>8. CASE Pool!post_offline("p")
  <2>1. CASE cur.fn = -1
    <3>1. /\ UNCHANGED <<wpc, seq, last>> /\ pc = "post" /\ cur.c < cur.nc
          /\ left' = [left EXCEPT ![cur.c] = "not_up"]
          /\ Pool!Proceed("p", "post", cur.c + 1, << >>) /\ ~online[cur.c]
        BY <1>8, <2>1 DEF Pool!post_offline, Pool!worker, Pool!mailbox, Pool!At, Pool!Proceed, pc, cur,
           Pool!Park
    <3>2. "post" \in Places
        BY DEF Places, PostPcs
    <3>3. pc' = "post" /\ cur'.c = cur.c + 1 /\ cur'.fn = cur.fn /\ cur'.nc = cur.nc
        BY Zenon, <1>1, <3>1, <3>2, ProceedIs
    <3>4. \A w \in Pool!Worker : AskedOff(w)' => w = cur.c \/ (AskedOff(w) /\ (Open(w) => Open(w)'))
        BY <1>1, <3>1, <3>3 DEF AskedOff, Posted, Open, PostPcs
    <3>5. \A w \in Pool!Worker : left'[w] = IF w = cur.c THEN "not_up" ELSE left[w]
        BY <1>1, <3>1
    <3>6. left' \in [Pool!Worker -> {"no", "not_up", "given_up"}]
        BY <1>1, <3>1
    <3> QED  BY <3>1, <3>4, <3>5, <3>6 DEF LeftInv, Stopped
  <2>2. CASE cur.fn # -1
    <3>1. /\ UNCHANGED <<left, wpc, seq, last>> /\ \E c, rs : Pool!Proceed("p", "post", c, rs)
        BY <1>8, <2>2 DEF Pool!post_offline, Pool!worker, Pool!mailbox, Pool!At, Pool!Proceed, pc, cur,
           Pool!Park
    <3>2. cur'.fn = cur.fn
        BY <1>1, <3>1 DEF cur, Pool!Proceed, CallRec
    <3>3. \A w \in Pool!Worker : ~AskedOff(w)'
        BY <2>2, <3>2 DEF AskedOff
    <3> QED  BY <3>1, <3>3, LeftSame
  <2> QED  BY <2>1, <2>2
<1>9. CASE Pool!arm("p")
  <2> PICK v \in Nat : v = cur.c
      BY <1>1
  <2>1. /\ UNCHANGED <<wpc, last>> /\ pc = "arm" /\ cur.c < cur.nc
        /\ left' = IF cur.fn = -1 /\ wpc[v] \in {"held", "init"}
                   THEN [left EXCEPT ![v] = "not_up"] ELSE left
        /\ seq' = [seq EXCEPT ![v] = @ + 1]
        /\ Pool!Proceed("p", "post", v + 1, << >>)
      BY <1>1, <1>9 DEF Pool!arm, Pool!worker, Pool!mailbox, Pool!At, Pool!Proceed, pc, cur, Stage,
         Pool!Park
  <2>2. "post" \in Places /\ v \in Pool!Worker
      BY <1>1, <2>1 DEF Places, PostPcs
  <2>3. pc' = "post" /\ cur'.c = v + 1 /\ cur'.fn = cur.fn /\ cur'.nc = cur.nc
      BY Zenon, <1>1, <2>1, <2>2, ProceedIs
  <2>4. /\ \A w \in Pool!Worker : w # v /\ AskedOff(w)' => AskedOff(w) /\ (Open(w) => Open(w)')
        /\ ~Open(v) /\ Open(v)'
      BY <1>1, <2>1, <2>3 DEF AskedOff, Posted, Open, PostPcs
  <2>5. /\ \A w \in Pool!Worker : w # v => seq'[w] = seq[w] /\ left'[w] = left[w]
        /\ seq'[v] = seq[v] + 1
        /\ left' \in [Pool!Worker -> {"no", "not_up", "given_up"}]
        /\ left'[v] = IF cur.fn = -1 /\ wpc[v] \in {"held", "init"} THEN "not_up" ELSE left[v]
      BY <1>1, <2>1, <2>2 DEF PoolTypes
  <2>6. /\ Box(v) /\ seq[v] \in Nat /\ last[v] \in Nat /\ wpc[v] \in WorkerPlaces
      BY <1>1, <2>2, OneWorker
  <2>7. seq'[v] # last'[v] /\ wpc[v] \notin Working
      BY <2>1, <2>4, <2>5, <2>6 DEF Box
  <2>8. AskedOff(v)' => Stopped(v)'
      BY <2>1, <2>3, <2>4, <2>5, <2>6, <2>7 DEF Stopped, AskedOff, WorkerPlaces
  <2>9. left'[v] = "given_up" => wpc'[v] = "hung"
      BY <2>1, <2>2, <2>5 DEF LeftInv
  <2>10. ASSUME NEW w \in Pool!Worker, w # v
         PROVE  (AskedOff(w)' => Stopped(w)') /\ (left'[w] = "given_up" => wpc'[w] = "hung")
      BY Zenon, <2>1, <2>4, <2>5, <2>10 DEF LeftInv, Stopped
  <2> QED  BY <2>5, <2>8, <2>9, <2>10 DEF LeftInv
<1>10. CASE Pool!confirm("p")
  <2> PICK v \in Nat : v = cur.c
      BY <1>1
  <2>1. /\ UNCHANGED <<wpc, last, seq>> /\ pc = "confirm" /\ cur.c < cur.nc /\ cur.fn = -1
        /\ \/ (online[v] => wpc[v] = "parked") /\ left' = left
           \/ /\ online[v] /\ wpc[v] # "parked" /\ Pool!SpinsOut(v)
              /\ left' = [left EXCEPT ![v] = IF left[v] = "no" THEN "given_up" ELSE left[v]]
        /\ Pool!Proceed("p", "confirm", v + 1, << >>)
      BY <1>1, <1>10 DEF Pool!confirm, Pool!worker, Pool!mailbox, Pool!At, Pool!Proceed, pc, cur, Stage
  <2>2. "confirm" \in Places /\ v \in Pool!Worker
      BY <1>1, <2>1 DEF Places
  <2>3. pc' = "confirm" /\ cur'.c = v + 1 /\ cur'.fn = cur.fn /\ cur'.nc = cur.nc
      BY Zenon, <1>1, <2>1, <2>2, ProceedIs
  <2>4. /\ \A w \in Pool!Worker : w # v /\ AskedOff(w)' => AskedOff(w) /\ (Open(w) => Open(w)')
        /\ AskedOff(v) /\ Open(v)
      BY <1>1, <2>1, <2>3 DEF AskedOff, Posted, Open, PostPcs
  <2>5. Box(v) /\ Pool!Seen(v) = last[v] /\ ~polling[v] /\ wpc[v] \in WorkerPlaces
      BY <1>1, <2>2, OneWorker
  <2>6. left[v] # "no" \/ wpc[v] = "parked" \/ wpc[v] \in Working \cup {"hung"}
        \/ (wpc[v] = "wait" /\ seq[v] # last[v])
      BY <2>2, <2>4 DEF LeftInv, Stopped
  <2>7. CASE left' = left /\ (online[v] => wpc[v] = "parked")
    <3>1. ~online[v] => wpc[v] = "held"
        BY <2>1, <2>5 DEF Box
    <3>2. left[v] # "no" \/ wpc[v] = "parked"
        BY <2>6, <2>7, <3>1 DEF Working
    <3> QED  BY Zenon, <2>1, <2>4, <2>7, <3>2 DEF LeftInv, Stopped
  <2>8. CASE /\ online[v] /\ wpc[v] # "parked" /\ Pool!SpinsOut(v)
             /\ left' = [left EXCEPT ![v] = IF left[v] = "no" THEN "given_up" ELSE left[v]]
    <3>1. wpc[v] \notin Working /\ ~(wpc[v] = "wait" /\ seq[v] # last[v])
        BY <2>5, <2>8 DEF Pool!SpinsOut, Pool!Busy, Working
    <3>2. left[v] = "no" => wpc[v] = "hung"
        BY <2>6, <2>8, <3>1
    <3>3. /\ left'[v] = (IF left[v] = "no" THEN "given_up" ELSE left[v]) /\ left'[v] # "no"
          /\ \A w \in Pool!Worker : w # v => left'[w] = left[w]
          /\ left' \in [Pool!Worker -> {"no", "not_up", "given_up"}]
        BY <1>1, <2>2, <2>8
    <3>4. left'[v] = "given_up" => wpc'[v] = "hung"
        BY <2>1, <2>2, <3>2, <3>3 DEF LeftInv
    <3>5. ASSUME NEW w \in Pool!Worker, w # v
          PROVE  (AskedOff(w)' => Stopped(w)') /\ (left'[w] = "given_up" => wpc'[w] = "hung")
        BY Zenon, <2>1, <2>4, <3>3, <3>5 DEF LeftInv, Stopped
    <3> QED  BY <3>3, <3>4, <3>5 DEF LeftInv, Stopped
  <2> QED  BY <2>1, <2>7, <2>8
<1> QED  BY <1>2, <1>3, <1>4, <1>5, <1>6, <1>7, <1>8, <1>9, <1>10 DEF Pool!CallerStep

LEMMA LeftSteps ==
    ASSUME PoolInv, LeftInv, Pool!Next
    PROVE  LeftInv'
<1>1. CASE Pool!smp_init
  <2>1. UNCHANGED <<left, wpc, seq, last, cpc, call>>
      BY <1>1 DEF Pool!smp_init, Pool!mailbox, Pool!caller, Pool!worker
  <2>2. \A w : (AskedOff(w)' <=> AskedOff(w)) /\ (Open(w)' <=> Open(w))
      BY <2>1 DEF AskedOff, Posted, Open, cur, pc
  <2> QED  BY <2>1, <2>2, LeftSame
<1>2. CASE Pool!smpsched_enable
    BY <1>2 DEF PoolInv, PoolTypes, Pool!smpsched_enable
<1>3. CASE Pool!CallerStep("p")
    BY <1>3, LeftCaller
<1>4. ASSUME NEW w \in Pool!Worker,
             Pool!smp_secondary_entry(w) \/ Pool!WorkerStep(w) \/ Pool!hang(w)
      PROVE  LeftInv'
    BY <1>4, LeftWorker
<1> QED  BY <1>1, <1>2, <1>3, <1>4 DEF Pool!Next

-----------------------------------------------------------------------------
(* What the invariant says                                                 *)

\* A call that returns has added every chunk of its range, each once.
LEMMA TotalIsExact ==
    ASSUME PoolInv, pc = "ret"
    PROVE  Pool!ExactCover(cur)
<1> DEFINE n == Len(cur.total)
<1>1. /\ PoolTypes /\ Stage /\ Summed /\ (\A w \in Pool!Worker : Box(w))
      /\ cur \in CallRec /\ cur.nc \in Nat /\ cur.c \in Nat /\ NCORES \in Nat
      /\ cur.nc \in 1..NCORES /\ cur.fn # -1 /\ cur.c = cur.nc
      /\ cur.total \in Seq(Pool!Chunk) /\ cur.n \in 0..Pool!MaxSize
      /\ Pool!MaxSize \in Nat
    BY CallerFacts, CurIs, PoolConstants DEF Stage
<1>2. n \in Nat /\ DOMAIN cur.total = 1..n /\ \A i \in 1..n : cur.total[i] \in Pool!Chunk
    BY <1>1
<1>3. \A w \in 0..(NCORES - 1) : Added(w) <=> w \in 0..(cur.nc - 1)
    BY <1>1 DEF Added, Posted, PostPcs
<1>4. ASSUME NEW i \in 1..n, Counts(cur.total[i])
      PROVE  \E w \in 0..(cur.nc - 1) : cur.total[i] = Pool!ChunkOf(cur, w)
    BY <1>1, <1>3, <1>4 DEF Summed
<1>5. ASSUME NEW i \in 1..n, Counts(cur.total[i])
      PROVE  cur.total[i].fn = cur.fn /\ cur.total[i].hi <= cur.n
  <2>1. PICK w \in 0..(cur.nc - 1) : cur.total[i] = Pool!ChunkOf(cur, w)
      BY <1>4, <1>5
  <2> QED  BY Zenon, <1>1, <2>1, ChunkIs, Tiles
<1>6. ASSUME NEW x \in 0..(cur.n - 1)
      PROVE  Cardinality({i \in DOMAIN cur.total :
                            cur.total[i].lo <= x /\ x < cur.total[i].hi}) = 1
  <2> DEFINE S == {i \in DOMAIN cur.total : cur.total[i].lo <= x /\ x < cur.total[i].hi}
  <2>1. PICK w \in 0..(cur.nc - 1) : Pool!Lo(cur, w) <= x /\ x < Pool!Hi(cur, w)
      BY <1>1, Tiles
  <2>2. w \in 0..(NCORES - 1) /\ Added(w)
      BY <1>1, <1>3
  <2>3. PICK i \in 1..n : cur.total[i] = Pool!ChunkOf(cur, w)
      BY Zenon, <1>1, <2>2 DEF Summed
  <2>4. cur.total[i].lo = Pool!Lo(cur, w) /\ cur.total[i].hi = Pool!Hi(cur, w)
      BY <1>1, <2>3, ChunkIs
  <2>5. i \in S
      BY <1>2, <2>1, <2>4
  <2>6. ASSUME NEW k \in S  PROVE k = i
    <3>1. /\ k \in 1..n /\ cur.total[k] \in Pool!Chunk /\ x \in Nat
          /\ cur.total[k].lo <= x /\ x < cur.total[k].hi
        BY <1>1, <1>2
    <3>2. Counts(cur.total[k])
      <4>1. cur.total[k].lo \in 0..Pool!MaxSize /\ cur.total[k].hi \in 0..Pool!MaxSize
          BY <3>1 DEF Pool!Chunk
      <4> QED  BY SMTT(40), <1>1, <3>1, <4>1 DEF Counts
    <3>3. PICK u \in 0..(cur.nc - 1) : cur.total[k] = Pool!ChunkOf(cur, u)
        BY <1>4, <3>1, <3>2
    <3>4. /\ cur.total[k].lo = Pool!Lo(cur, u) /\ cur.total[k].hi = Pool!Hi(cur, u)
        BY <1>1, <3>3, ChunkIs
    <3>5. /\ Pool!Lo(cur, u) \in Nat /\ Pool!Hi(cur, u) \in Nat
          /\ Pool!Lo(cur, w) \in Nat /\ Pool!Hi(cur, w) \in Nat
          /\ u < w => Pool!Hi(cur, u) <= Pool!Lo(cur, w)
          /\ w < u => Pool!Hi(cur, w) <= Pool!Lo(cur, u)
        BY Zenon, <1>1, Tiles
    <3>6. u = w
        BY <1>1, <2>1, <3>1, <3>4, <3>5
    <3> QED  BY Zenon, <1>1, <2>3, <3>1, <3>2, <3>3, <3>6 DEF Summed
  <2>7. S = {i}
      BY <2>5, <2>6
  <2>8. Cardinality({i}) = 1
      BY Zenon, FS_Singleton
  <2> QED  BY Zenon, <2>7, <2>8
<1>7. \A i \in DOMAIN cur.total :
         cur.total[i].lo < cur.total[i].hi => cur.total[i].fn = cur.fn /\ cur.total[i].hi <= cur.n
    BY <1>2, <1>5 DEF Counts
<1>8. \A x \in 0..(cur.n - 1) :
         Pool!Cardinality({i \in DOMAIN cur.total :
                         cur.total[i].lo <= x /\ x < cur.total[i].hi}) = 1
  <2>1. \A S : Pool!Cardinality(S) = Cardinality(S)
      BY DEF Pool!Cardinality, Cardinality
  <2> QED  BY <1>6, <2>1
<1> QED  BY <1>7, <1>8 DEF Pool!ExactCover

LEMMA PoolPromises ==
    ASSUME PoolInv, LeftInv
    PROVE  /\ Pool!TypeOK /\ Pool!ResultCorrect /\ Pool!RunOnce /\ Pool!Quiesced
           /\ Pool!SafeOverwrite /\ Pool!GivesUpHung
<1>1. PoolTypes /\ Stage /\ Runs /\ (\A w \in Pool!Worker : Box(w))
    BY DEF PoolInv
<1>2. Pool!TypeOK
  <2>1. \A w \in Pool!Worker : [fn |-> fn[w], lo |-> lo[w], hi |-> hi[w]] \in Pool!Chunk
      BY <1>1, OneWorker DEF Pool!Chunk, Pool!Park
  <2>2. ASSUME NEW w \in Pool!Worker
        PROVE  /\ seq[w] \in 0..(MaxCalls + 1) /\ done[w] \in 0..(MaxCalls + 1)
               /\ last[w] \in 0..(MaxCalls + 1) /\ plast[w] \in 0..(MaxCalls + 1)
    <3>1. /\ seq[w] \in Nat /\ done[w] \in Nat /\ last[w] \in Nat /\ plast[w] = 0
          /\ calls \in 0..(MaxCalls + 1) /\ MaxCalls \in Nat
        BY Zenon, <1>1, OneWorker, PoolConstants DEF PoolTypes
    <3>2. done[w] <= seq[w] /\ seq[w] <= calls /\ last[w] <= seq[w]
        BY <1>1 DEF Box
    <3> QED  BY <3>1, <3>2
  <2>3. /\ seq \in [Pool!Worker -> 0..(MaxCalls + 1)] /\ done \in [Pool!Worker -> 0..(MaxCalls + 1)]
        /\ last \in [Pool!Worker -> 0..(MaxCalls + 1)]
        /\ plast \in [Pool!Worker -> 0..(MaxCalls + 1)]
      BY <1>1, <2>2 DEF PoolTypes
  <2>4. /\ call["p"].c \in 1..NCORES
        /\ \A i \in DOMAIN call["p"].total : call["p"].total[i] \in Pool!Chunk
      BY <1>1, CurIs DEF cur
  <2> QED  BY <1>1, <2>1, <2>3, <2>4 DEF PoolTypes, LeftInv, Pool!TypeOK
<1>3. Pool!ResultCorrect
    BY TotalIsExact DEF Pool!ResultCorrect, pc, cur
<1>4. Pool!RunOnce
  <2>1. ran \in [1..(MaxCalls + 1) -> [0..(NCORES - 1) -> Nat]]
      BY <1>1 DEF PoolTypes
  <2> QED  BY Zenon, <1>1, <2>1 DEF Runs, Pool!RunOnce
<1>5. ASSUME NEW w \in Pool!Worker, pc = "idle"
      PROVE  wpc[w] \notin Pool!Busy \ {"init"}
  <2>1. ~Open(w)
      BY <1>5 DEF Open, Posted
  <2> QED  BY <1>1, <2>1 DEF Box, Working, Pool!Busy
<1>6. Pool!Quiesced
    BY <1>5 DEF Pool!Quiesced, pc
<1>7. ASSUME NEW w \in Pool!Worker, pc = "gone"
      PROVE  wpc[w] = "parked" \/ left[w] # "no"
  <2>1. cur.fn = -1 /\ w < cur.nc
      BY <1>1, <1>7, PoolConstants DEF Stage
  <2>2. AskedOff(w) /\ ~Open(w)
      BY <1>7, <2>1 DEF AskedOff, Posted, Open, PostPcs
  <2> QED  BY <2>2 DEF LeftInv, Stopped
<1>8. Pool!SafeOverwrite
    BY <1>7 DEF Pool!SafeOverwrite, Pool!Gone, pc
<1>9. Pool!GivesUpHung
    BY DEF Pool!GivesUpHung, LeftInv
<1> QED  BY <1>2, <1>3, <1>4, <1>6, <1>8, <1>9

-----------------------------------------------------------------------------
\* PoolInv holds throughout the scenes of the worker pool.
PoolHolds == scene = "pool" => PoolInv /\ LeftInv

LEMMA PoolAlways == Spec => []PoolHolds
<1>1. Init => PoolHolds
  <2>1. Pool!Init => LeftInv
      BY DEF Pool!Init, LeftInv, AskedOff, Posted, pc
  <2> QED  BY <2>1, PoolStarts DEF Init, RemoteScene, PoolHolds
<1>2. ASSUME PoolHolds, [Next]_allvars  PROVE PoolHolds'
  <2> SUFFICES ASSUME scene' = "pool"  PROVE PoolInv' /\ LeftInv'
      BY DEF PoolHolds
  <2>1. scene = "pool"
      BY <1>2 DEF Next, RemoteScene, InPool, InAipl, allvars
  <2>2. PoolInv /\ LeftInv
      BY <1>2, <2>1 DEF PoolHolds
  <2>3. CASE Pool!Next
      BY <2>2, <2>3, PoolSteps, LeftSteps
  <2>4. CASE UNCHANGED poolvars
    <3>1. UNCHANGED <<online, fn, lo, hi, res, seq, done, cpc, call, calls, wpc, last, arg, polling,
                      plast, smpsched_on, ran, left>>
        BY <2>4 DEF poolvars
    <3>2. pc' = pc /\ cur' = cur
        BY <3>1 DEF pc, cur
    <3>3. \A w : (Posted(w)' <=> Posted(w)) /\ (Open(w)' <=> Open(w)) /\ (Added(w)' <=> Added(w))
        BY <3>1, <3>2 DEF Posted, Open, Added
    <3>4. PoolTypes' /\ Stage'
        BY <2>2, <3>1, <3>2 DEF PoolInv, PoolTypes, Stage
    <3>5. ASSUME NEW w \in Pool!Worker  PROVE Box(w)'
        BY <2>2, <3>1, <3>2, <3>3 DEF PoolInv, Box
    <3>6. Runs' /\ Summed'
        BY Zenon, <2>2, <3>1, <3>2, <3>3 DEF PoolInv, Runs, Summed
    <3>7. \A w : (AskedOff(w)' <=> AskedOff(w))
        BY <3>2, <3>3 DEF AskedOff
    <3>8. LeftInv'
        BY Zenon, <2>2, <3>1, <3>3, <3>7, LeftSame
    <3> QED  BY <3>4, <3>5, <3>6, <3>8 DEF PoolInv
  <2>5. Pool!Next \/ UNCHANGED poolvars
      BY <1>2, <2>1 DEF Next, RemoteScene, InPool, InAipl, allvars
  <2> QED  BY <2>3, <2>4, <2>5
<1> QED  BY <1>1, <1>2, PTL DEF Spec

\* smp.h:36-39: whatever the number of cores, the ranges asked for and the workers
\* that come up late or hang, smp_parallel_sum returns the sum over every chunk,
\* each counted once; no chunk is run to its end twice, and between calls no
\* worker is still inside one.
THEOREM PoolIsExact == Spec => []PoolExact
<1>1. PoolHolds => PoolExact
    BY PoolPromises DEF PoolHolds, PoolExact
<1> QED  BY <1>1, PoolAlways, PTL

-----------------------------------------------------------------------------
(* A chainload when any job may outlast the wait for it                    *)

Recs(n, total) ==
    [fn : Int, n : {n}, nc : 1..NCORES, c : 1..NCORES, total : {total}]
Shape == call \in [{"p"} -> Recs(cur.n, cur.total)] /\ cpc \in [{"p"} -> {pc}]

\* A core that was asked to stop is left out for a reason, has stopped, or is still
\* waited for; one that is being asked is online.
TardyInv ==
    /\ Shape /\ wpc = [w \in Tardy!Worker |-> wpc[w]]
    /\ online \in [Tardy!Worker -> BOOLEAN]
    /\ left \in [Tardy!Worker -> {"no", "not_up", "given_up"}]
    /\ calls \in Nat
    /\ cur.c <= cur.nc
    /\ pc \in PostPcs \ {"post"} => cur.c < cur.nc /\ online[cur.c]
    /\ pc = "read" => cur.c < cur.nc
    /\ cur.fn = -1 => cur.nc = NCORES
    /\ pc \in {"confirm", "gone"} => cur.fn = -1
    /\ pc = "gone" => cur.c = cur.nc
    /\ pc \in {"collect", "read", "ret"} => cur.fn # -1
    /\ \A w \in Tardy!Worker :
          AskedOff(w) => left[w] # "no" \/ wpc[w] = "parked" \/ (Open(w) /\ online[w])

LEMMA TardyProceeds ==
    ASSUME Shape, NEW place, NEW c \in 1..NCORES, NEW rs, Tardy!Proceed("p", place, c, rs)
    PROVE  /\ Shape' /\ pc' = place /\ cur'.c = c /\ cur'.fn = cur.fn /\ cur'.nc = cur.nc
           /\ wpc' = wpc /\ calls' = calls
<1>1. /\ cpc' = [cpc EXCEPT !["p"] = place]
      /\ call' = [call EXCEPT !["p"] = [cur EXCEPT !.c = c, !.total = cur.total \o rs]]
      /\ wpc' = wpc /\ calls' = calls
    BY Zenon DEF Tardy!Proceed, Tardy!worker, cur
<1> DEFINE t == cur.total \o rs
           new == [cur EXCEPT !.c = c, !.total = t]
<1> HIDE DEF t
<1>2. cur \in Recs(cur.n, cur.total)
    BY DEF Shape, cur
<1>3. /\ new \in Recs(cur.n, t) /\ new.c = c /\ new.total = t
      /\ new.fn = cur.fn /\ new.n = cur.n /\ new.nc = cur.nc
    BY Zenon, <1>2 DEF Recs
<1>4. call' = [call EXCEPT !["p"] = new]
    BY Zenon, <1>1 DEF t
<1> HIDE DEF new
<1>5. cur' = new /\ pc' = place
    BY <1>1, <1>4 DEF cur, pc, Shape
<1>6. call' \in [{"p"} -> Recs(cur'.n, cur'.total)] /\ cpc' \in [{"p"} -> {pc'}]
    BY <1>1, <1>3, <1>4, <1>5 DEF Shape
<1> QED  BY <1>1, <1>3, <1>5, <1>6 DEF Shape

\* What Shape says of the call.
LEMMA ShapeIs ==
    ASSUME Shape
    PROVE  cur.fn \in Int /\ cur.nc \in 1..NCORES /\ cur.c \in 1..NCORES
<1>1. cur \in Recs(cur.n, cur.total)
    BY DEF Shape, cur
<1> QED  BY <1>1 DEF Recs

\* A call begins or ends.
LEMMA ShapeNew ==
    ASSUME Shape, NEW place, NEW n, NEW r \in Recs(n, << >>),
           cpc' = [cpc EXCEPT !["p"] = place], call' = [call EXCEPT !["p"] = r]
    PROVE  Shape' /\ pc' = place /\ cur' = r
<1>1. cur' = r /\ pc' = place
    BY DEF cur, pc, Shape
<1>2. r \in Recs(r.n, r.total)
    BY DEF Recs
<1>3. call' \in [{"p"} -> Recs(cur'.n, cur'.total)] /\ cpc' \in [{"p"} -> {pc'}]
    BY <1>1, <1>2 DEF Shape
<1> QED  BY <1>1, <1>3 DEF Shape

LEMMA TardyStarts == Tardy!Init => TardyInv
<1> SUFFICES ASSUME Tardy!Init  PROVE TardyInv
    OBVIOUS
<1>1. NCORES \in Nat /\ NCORES > 1
    BY PoolConstants
<1>2. pc = "idle" /\ cur = Tardy!NoCall
    BY DEF Tardy!Init, pc, cur
<1>3. Shape /\ cur.fn = 0 /\ cur.nc = 1 /\ cur.c = 1
  <2>1. 1 \in 1..NCORES
      BY <1>1
  <2>2. Tardy!NoCall \in Recs(0, << >>)
      BY <2>1 DEF Tardy!NoCall, Recs
  <2> QED  BY <1>2, <2>2 DEF Tardy!Init, Tardy!NoCall, Shape
<1>4. \A w : ~AskedOff(w)
    BY <1>3 DEF AskedOff
<1> QED  BY <1>2, <1>3, <1>4 DEF Tardy!Init, TardyInv, PostPcs

LEMMA TardyWorker ==
    ASSUME TardyInv, NEW w \in Tardy!Worker,
           Tardy!smp_secondary_entry(w) \/ Tardy!WorkerStep(w) \/ Tardy!hang(w)
    PROVE  TardyInv'
<1>1. UNCHANGED <<left, cpc, call, calls>>
    BY DEF Tardy!smp_secondary_entry, Tardy!WorkerStep, Tardy!hang, Tardy!quiet, Tardy!caller,
       Tardy!loop_enter, Tardy!loop_notice, Tardy!loop_leave, Tardy!load_fn, Tardy!load_lo,
       Tardy!load_hi, Tardy!run_fn, Tardy!smp_park_self, Tardy!store_res, Tardy!store_done,
       Tardy!poll_first, Tardy!poll_init, Tardy!poll_again, Tardy!poll_notice, Tardy!poll_nothing
<1>2. /\ pc' = pc /\ cur' = cur
      /\ \A v : (AskedOff(v)' <=> AskedOff(v)) /\ (Open(v)' <=> Open(v))
    BY <1>1 DEF AskedOff, Posted, Open, cur, pc
<1>3. online' \in [Tardy!Worker -> BOOLEAN] /\ \A v \in Tardy!Worker : online[v] => online'[v]
    BY DEF TardyInv, Tardy!smp_secondary_entry, Tardy!WorkerStep, Tardy!hang,
       Tardy!loop_enter, Tardy!loop_notice, Tardy!loop_leave, Tardy!load_fn, Tardy!load_lo,
       Tardy!load_hi, Tardy!run_fn, Tardy!smp_park_self, Tardy!store_res, Tardy!store_done,
       Tardy!poll_first, Tardy!poll_init, Tardy!poll_again, Tardy!poll_notice, Tardy!poll_nothing
<1>4. wpc[w] # "parked" /\ \E to : wpc' = [wpc EXCEPT ![w] = to]
    BY DEF Tardy!smp_secondary_entry, Tardy!WorkerStep, Tardy!hang, Tardy!Goto,
       Tardy!loop_enter, Tardy!loop_notice, Tardy!loop_leave, Tardy!load_fn, Tardy!load_lo,
       Tardy!load_hi, Tardy!run_fn, Tardy!smp_park_self, Tardy!store_res, Tardy!store_done,
       Tardy!poll_first, Tardy!poll_init, Tardy!poll_again, Tardy!poll_notice, Tardy!poll_nothing
<1>5. /\ wpc' = [v \in Tardy!Worker |-> wpc'[v]]
      /\ \A v \in Tardy!Worker : wpc[v] = "parked" => wpc'[v] = "parked"
    BY <1>4 DEF TardyInv
<1>6. Shape'
    BY Zenon, <1>1, <1>2 DEF TardyInv, Shape
<1>7. pc \in PostPcs \ {"post"} => online'[cur.c]
  <2>1. cur.c < cur.nc => cur.c \in Tardy!Worker
      BY PoolConstants, ShapeIs DEF TardyInv, Tardy!Worker
  <2> QED  BY <1>3, <2>1 DEF TardyInv
<1> QED  BY Zenon, <1>1, <1>2, <1>3, <1>5, <1>6, <1>7 DEF TardyInv

\* A step of the caller that asks no core and gives none up.
LEMMA TardySame ==
    ASSUME TardyInv, Shape', UNCHANGED <<left, wpc, online>>, calls' \in Nat, cur'.c <= cur'.nc,
           pc' \in PostPcs \ {"post"} => cur'.c < cur'.nc /\ online[cur'.c],
           pc' = "read" => cur'.c < cur'.nc, cur'.fn = -1 => cur'.nc = NCORES,
           pc' \in {"confirm", "gone"} => cur'.fn = -1,
           pc' = "gone" => cur'.c = cur'.nc,
           pc' \in {"collect", "read", "ret"} => cur'.fn # -1,
           \A w \in Tardy!Worker : AskedOff(w)' => AskedOff(w) /\ (Open(w) => Open(w)')
    PROVE  TardyInv'
<1>1. \A w \in Tardy!Worker :
         AskedOff(w)' => left'[w] # "no" \/ wpc'[w] = "parked" \/ (Open(w)' /\ online'[w])
    BY Zenon DEF TardyInv
<1> QED  BY Zenon, <1>1 DEF TardyInv

LEMMA TardyCaller ==
    ASSUME TardyInv, Tardy!CallerStep("p")
    PROVE  TardyInv'
<1>1. /\ Shape /\ cur.nc \in 1..NCORES /\ cur.c \in 1..NCORES /\ NCORES \in Nat /\ NCORES > 1
      /\ Tardy!Worker = 1..(NCORES - 1) /\ calls \in Nat /\ cur.c <= cur.nc
      /\ (cur.c < cur.nc => cur.c \in Tardy!Worker /\ cur.c + 1 \in 1..NCORES)
    BY PoolConstants, ShapeIs DEF TardyInv, Tardy!Worker
<1>2. CASE Tardy!smp_parallel_sum("p") \/ Tardy!kernel_chainload("p")
  <2>1. /\ UNCHANGED <<left, wpc, online>> /\ cpc' = [cpc EXCEPT !["p"] = "post"] /\ calls' = calls + 1
      BY <1>2 DEF Tardy!smp_parallel_sum, Tardy!kernel_chainload, Tardy!worker
  <2>3. /\ Shape' /\ pc' = "post" /\ cur'.c = 1 /\ cur'.nc \in 1..NCORES
        /\ (cur'.fn = -1 => cur'.nc = NCORES)
    <3>1. CASE Tardy!smp_parallel_sum("p")
      <4>1. PICK n \in Sizes, ncores \in 0..(NCORES + 1) :
                call' = [call EXCEPT !["p"] =
                    [fn |-> calls + 1, n |-> IF n < 0 THEN 0 ELSE n, c |-> 1, total |-> << >>,
                     nc |-> IF ncores < 1 THEN 1 ELSE IF ncores > NCORES THEN NCORES ELSE ncores]]
          BY <3>1 DEF Tardy!smp_parallel_sum
      <4> DEFINE k == IF ncores < 1 THEN 1 ELSE IF ncores > NCORES THEN NCORES ELSE ncores
                 m == IF n < 0 THEN 0 ELSE n
                 r == [fn |-> calls + 1, n |-> m, c |-> 1, total |-> << >>, nc |-> k]
      <4>2. k \in 1..NCORES /\ calls + 1 \in Int /\ calls + 1 # -1 /\ 1 \in 1..NCORES
          BY <1>1
      <4>3. call' = [call EXCEPT !["p"] = r]
          BY <4>1
      <4> HIDE DEF k, m
      <4>4. r \in Recs(m, << >>) /\ r.c = 1 /\ r.nc = k /\ r.fn = calls + 1
          BY <4>2 DEF Recs
      <4> HIDE DEF r
      <4>5. Shape' /\ pc' = "post" /\ cur' = r
          BY <1>1, <2>1, <4>3, <4>4, ShapeNew
      <4> QED  BY <4>2, <4>4, <4>5
    <3>2. CASE Tardy!kernel_chainload("p")
      <4> DEFINE r == [Tardy!NoCall EXCEPT !.fn = -1, !.nc = NCORES]
      <4>1. call' = [call EXCEPT !["p"] = r]
          BY <3>2 DEF Tardy!kernel_chainload, Tardy!Park
      <4>2. -1 \in Int /\ 0 \in Int /\ NCORES \in 1..NCORES /\ 1 \in 1..NCORES
          BY <1>1
      <4>3. Tardy!NoCall \in Recs(0, << >>) /\ Tardy!NoCall.c = 1
          BY <4>2 DEF Recs, Tardy!NoCall
      <4>4. r \in Recs(0, << >>) /\ r.c = 1 /\ r.nc = NCORES /\ r.fn = -1
          BY Zenon, <4>2, <4>3 DEF Recs
      <4> HIDE DEF r
      <4>5. Shape' /\ pc' = "post" /\ cur' = r
          BY <1>1, <2>1, <4>1, <4>4, ShapeNew
      <4> QED  BY <4>2, <4>4, <4>5
    <3> QED  BY <1>2, <3>1, <3>2
  <2>4. \A w \in Tardy!Worker : ~AskedOff(w)'
      BY <1>1, <2>3 DEF AskedOff, Posted, PostPcs
  <2> QED  BY <1>1, <2>1, <2>3, <2>4, TardySame DEF PostPcs
<1>3. CASE Tardy!returned("p")
  <2>1. /\ UNCHANGED <<left, wpc, online, calls>> /\ cpc' = [cpc EXCEPT !["p"] = "idle"]
        /\ call' = [call EXCEPT !["p"] = Tardy!NoCall]
      BY <1>3 DEF Tardy!returned, Tardy!worker
  <2>2. 0 \in Int /\ 1 \in 1..NCORES
      BY <1>1
  <2>3. /\ Tardy!NoCall \in Recs(0, << >>) /\ Tardy!NoCall.c = 1 /\ Tardy!NoCall.nc = 1
        /\ Tardy!NoCall.fn = 0
      BY <2>2 DEF Recs, Tardy!NoCall
  <2>4. Shape' /\ pc' = "idle" /\ cur'.c = 1 /\ cur'.nc = 1 /\ cur'.fn = 0
    <3>1. Shape' /\ pc' = "idle" /\ cur' = Tardy!NoCall
        BY <1>1, <2>1, <2>3, ShapeNew
    <3> QED  BY <2>3, <3>1
  <2>5. \A w \in Tardy!Worker : ~AskedOff(w)'
      BY <2>4 DEF AskedOff, Posted
  <2> QED  BY <1>1, <2>1, <2>4, <2>5, TardySame DEF PostPcs
<1>4. CASE Tardy!collect_offline("p") \/ Tardy!collect_done("p") \/ Tardy!collect_timeout("p")
           \/ Tardy!read_res("p") \/ Tardy!return("p")
  <2>1. PICK place, c, rs :
          /\ UNCHANGED <<left, online>> /\ pc \in {"collect", "read"}
          /\ place \in {"collect", "read", "ret"} /\ c \in 1..NCORES /\ c <= cur.nc
          /\ place = "read" => c < cur.nc
          /\ Tardy!Proceed("p", place, c, rs)
    <3>1. pc = "read" => cur.c < cur.nc
        BY DEF TardyInv
    <3>2. CASE Tardy!collect_offline("p") \/ Tardy!collect_done("p") \/ Tardy!collect_timeout("p")
      <4>1. /\ UNCHANGED <<left, online>> /\ pc = "collect" /\ cur.c < cur.nc
            /\ \/ Tardy!Proceed("p", "collect", cur.c + 1, << >>)
               \/ Tardy!Proceed("p", "read", cur.c, << >>)
          BY <3>2 DEF Tardy!collect_offline, Tardy!collect_done, Tardy!collect_timeout, Tardy!At, pc, cur
      <4>2. cur.c + 1 <= cur.nc
          BY <1>1, <4>1
      <4> QED  BY <1>1, <4>1, <4>2
    <3>3. CASE Tardy!read_res("p")
      <4>1. /\ UNCHANGED <<left, online>> /\ pc = "read"
            /\ Tardy!Proceed("p", "collect", cur.c + 1, <<res[cur.c]>>)
          BY <3>3 DEF Tardy!read_res, Tardy!At, pc, cur
      <4>2. cur.c + 1 <= cur.nc /\ cur.c + 1 \in 1..NCORES
          BY <1>1, <3>1, <4>1
      <4> QED  BY <4>1, <4>2
    <3>4. CASE Tardy!return("p")
      <4>1. /\ UNCHANGED <<left, online>> /\ pc = "collect" /\ Tardy!Proceed("p", "ret", cur.c, << >>)
          BY <3>4 DEF Tardy!return, Tardy!At, pc, cur
      <4> QED  BY <1>1, <4>1
    <3> QED  BY <1>4, <3>2, <3>3, <3>4
  <2>2. /\ Shape' /\ pc' = place /\ cur'.c = c /\ cur'.fn = cur.fn /\ cur'.nc = cur.nc /\ calls' = calls
        /\ wpc' = wpc
      BY <1>1, <2>1, TardyProceeds
  <2>3. cur.fn # -1
      BY <2>1 DEF TardyInv
  <2>4. \A w \in Tardy!Worker : ~AskedOff(w)'
      BY <2>2, <2>3 DEF AskedOff
  <2> QED  BY <1>1, <2>1, <2>2, <2>3, <2>4, TardySame DEF PostPcs
<1>5. CASE Tardy!post_fn("p") \/ Tardy!post_lo("p") \/ Tardy!post_hi("p")
  <2>1. PICK place :
          /\ UNCHANGED <<left, wpc, online>> /\ pc \in PostPcs /\ place \in PostPcs
          /\ cur.c < cur.nc /\ online[cur.c] /\ Tardy!Proceed("p", place, cur.c, << >>)
    <3>1. pc \in PostPcs \ {"post"} => cur.c < cur.nc /\ online[cur.c]
        BY DEF TardyInv
    <3> QED  BY <1>5, <3>1 DEF Tardy!post_fn, Tardy!post_lo, Tardy!post_hi, Tardy!worker, Tardy!At,
         Tardy!Proceed, pc, cur, PostPcs
  <2>2. Shape' /\ pc' = place /\ cur'.c = cur.c /\ cur'.fn = cur.fn /\ cur'.nc = cur.nc /\ calls' = calls
      BY <1>1, <2>1, TardyProceeds
  <2>3. \A w \in Tardy!Worker : AskedOff(w)' => AskedOff(w) /\ (Open(w) => Open(w)')
      BY <1>1, <2>1, <2>2 DEF AskedOff, Posted, Open, PostPcs
  <2>4. cur.fn = -1 => cur.nc = NCORES
      BY DEF TardyInv
  <2>5. pc' \notin {"read", "confirm", "gone", "collect", "ret"}
      BY <2>1, <2>2 DEF PostPcs
  <2> QED  BY <1>1, <2>1, <2>2, <2>3, <2>4, <2>5, TardySame
<1>6. CASE Tardy!own_chunk("p")
  <2>1. PICK place, rs :
          /\ UNCHANGED <<left, wpc, online>> /\ pc = "post" /\ cur.c = cur.nc
          /\ place = IF cur.fn = -1 THEN "confirm" ELSE "collect"
          /\ Tardy!Proceed("p", place, 1, rs)
      BY <1>6 DEF Tardy!own_chunk, Tardy!worker, Tardy!At, Tardy!Proceed, pc, cur, Tardy!Park
  <2>2. Shape' /\ pc' = place /\ cur'.c = 1 /\ cur'.fn = cur.fn /\ cur'.nc = cur.nc /\ calls' = calls
    <3>1. 1 \in 1..NCORES
        BY <1>1
    <3> QED  BY <1>1, <2>1, <3>1, TardyProceeds
  <2>3. \A w \in Tardy!Worker : AskedOff(w)' => AskedOff(w) /\ (Open(w) => Open(w)')
      BY <1>1, <2>1, <2>2 DEF AskedOff, Posted, Open, PostPcs
  <2>4. cur.fn = -1 => cur.nc = NCORES
      BY DEF TardyInv
  <2> QED  BY <1>1, <2>1, <2>2, <2>3, <2>4, TardySame DEF PostPcs
<1>7. CASE Tardy!chainload_stub("p")
  <2>1. /\ UNCHANGED <<left, wpc, online>> /\ pc = "confirm" /\ cur.c = cur.nc
        /\ Tardy!Proceed("p", "gone", cur.c, << >>)
      BY <1>7 DEF Tardy!chainload_stub, Tardy!worker, Tardy!At, Tardy!Proceed, pc, cur
  <2>2. Shape' /\ pc' = "gone" /\ cur'.c = cur.c /\ cur'.fn = cur.fn /\ cur'.nc = cur.nc /\ calls' = calls
      BY <1>1, <2>1, TardyProceeds
  <2>3. \A w \in Tardy!Worker : AskedOff(w)' => AskedOff(w) /\ (Open(w) => Open(w)')
      BY <1>1, <2>1, <2>2 DEF AskedOff, Posted, Open, PostPcs
  <2>4. cur.fn = -1 /\ cur.nc = NCORES
      BY <2>1 DEF TardyInv
  <2> QED  BY <1>1, <2>1, <2>2, <2>3, <2>4, TardySame DEF PostPcs
<1>8. CASE Tardy!post_offline("p") \/ Tardy!arm("p") \/ Tardy!confirm("p")
  <2> PICK v \in Nat : v = cur.c
      BY <1>1
  <2>1. v < cur.nc
      BY <1>8 DEF Tardy!post_offline, Tardy!arm, Tardy!confirm, Tardy!At, TardyInv, PostPcs, pc, cur
  <2>2. PICK place, rs :
          /\ Tardy!Proceed("p", place, v + 1, rs)
          /\ place = IF pc = "confirm" THEN "confirm" ELSE "post"
          /\ pc \in {"post", "arm", "confirm"}
      BY <1>8 DEF Tardy!post_offline, Tardy!arm, Tardy!confirm, Tardy!At, pc, cur
  <2>3. v \in Tardy!Worker /\ v + 1 \in 1..NCORES
      BY <1>1, <2>1
  <2>4. /\ Shape' /\ pc' = place /\ cur'.c = v + 1 /\ cur'.fn = cur.fn /\ cur'.nc = cur.nc
        /\ wpc' = wpc /\ calls' = calls
      BY <1>1, <2>2, <2>3, TardyProceeds
  <2>5. /\ \A w \in Tardy!Worker : w # v /\ AskedOff(w)' => AskedOff(w) /\ (Open(w) => Open(w)')
        /\ pc = "confirm" => AskedOff(v)
        /\ pc = "arm" => Open(v)'
      BY <1>1, <2>1, <2>2, <2>3, <2>4 DEF AskedOff, Posted, Open, PostPcs, TardyInv
  <2>6. /\ online' \in [Tardy!Worker -> BOOLEAN] /\ left' \in [Tardy!Worker -> {"no", "not_up", "given_up"}]
        /\ \A w \in Tardy!Worker : w # v => online'[w] = online[w] /\ left'[w] = left[w]
    <3>1. /\ online' = online \/ online' = [online EXCEPT ![v] = FALSE]
          /\ \/ left' = left \/ left' = [left EXCEPT ![v] = "not_up"]
             \/ left' = [left EXCEPT ![v] = IF left[v] = "no" THEN "given_up" ELSE left[v]]
        BY <1>8 DEF Tardy!post_offline, Tardy!arm, Tardy!confirm, cur
    <3>2. /\ left[v] \in {"no", "not_up", "given_up"} /\ online \in [Tardy!Worker -> BOOLEAN]
          /\ left \in [Tardy!Worker -> {"no", "not_up", "given_up"}]
        BY <2>3 DEF TardyInv
    <3>3. /\ online' \in [Tardy!Worker -> BOOLEAN]
          /\ \A w \in Tardy!Worker : w # v => online'[w] = online[w]
        BY <2>3, <3>1, <3>2
    <3>4. /\ left' \in [Tardy!Worker -> {"no", "not_up", "given_up"}]
          /\ \A w \in Tardy!Worker : w # v => left'[w] = left[w]
      <4> DEFINE u == IF left[v] = "no" THEN "given_up" ELSE left[v]
      <4>1. u \in {"no", "not_up", "given_up"}
          BY <3>2
      <4>2. left' = left \/ left' = [left EXCEPT ![v] = "not_up"] \/ left' = [left EXCEPT ![v] = u]
          BY <3>1
      <4> HIDE DEF u
      <4> QED  BY <2>3, <3>2, <4>1, <4>2
    <3> QED  BY <3>3, <3>4
  <2>7. AskedOff(v)' => left'[v] # "no" \/ wpc'[v] = "parked" \/ (Open(v)' /\ online'[v])
    <3> SUFFICES ASSUME AskedOff(v)'
                 PROVE  left'[v] # "no" \/ wpc'[v] = "parked" \/ (Open(v)' /\ online'[v])
        OBVIOUS
    <3>0. cur.fn = -1 /\ left \in [Tardy!Worker -> {"no", "not_up", "given_up"}]
        BY <2>4 DEF AskedOff, TardyInv
    <3>1. CASE Tardy!post_offline("p")
        BY <2>3, <3>0, <3>1 DEF Tardy!post_offline, Tardy!Park, cur
    <3>2. CASE Tardy!arm("p")
      <4>1. pc = "arm" /\ online' = online /\ online[v]
          BY <3>2 DEF Tardy!arm, Tardy!At, TardyInv, PostPcs, pc
      <4> QED  BY <2>5, <4>1
    <3>3. CASE Tardy!confirm("p")
      <4>1. pc = "confirm" /\ AskedOff(v)
          BY <2>5, <3>3 DEF Tardy!confirm, Tardy!At, pc
      <4>2. left[v] # "no" \/ wpc[v] = "parked" \/ online[v]
          BY <2>3, <4>1 DEF TardyInv
      <4>3. \/ (online[v] => wpc[v] = "parked") /\ left' = left
            \/ left' = [left EXCEPT ![v] = IF left[v] = "no" THEN "given_up" ELSE left[v]]
          BY <3>3 DEF Tardy!confirm, cur
      <4> QED  BY <2>3, <2>4, <3>0, <4>2, <4>3
    <3> QED  BY <1>8, <3>1, <3>2, <3>3
  <2>8. ASSUME NEW w \in Tardy!Worker, w # v, AskedOff(w)'
        PROVE  left'[w] # "no" \/ wpc'[w] = "parked" \/ (Open(w)' /\ online'[w])
      BY Zenon, <2>4, <2>5, <2>6, <2>8 DEF TardyInv
  <2>9. /\ cur.fn = -1 => cur.nc = NCORES
        /\ pc = "confirm" => cur.fn = -1
      BY DEF TardyInv
  <2>10. /\ v + 1 <= cur.nc /\ wpc = [w \in Tardy!Worker |-> wpc[w]]
         /\ pc' \in {"post", "confirm"} /\ (pc' = "confirm" => pc = "confirm")
      BY <1>1, <2>1, <2>2, <2>4 DEF TardyInv
  <2>11. \A w \in Tardy!Worker :
           AskedOff(w)' => left'[w] # "no" \/ wpc'[w] = "parked" \/ (Open(w)' /\ online'[w])
      BY <2>7, <2>8
  <2> QED  BY <1>1, <2>4, <2>6, <2>9, <2>10, <2>11 DEF TardyInv, PostPcs
<1> QED  BY <1>2, <1>3, <1>4, <1>5, <1>6, <1>7, <1>8 DEF Tardy!CallerStep

TardyHolds == scene = "slow" => TardyInv

LEMMA TardyAlways == Spec => []TardyHolds
<1>1. Init => TardyHolds
    BY TardyStarts DEF Init, RemoteScene, TardyHolds
<1>2. ASSUME TardyHolds, [Next]_allvars  PROVE TardyHolds'
  <2> SUFFICES ASSUME scene' = "slow"  PROVE TardyInv'
      BY DEF TardyHolds
  <2>1. scene = "slow"
      BY <1>2 DEF Next, RemoteScene, InPool, InAipl, allvars
  <2>2. TardyInv
      BY <1>2, <2>1 DEF TardyHolds
  <2>3. CASE UNCHANGED <<online, cpc, call, calls, wpc, left>>
    <3>1. pc' = pc /\ cur' = cur
        BY <2>3 DEF pc, cur
    <3>2. \A w : (AskedOff(w)' <=> AskedOff(w)) /\ (Open(w)' <=> Open(w))
        BY <3>1 DEF AskedOff, Posted, Open
    <3>3. Shape'
        BY <2>2, <2>3, <3>1 DEF TardyInv, Shape
    <3> QED  BY Zenon, <2>2, <2>3, <3>1, <3>2, <3>3 DEF TardyInv
  <2>4. CASE Tardy!Next
    <3>1. Tardy!smp_init \/ Tardy!smpsched_enable => UNCHANGED <<online, cpc, call, calls, wpc, left>>
        BY DEF Tardy!smp_init, Tardy!smpsched_enable, Tardy!caller, Tardy!worker
    <3> QED  BY <2>2, <2>3, <2>4, <3>1, TardyCaller, TardyWorker DEF Tardy!Next
  <2>5. CASE UNCHANGED poolvars
      BY <2>3, <2>5 DEF poolvars
  <2>6. Tardy!Next \/ UNCHANGED poolvars
      BY <1>2, <2>1 DEF Next, RemoteScene, InPool, InAipl, allvars
  <2> QED  BY <2>4, <2>5, <2>6
<1> QED  BY <1>1, <1>2, PTL DEF Spec

LEMMA TardyPromise ==
    ASSUME TardyInv
    PROVE  Tardy!SafeOverwrite
<1> SUFFICES ASSUME pc = "gone", NEW w \in Tardy!Worker
             PROVE  wpc[w] = "parked" \/ left[w] # "no"
    BY DEF Tardy!SafeOverwrite, Tardy!Gone, pc
<1>1. cur.fn = -1 /\ w < cur.nc
    BY PoolConstants DEF TardyInv, Tardy!Worker
<1>2. AskedOff(w) /\ ~Open(w)
    BY <1>1 DEF AskedOff, Posted, Open, PostPcs
<1> QED  BY <1>2 DEF TardyInv

\* kexec.c:46-49: when kernel_chainload overwrites the kernel every core has stopped but
\* those that had not entered their loop when they were asked to and those the wait
\* gave up on, whatever the cores, the ranges and the calls before; and unless a job
\* outlasts the wait, it gives up on none but a core that hangs inside a job.
THEOREM OverwriteIsSafe == Spec => []SafeOverwrite
<1>1. PoolHolds /\ TardyHolds => SafeOverwrite
    BY PoolPromises, TardyPromise DEF PoolHolds, TardyHolds, SafeOverwrite
<1> QED  BY <1>1, PoolAlways, TardyAlways, PTL

-----------------------------------------------------------------------------
(* Remote calls: the shapes of the tables and of the stack                 *)

Reqs(s) == Limits[s].requests
AnsMax(s) == Limits[s].answers
MeshMax(s) == Limits[s].gathers

\* Datagrams and frames as they occur: what asks belongs to a request, and a method
\* runs for one board.
Msgs(s) == {m \in Objects(s)!Message : m.kind \in {"Q", "B", "H"} => m.call >= 1}
Frames(s) == {f \in Objects(s)!Frame : f.op \in {"Q", "B"} => \E x \in Board : f.to = {x}}
Entries(s) == [from : Board \cup {0}, id : Nat, call : 0 .. Reqs(s)]
Got(s) == [from : Board, call : 0 .. Reqs(s)]
Awaits == [id : Nat, kind : {"", "gather", "probe", "call", "send", "broadcast"}]
Caches(s) == [0 .. AnsMax(s) - 1 -> Entries(s)]

ObjTypes(s) ==
    /\ net \subseteq Msgs(s) /\ ncalls \in 0 .. Reqs(s)
    /\ next_id \in [Board -> Nat \ {0}] /\ wait_id \in [Board -> Nat]
    /\ have \in [Board -> BOOLEAN] /\ reply \in [Board -> 0 .. Reqs(s)]
    /\ ans \in [Board -> Caches(s)] /\ ans_next \in [Board -> 0 .. AnsMax(s) - 1]
    /\ mwait \in [Board -> Awaits]
    /\ mgot \in [Board -> Seq(Got(s))] /\ \A b \in Board : Len(mgot[b]) <= MeshMax(s)
    /\ stack \in [Board -> Seq(Frames(s))]
    /\ runs \in [1 .. Reqs(s) -> Seq(Board)] /\ reboots \in Nat

LEMMA LimitsAre ==
    ASSUME NEW s, Objects(s)!ConstantsOK
    PROVE  /\ Reqs(s) \in Nat /\ AnsMax(s) \in Nat \ {0} /\ MeshMax(s) \in Nat \ {0} /\ Limits[s].ids \in Nat \ {0}
           /\ Limits[s].ops \subseteq {"call", "send", "broadcast", "gather", "probe"}
BY DEF Objects!ConstantsOK, Reqs, AnsMax, MeshMax

\* One value of a function replaced.
LEMMA PutIs ==
    ASSUME NEW S, NEW T, NEW f \in [S -> T], NEW g \in S, NEW v \in T
    PROVE  LET y == [f EXCEPT ![g] = v]
           IN  y \in [S -> T] /\ y[g] = v /\ \A x \in S : x # g => y[x] = f[x]
OBVIOUS

\* Datagrams.
LEMMA DatagramsAre ==
    ASSUME NEW s, NEW k \in {"Q", "R", "B", "H", "A"}, NEW b \in Board, NEW t \in SUBSET Board, NEW i \in Nat,
           NEW c \in 0 .. Reqs(s), k \in {"Q", "B", "H"} => c >= 1
    PROVE  /\ Objects(s)!Datagrams(k, b, t, i, c) \subseteq Msgs(s)
           /\ \A m \in Objects(s)!Datagrams(k, b, t, i, c) :
                 m.kind = k /\ m.from = b /\ m.to \in t /\ m.id = i /\ m.call = c
<1>1. ASSUME NEW x \in t
      PROVE  LET m == [kind |-> k, from |-> b, to |-> x, id |-> i, call |-> c]
             IN  m \in Msgs(s) /\ m.kind = k /\ m.from = b /\ m.to = x /\ m.id = i /\ m.call = c
    BY <1>1 DEF Msgs, Objects!Message, Reqs
<1> QED  BY <1>1 DEF Objects!Datagrams

LEMMA MsgIs ==
    ASSUME NEW s, Objects(s)!ConstantsOK, NEW m \in Msgs(s)
    PROVE  /\ m.kind \in {"Q", "R", "B", "H", "A"} /\ m.from \in Board /\ m.to \in Board /\ m.id \in Nat
           /\ m.call \in 0 .. Reqs(s) /\ (m.kind \in {"Q", "B", "H"} => m.call \in 1 .. Reqs(s))
<1>1. /\ m.kind \in {"Q", "R", "B", "H", "A"} /\ m.from \in Board /\ m.to \in Board /\ m.id \in Nat
      /\ m.call \in 0 .. Reqs(s) /\ (m.kind \in {"Q", "B", "H"} => m.call >= 1)
    BY DEF Msgs, Objects!Message, Reqs
<1> QED  BY <1>1, LimitsAre

\* Frames.
LEMMA FrameIs ==
    ASSUME NEW s, NEW f \in Frames(s)
    PROVE  /\ f.op \in {"call", "gather", "probe", "Q", "B"} /\ f.to \subseteq Board /\ f.id \in Nat
           /\ f.call \in 1 .. Reqs(s) /\ f.tries \in Nat /\ (f.op \in {"Q", "B"} => \E x \in Board : f.to = {x})
BY DEF Frames, Objects!Frame, Objects!Calls, Reqs

LEMMA FrameOf ==
    ASSUME NEW s, NEW o \in {"call", "gather", "probe", "Q", "B"}, NEW t \in SUBSET Board, NEW i \in Nat,
           NEW c \in 1 .. Reqs(s), NEW n \in Nat, o \in {"Q", "B"} => \E x \in Board : t = {x}
    PROVE  LET f == [op |-> o, to |-> t, id |-> i, call |-> c, tries |-> n]
           IN  f \in Frames(s) /\ f.op = o /\ f.to = t /\ f.id = i /\ f.call = c
BY DEF Frames, Objects!Frame, Objects!Calls, Reqs

\* ... of a call that waits, and of a method that runs.
LEMMA WaitFrame ==
    ASSUME NEW s, NEW o \in {"call", "gather", "probe"}, NEW t \in SUBSET Board, NEW i \in Nat,
           NEW c \in 1 .. Reqs(s), NEW n \in Nat
    PROVE  [op |-> o, to |-> t, id |-> i, call |-> c, tries |-> n] \in Frames(s)
<1>1. o \in {"call", "gather", "probe", "Q", "B"} /\ o \notin {"Q", "B"}
    OBVIOUS
<1> QED  BY <1>1, FrameOf

LEMMA RunFrame ==
    ASSUME NEW s, NEW o \in {"Q", "B"}, NEW x \in Board, NEW i \in Nat, NEW c \in 1 .. Reqs(s), NEW n \in Nat
    PROVE  [op |-> o, to |-> {x}, id |-> i, call |-> c, tries |-> n] \in Frames(s)
<1>1. o \in {"call", "gather", "probe", "Q", "B"} /\ {x} \in SUBSET Board
    OBVIOUS
<1> QED  BY <1>1, FrameOf

\* ... and of one repeated once more.
LEMMA FrameTry ==
    ASSUME NEW s, NEW f \in Frames(s)
    PROVE  LET y == [f EXCEPT !.tries = f.tries + 1]
           IN  y \in Frames(s) /\ y.op = f.op /\ y.to = f.to /\ y.id = f.id /\ y.call = f.call
<1>1. /\ f.op \in {"call", "gather", "probe", "Q", "B"} /\ f.to \in SUBSET Board /\ f.id \in Nat
      /\ f.call \in 1 .. Reqs(s) /\ f.tries + 1 \in Nat /\ (f.op \in {"Q", "B"} => \E x \in Board : f.to = {x})
    BY FrameIs
<1>2. f = [op |-> f.op, to |-> f.to, id |-> f.id, call |-> f.call, tries |-> f.tries]
    BY DEF Frames, Objects!Frame
<1>3. [f EXCEPT !.tries = f.tries + 1]
         = [op |-> f.op, to |-> f.to, id |-> f.id, call |-> f.call, tries |-> f.tries + 1]
    BY <1>2
<1> QED  BY <1>1, <1>3, FrameOf

\* The stack of a board: its top, one frame more, one frame less.
LEMMA TopIs ==
    ASSUME NEW s, NEW q \in Seq(Frames(s)), q # << >>
    PROVE  /\ Len(q) \in Nat \ {0} /\ q[Len(q)] \in Frames(s)
           /\ SubSeq(q, 1, Len(q) - 1) \in Seq(Frames(s)) /\ Len(SubSeq(q, 1, Len(q) - 1)) = Len(q) - 1
           /\ \A i \in 1 .. Len(q) - 1 : SubSeq(q, 1, Len(q) - 1)[i] = q[i]
<1>1. PICK l \in Nat : l = Len(q)
    BY LenProperties
<1>2. l # 0
    BY <1>1, EmptySeq
<1>3. l \in 1 .. l
    BY <1>2
<1>4. q[l] \in Frames(s)
    BY <1>1, <1>3, ElementOfSeq
<1>5. 1 \in 1 .. l + 1 /\ l - 1 \in 1 - 1 .. l /\ (l - 1) - 1 + 1 = l - 1
    BY <1>2
<1>6. \A i \in 1 .. l - 1 : i \in 1 .. l
    OBVIOUS
<1>7. SubSeq(q, 1, l - 1) = [i \in 1 .. l - 1 |-> q[i]]
    BY <1>1, <1>2
<1>8. SubSeq(q, 1, l - 1) \in Seq(Frames(s)) /\ Len(SubSeq(q, 1, l - 1)) = l - 1
  <2>1. \A i \in 1 .. l - 1 : q[i] \in Frames(s)
      BY <1>1, <1>6, ElementOfSeq
  <2>2. l - 1 \in Nat
      BY <1>2
  <2> QED  BY <1>7, <2>1, <2>2
<1> QED  BY <1>1, <1>2, <1>4, <1>7, <1>8

LEMMA PushIs ==
    ASSUME NEW s, NEW q \in Seq(Frames(s)), NEW f \in Frames(s)
    PROVE  /\ Append(q, f) \in Seq(Frames(s)) /\ Len(q) \in Nat /\ Len(Append(q, f)) = Len(q) + 1
           /\ Append(q, f)[Len(q) + 1] = f /\ \A i \in 1 .. Len(q) : Append(q, f)[i] = q[i]
BY AppendProperties, LenProperties

-----------------------------------------------------------------------------
(* Remote calls: every step keeps the shapes                               *)

\* A program may ask: its board is idle or runs a method, and a request is left.
LEMMA AskIs ==
    ASSUME NEW s, Objects(s)!ConstantsOK, ObjTypes(s), NEW b \in Board, Objects(s)!MayAsk(b)
    PROVE  /\ next_id[b] \in Nat \ {0} /\ ncalls + 1 \in 1 .. Reqs(s) /\ ncalls + 1 \in 0 .. Reqs(s)
           /\ Objects(s)!Following(next_id[b]) \in Nat \ {0} /\ next_id[b] + 1 \in Nat \ {0}
<1>1. Reqs(s) \in Nat /\ ncalls \in 0 .. Reqs(s) /\ next_id[b] \in Nat \ {0}
    BY LimitsAre DEF ObjTypes
<1>2. ncalls < Reqs(s)
    BY DEF Objects!MayAsk, Reqs
<1> QED  BY <1>1, <1>2 DEF Objects!Following

\* The call, method or gather on top of a board's stack.
LEMMA OnTop ==
    ASSUME NEW s, ObjTypes(s), NEW b \in Board, Objects(s)!Waits(b) \/ Objects(s)!Runs(b)
    PROVE  /\ stack[b] \in Seq(Frames(s)) /\ stack[b] # << >> /\ Len(stack[b]) \in Nat \ {0}
           /\ Objects(s)!Top(b) = stack[b][Len(stack[b])] /\ Objects(s)!Top(b) \in Frames(s)
           /\ SubSeq(stack[b], 1, Len(stack[b]) - 1) \in Seq(Frames(s))
<1>1. stack[b] \in Seq(Frames(s))
    BY DEF ObjTypes
<1>2. stack[b] # << >>
    BY DEF Objects!Waits, Objects!Runs, Objects!Idle
<1> QED  BY <1>1, <1>2, TopIs DEF Objects!Top

\* mesh_collect_put keeps the table within its bound.
LEMMA CollectTypes ==
    ASSUME NEW s, Objects(s)!ConstantsOK, ObjTypes(s), NEW b \in Board, NEW m \in Msgs(s),
           Objects(s)!mesh_collect_put(b, m)
    PROVE  mgot' \in [Board -> Seq(Got(s))] /\ \A x \in Board : Len(mgot'[x]) <= MeshMax(s)
<1> DEFINE G == Seq(Got(s))
           q == mgot[b]
           e == [from |-> m.from, call |-> m.call]
           v == IF Len(q) >= MeshMax(s) \/ \E i \in DOMAIN q : q[i].from = m.from THEN q ELSE Append(q, e)
<1>1. mgot \in [Board -> G] /\ q \in Seq(Got(s)) /\ \A x \in Board : Len(mgot[x]) <= MeshMax(s)
    BY DEF ObjTypes
<1>2. e \in Got(s)
    BY MsgIs DEF Got
<1>3. MeshMax(s) \in Nat
    BY LimitsAre
<1>4. mgot' = [mgot EXCEPT ![b] = v]
    BY DEF Objects!mesh_collect_put, MeshMax
<1>5. v \in Seq(Got(s)) /\ Len(v) <= MeshMax(s)
  <2>1. CASE Len(q) >= MeshMax(s) \/ \E i \in DOMAIN q : q[i].from = m.from
      BY <1>1, <2>1
  <2>2. CASE ~(Len(q) >= MeshMax(s) \/ \E i \in DOMAIN q : q[i].from = m.from)
    <3>1. PICK l \in Nat : l = Len(q)
        BY <1>1, LenProperties
    <3>2. l + 1 <= MeshMax(s)
        BY <1>3, <2>2, <3>1
    <3>3. Append(q, e) \in Seq(Got(s)) /\ Len(Append(q, e)) = l + 1
        BY <1>1, <1>2, <3>1, AppendProperties
    <3> QED  BY <2>2, <3>2, <3>3
  <2> QED  BY <2>1, <2>2
<1> HIDE DEF G, v
<1>6. v \in G
    BY <1>5 DEF G
<1>7. mgot' \in [Board -> G] /\ mgot'[b] = v /\ \A x \in Board : x # b => mgot'[x] = mgot[x]
    BY <1>1, <1>4, <1>6, PutIs
<1> QED  BY <1>1, <1>5, <1>7 DEF G

LEMMA ObjTypesKept ==
    ASSUME NEW s, Objects(s)!ConstantsOK, ObjTypes(s), Objects(s)!Next
    PROVE  ObjTypes(s)'
<1> USE DEF Objects!waiter, Objects!cache, Objects!mesh, Objects!history
<1> DEFINE Q == Seq(Frames(s))
<1>q. stack \in [Board -> Q]
    BY DEF ObjTypes
<1>t. /\ next_id \in [Board -> Nat \ {0}] /\ wait_id \in [Board -> Nat] /\ have \in [Board -> BOOLEAN]
      /\ reply \in [Board -> 0 .. Reqs(s)]
    BY DEF ObjTypes
<1>c. ans \in [Board -> Caches(s)] /\ ans_next \in [Board -> 0 .. AnsMax(s) - 1]
    BY DEF ObjTypes
<1>u. mwait \in [Board -> Awaits]
    BY DEF ObjTypes
<1>g. mgot \in [Board -> Seq(Got(s))] /\ \A x \in Board : Len(mgot[x]) <= MeshMax(s)
    BY DEF ObjTypes
<1>m. \A m \in net : m \in Msgs(s)
    BY DEF ObjTypes
<1> HIDE DEF Q
<1>1. ASSUME NEW b \in Board, NEW to \in Board, Objects(s)!aipl_remote_call(b, to)  PROVE ObjTypes(s)'
  <2>1. Objects(s)!MayAsk(b)
      BY <1>1 DEF Objects!aipl_remote_call
  <2>2. /\ next_id[b] \in Nat \ {0} /\ ncalls + 1 \in 1 .. Reqs(s) /\ ncalls + 1 \in 0 .. Reqs(s)
        /\ Objects(s)!Following(next_id[b]) \in Nat \ {0}
      BY <2>1, AskIs
  <2>3. ncalls' \in 0 .. Reqs(s) /\ ncalls' >= 1 /\ ncalls' = ncalls + 1
      BY <1>1, <2>2 DEF Objects!aipl_remote_call
  <2>4. next_id' \in [Board -> Nat \ {0}] /\ have' \in [Board -> BOOLEAN] /\ wait_id' \in [Board -> Nat]
    <3>1. /\ next_id' = [next_id EXCEPT ![b] = Objects(s)!Following(next_id[b])]
          /\ have' = [have EXCEPT ![b] = FALSE]
          /\ wait_id' = [wait_id EXCEPT ![b] = next_id[b]] \/ wait_id' = [wait_id EXCEPT ![b] = 0]
        BY <1>1 DEF Objects!aipl_remote_call
    <3> QED  BY <1>t, <2>2, <3>1
  <2>5. net' \subseteq Msgs(s)
    <3>1. Objects(s)!Datagrams("Q", b, {to}, next_id[b], ncalls') \subseteq Msgs(s)
        BY <2>2, <2>3, DatagramsAre
    <3> QED  BY Zenon, <1>1, <1>m, <3>1 DEF Objects!aipl_remote_call
  <2>6. stack' \in [Board -> Q]
    <3> DEFINE f == [op |-> "call", to |-> {to}, id |-> next_id[b], call |-> ncalls', tries |-> 0]
    <3>1. f \in Frames(s)
      <4>1. {to} \in SUBSET Board /\ ncalls' \in 1 .. Reqs(s)
          BY <2>2, <2>3
      <4> QED  BY Zenon, <2>2, <4>1, WaitFrame
    <3> HIDE DEF f
    <3>2. Append(stack[b], f) \in Q
        BY <1>q, <3>1, PushIs DEF Q
    <3>3. stack' = stack \/ stack' = [stack EXCEPT ![b] = Append(stack[b], f)]
        BY <1>1 DEF Objects!aipl_remote_call, Objects!Push, f
    <3> QED  BY ZenonT(40), <1>q, <3>2, <3>3, PutIs
  <2> QED  BY Zenon, <1>1, <2>3, <2>4, <2>5, <2>6 DEF Objects!aipl_remote_call, ObjTypes, Q
<1>2. ASSUME NEW b \in Board, NEW to \in Board, Objects(s)!aipl_remote_send(b, to)  PROVE ObjTypes(s)'
  <2>1. Objects(s)!MayAsk(b)
      BY <1>2 DEF Objects!aipl_remote_send
  <2>2. next_id[b] \in Nat \ {0} /\ ncalls + 1 \in 1 .. Reqs(s) /\ next_id[b] + 1 \in Nat \ {0}
      BY <2>1, AskIs
  <2>3. ncalls' \in 0 .. Reqs(s) /\ ncalls' >= 1
      BY <1>2, <2>1, <2>2, AskIs DEF Objects!aipl_remote_send
  <2>4. next_id' \in [Board -> Nat \ {0}]
    <3>1. next_id' = [next_id EXCEPT ![b] = next_id[b] + 1]
        BY <1>2 DEF Objects!aipl_remote_send
    <3> QED  BY <1>t, <2>2, <3>1
  <2>5. net' \subseteq Msgs(s)
    <3>1. Objects(s)!Datagrams("Q", b, {to}, next_id[b], ncalls') \subseteq Msgs(s)
        BY <2>2, <2>3, DatagramsAre
    <3> QED  BY <1>2, <1>m, <3>1 DEF Objects!aipl_remote_send
  <2> QED  BY Zenon, <1>2, <2>3, <2>4, <2>5 DEF Objects!aipl_remote_send, ObjTypes
<1>3. ASSUME NEW b \in Board, Objects(s)!aipl_mesh_bcast(b)  PROVE ObjTypes(s)'
  <2>1. Objects(s)!MayAsk(b)
      BY <1>3 DEF Objects!aipl_mesh_bcast
  <2>2. next_id[b] \in Nat \ {0} /\ Objects(s)!Following(next_id[b]) \in Nat \ {0}
      BY <2>1, AskIs
  <2>3. ncalls' \in 0 .. Reqs(s) /\ ncalls' >= 1
      BY <1>3, <2>1, AskIs DEF Objects!aipl_mesh_bcast
  <2>4. next_id' \in [Board -> Nat \ {0}]
    <3>1. next_id' = [next_id EXCEPT ![b] = Objects(s)!Following(next_id[b])]
        BY <1>3 DEF Objects!aipl_mesh_bcast
    <3> QED  BY <1>t, <2>2, <3>1
  <2>5. net' \subseteq Msgs(s)
    <3>0. Board \ {b} \in SUBSET Board
        OBVIOUS
    <3>1. Objects(s)!Datagrams("B", b, Board \ {b}, next_id[b], ncalls') \subseteq Msgs(s)
        BY <2>2, <2>3, <3>0, DatagramsAre
    <3> QED  BY Zenon, <1>3, <1>m, <3>1 DEF Objects!aipl_mesh_bcast
  <2> QED  BY Zenon, <1>3, <2>3, <2>4, <2>5 DEF Objects!aipl_mesh_bcast, ObjTypes
<1>4. ASSUME NEW b \in Board, NEW o \in {"gather", "probe"}, Objects(s)!mesh_run(b, o)  PROVE ObjTypes(s)'
  <2>1. Objects(s)!MayAsk(b)
      BY <1>4 DEF Objects!mesh_run
  <2>2. next_id[b] \in Nat \ {0} /\ Objects(s)!Following(next_id[b]) \in Nat \ {0}
      BY <2>1, AskIs
  <2>3. ncalls' \in 0 .. Reqs(s) /\ ncalls' >= 1 /\ ncalls' \in 1 .. Reqs(s)
      BY <1>4, <2>1, AskIs DEF Objects!mesh_run
  <2>4. next_id' \in [Board -> Nat \ {0}]
    <3>1. next_id' = [next_id EXCEPT ![b] = Objects(s)!Following(next_id[b])]
        BY <1>4 DEF Objects!mesh_run
    <3> QED  BY <1>t, <2>2, <3>1
  <2>0. Board \ {b} \in SUBSET Board
      OBVIOUS
  <2>5. net' \subseteq Msgs(s)
    <3>0. Objects(s)!Wire(o) \in {"Q", "R", "B", "H", "A"}
        BY DEF Objects!Wire
    <3>1. Objects(s)!Datagrams(Objects(s)!Wire(o), b, Board \ {b}, next_id[b], ncalls') \subseteq Msgs(s)
        BY <2>0, <2>2, <2>3, <3>0, DatagramsAre
    <3> QED  BY Zenon, <1>4, <1>m, <3>1 DEF Objects!mesh_run
  <2>6. stack' \in [Board -> Q]
    <3> DEFINE f == [op |-> o, to |-> Board \ {b}, id |-> next_id[b], call |-> ncalls', tries |-> 0]
    <3>1. f \in Frames(s)
        BY <2>0, <2>2, <2>3, WaitFrame
    <3> HIDE DEF f
    <3>2. Append(stack[b], f) \in Q
        BY <1>q, <3>1, PushIs DEF Q
    <3>3. stack' = [stack EXCEPT ![b] = Append(stack[b], f)]
        BY <1>4 DEF Objects!mesh_run, Objects!Push, f
    <3> QED  BY <1>q, <3>2, <3>3, PutIs
  <2>7. mwait' \in [Board -> Awaits]
    <3>1. [id |-> next_id[b], kind |-> o] \in Awaits
        BY Zenon, <2>2 DEF Awaits
    <3> QED  BY <1>4, <1>u, <3>1, PutIs DEF Objects!mesh_run
  <2>8. mgot' \in [Board -> Seq(Got(s))] /\ \A x \in Board : Len(mgot'[x]) <= MeshMax(s)
    <3>1. mgot' = [mgot EXCEPT ![b] = << >>] /\ << >> \in Seq(Got(s)) /\ Len(<< >>) <= MeshMax(s)
        BY <1>4, LimitsAre, EmptySeq DEF Objects!mesh_run
    <3> QED  BY <1>g, <3>1
  <2> QED  BY Zenon, <1>4, <2>3, <2>4, <2>5, <2>6, <2>7, <2>8 DEF Objects!mesh_run, ObjTypes, Q
<1>5. ASSUME NEW b \in Board, Objects(s)!resend(b)  PROVE ObjTypes(s)'
  <2> DEFINE q == stack[b]
             f == Objects(s)!Top(b)
  <2>1. Objects(s)!Waits(b)
      BY <1>5 DEF Objects!resend
  <2>2. q \in Seq(Frames(s)) /\ q # << >> /\ Len(q) \in Nat \ {0} /\ f = q[Len(q)] /\ f \in Frames(s)
      BY <2>1, OnTop
  <2>3. f.op \in {"call", "gather", "probe"} /\ f.to \in SUBSET Board /\ f.id \in Nat /\ f.tries \in Nat
        /\ f.call \in 1 .. Reqs(s)
      BY <2>1, <2>2, FrameIs DEF Objects!Waits
  <2>4. net' \subseteq Msgs(s)
    <3>1. Objects(s)!Wire(f.op) \in {"Q", "R", "B", "H", "A"}
        BY DEF Objects!Wire
    <3>2. f.call \in 0 .. Reqs(s) /\ f.call >= 1
        BY <2>3, LimitsAre
    <3>3. Objects(s)!Datagrams(Objects(s)!Wire(f.op), b, f.to, f.id, f.call) \subseteq Msgs(s)
        BY <2>3, <3>1, <3>2, DatagramsAre
    <3> QED  BY <1>5, <1>m, <3>3 DEF Objects!resend
  <2>5. stack' \in [Board -> Q]
    <3>1. [f EXCEPT !.tries = f.tries + 1] \in Frames(s)
        BY <2>2, FrameTry
    <3>2. [q EXCEPT ![Len(q)] = [f EXCEPT !.tries = f.tries + 1]] \in Q
        BY <2>2, <3>1, ExceptSeq DEF Q
    <3>3. stack' = [stack EXCEPT ![b] = [q EXCEPT ![Len(q)] = [f EXCEPT !.tries = f.tries + 1]]]
        BY <1>5, <2>2 DEF Objects!resend
    <3> QED  BY <1>q, <3>2, <3>3, PutIs
  <2> QED  BY Zenon, <1>5, <2>4, <2>5 DEF Objects!resend, ObjTypes, Q
<1>6. ASSUME NEW b \in Board, Objects(s)!call_returns(b) \/ Objects(s)!call_times_out(b)  PROVE ObjTypes(s)'
  <2>1. /\ Objects(s)!Waits(b) /\ wait_id' = [wait_id EXCEPT ![b] = 0] /\ stack' = Objects(s)!Popped(b)
        /\ UNCHANGED <<net, next_id, have, reply, ans, ans_next, mwait, mgot, ncalls, reboots, runs>>
      BY <1>6 DEF Objects!call_returns, Objects!call_times_out
  <2>2. stack' \in [Board -> Q]
    <3>1. SubSeq(stack[b], 1, Len(stack[b]) - 1) \in Q
        BY <2>1, OnTop DEF Q
    <3> QED  BY <1>q, <2>1, <3>1, PutIs DEF Objects!Popped
  <2>3. wait_id' \in [Board -> Nat]
      BY <1>t, <2>1
  <2> QED  BY Zenon, <2>1, <2>2, <2>3 DEF ObjTypes, Q
<1>7. ASSUME NEW b \in Board, Objects(s)!mesh_returns(b)  PROVE ObjTypes(s)'
  <2>1. /\ Objects(s)!Waits(b) /\ mwait' = [mwait EXCEPT ![b] = [id |-> 0, kind |-> ""]]
        /\ stack' = Objects(s)!Popped(b)
        /\ UNCHANGED <<net, next_id, wait_id, have, reply, ans, ans_next, mgot, ncalls, reboots, runs>>
      BY Zenon, <1>7 DEF Objects!mesh_returns
  <2>2. stack' \in [Board -> Q]
    <3>1. SubSeq(stack[b], 1, Len(stack[b]) - 1) \in Q
        BY Zenon, <2>1, OnTop DEF Q
    <3> QED  BY Zenon, <1>q, <2>1, <3>1, PutIs DEF Objects!Popped
  <2>3. mwait' \in [Board -> Awaits]
    <3>1. [id |-> 0, kind |-> ""] \in Awaits
        BY DEF Awaits
    <3> QED  BY Zenon, <1>u, <2>1, <3>1, PutIs
  <2> QED  BY Zenon, <2>1, <2>2, <2>3 DEF ObjTypes, Q
<1>8. ASSUME NEW b \in Board, NEW m \in net, Objects(s)!receive_R(b, m)  PROVE ObjTypes(s)'
  <2>1. m \in Msgs(s) /\ m.call \in 0 .. Reqs(s)
      BY <1>m, MsgIs
  <2>2. mgot' \in [Board -> Seq(Got(s))] /\ \A x \in Board : Len(mgot'[x]) <= MeshMax(s)
    <3>1. Objects(s)!mesh_collect_put(b, m) \/ mgot' = mgot
        BY <1>8 DEF Objects!receive_R
    <3> QED  BY <1>g, <2>1, <3>1, CollectTypes
  <2>3. have' \in [Board -> BOOLEAN] /\ reply' \in [Board -> 0 .. Reqs(s)]
    <3>1. \/ have' = [have EXCEPT ![b] = TRUE] /\ reply' = [reply EXCEPT ![b] = m.call]
          \/ have' = have /\ reply' = reply
        BY <1>8 DEF Objects!receive_R
    <3> QED  BY Zenon, <1>t, <2>1, <3>1
  <2>4. net' \subseteq Msgs(s)
      BY <1>8, <1>m DEF Objects!receive_R
  <2> QED  BY Zenon, <1>8, <2>2, <2>3, <2>4 DEF Objects!receive_R, ObjTypes
<1>9. ASSUME NEW b \in Board, NEW m \in net, Objects(s)!receive_H(b, m)  PROVE ObjTypes(s)'
  <2>1. m \in Msgs(s) /\ m.call \in 0 .. Reqs(s) /\ m.id \in Nat /\ {m.from} \in SUBSET Board
      BY <1>m, MsgIs
  <2>2. Objects(s)!Datagrams("A", b, {m.from}, m.id, m.call) \subseteq Msgs(s)
      BY <2>1, DatagramsAre
  <2>3. net' \subseteq Msgs(s)
      BY <1>9, <1>m, <2>2 DEF Objects!receive_H
  <2> QED  BY Zenon, <1>9, <2>3 DEF Objects!receive_H, ObjTypes
<1>10. ASSUME NEW b \in Board, NEW m \in net, Objects(s)!receive_A(b, m)  PROVE ObjTypes(s)'
  <2>1. m \in Msgs(s)
      BY <1>m
  <2>2. mgot' \in [Board -> Seq(Got(s))] /\ \A x \in Board : Len(mgot'[x]) <= MeshMax(s)
    <3>1. Objects(s)!mesh_collect_put(b, m) \/ mgot' = mgot
        BY <1>10 DEF Objects!receive_A
    <3> QED  BY <1>g, <2>1, <3>1, CollectTypes
  <2>4. net' \subseteq Msgs(s)
      BY <1>10, <1>m DEF Objects!receive_A
  <2> QED  BY Zenon, <1>10, <2>2, <2>4 DEF Objects!receive_A, ObjTypes
<1>11. ASSUME NEW b \in Board, NEW m \in net, Objects(s)!receive_again(b, m)  PROVE ObjTypes(s)'
  <2>1. m \in Msgs(s) /\ m.id \in Nat /\ {m.from} \in SUBSET Board
      BY <1>m, MsgIs
  <2>2. PICK i \in DOMAIN ans[b] :
           net' = (net \ {m}) \cup IF m.kind = "Q"
                                   THEN Objects(s)!Datagrams("R", b, {m.from}, m.id, ans[b][i].call) ELSE {}
      BY <1>11 DEF Objects!receive_again, Objects!ans_lookup
  <2>3. ans[b][i].call \in 0 .. Reqs(s)
      BY Zenon, <1>c DEF Caches, Entries
  <2>4. Objects(s)!Datagrams("R", b, {m.from}, m.id, ans[b][i].call) \subseteq Msgs(s)
      BY <2>1, <2>3, DatagramsAre
  <2>5. net' \subseteq Msgs(s)
      BY <1>m, <2>2, <2>4
  <2> QED  BY Zenon, <1>11, <2>5 DEF Objects!receive_again, ObjTypes
<1>12. ASSUME NEW b \in Board, NEW m \in net, Objects(s)!receive_new(b, m)  PROVE ObjTypes(s)'
  <2>1. m \in Msgs(s) /\ m.id \in Nat /\ m.from \in Board /\ m.kind \in {"Q", "B"} /\ m.call \in 1 .. Reqs(s)
      BY <1>m, <1>12, MsgIs DEF Objects!receive_new
  <2>2. stack' \in [Board -> Q]
    <3> DEFINE f == [op |-> m.kind, to |-> {m.from}, id |-> m.id, call |-> m.call, tries |-> 0]
    <3>1. f \in Frames(s)
        BY <2>1, RunFrame
    <3> HIDE DEF f
    <3>2. Append(stack[b], f) \in Q
        BY <1>q, <3>1, PushIs DEF Q
    <3>3. stack' = [stack EXCEPT ![b] = Append(stack[b], f)]
        BY <1>12 DEF Objects!receive_new, Objects!Push, f
    <3> QED  BY <1>q, <3>2, <3>3, PutIs
  <2>3. runs' \in [1 .. Reqs(s) -> Seq(Board)]
    <3>1. runs \in [1 .. Reqs(s) -> Seq(Board)]
        BY DEF ObjTypes
    <3>2. Append(runs[m.call], b) \in Seq(Board)
        BY <2>1, <3>1, AppendProperties
    <3>3. runs' = [runs EXCEPT ![m.call] = Append(runs[m.call], b)]
        BY <1>12 DEF Objects!receive_new
    <3> QED  BY <2>1, <3>1, <3>2, <3>3, PutIs
  <2>4. net' \subseteq Msgs(s)
      BY <1>12, <1>m DEF Objects!receive_new
  <2> QED  BY Zenon, <1>12, <2>2, <2>3, <2>4 DEF Objects!receive_new, ObjTypes, Q
<1>13. ASSUME NEW b \in Board, Objects(s)!method_done(b)  PROVE ObjTypes(s)'
  <2> DEFINE f == Objects(s)!Top(b)
  <2>1. Objects(s)!Runs(b)
      BY <1>13 DEF Objects!method_done
  <2>2. f \in Frames(s) /\ SubSeq(stack[b], 1, Len(stack[b]) - 1) \in Q
      BY <2>1, OnTop DEF Q
  <2>3. f.op \in {"Q", "B"}
      BY <2>1 DEF Objects!Runs
  <2> HIDE DEF f
  <2>4. PICK x \in Board : f.to = {x}
      BY <2>2, <2>3, FrameIs
  <2>5. f.id \in Nat /\ f.call \in 1 .. Reqs(s) /\ f.call \in 0 .. Reqs(s)
      BY <2>2, FrameIs, LimitsAre
  <2> DEFINE e == [from |-> x, id |-> f.id, call |-> f.call]
  <2>6. e \in Entries(s)
      BY <2>5 DEF Entries
  <2>7. ans' = [ans EXCEPT ![b][ans_next[b]] = e] /\ ans_next' = [ans_next EXCEPT ![b] = (ans_next[b] + 1) % AnsMax(s)]
    <3>1. (CHOOSE y \in f.to : TRUE) = x
        BY <2>4
    <3> QED  BY Zenon, <1>13, <3>1 DEF Objects!method_done, Objects!ans_store, AnsMax, f
  <2>8. ans' \in [Board -> Caches(s)] /\ ans_next' \in [Board -> 0 .. AnsMax(s) - 1]
    <3> HIDE DEF e
    <3>0. AnsMax(s) \in Nat \ {0} /\ ans_next[b] \in 0 .. AnsMax(s) - 1 /\ ans[b] \in Caches(s)
        BY <1>c, LimitsAre
    <3>1. [ans[b] EXCEPT ![ans_next[b]] = e] \in Caches(s)
        BY <2>6, <3>0 DEF Caches
    <3>2. ans' = [ans EXCEPT ![b] = [ans[b] EXCEPT ![ans_next[b]] = e]]
        BY <2>7
    <3>3. (ans_next[b] + 1) % AnsMax(s) \in 0 .. AnsMax(s) - 1
        BY <3>0
    <3> QED  BY <1>c, <2>7, <3>1, <3>2, <3>3, PutIs
  <2>9. net' \subseteq Msgs(s)
    <3>1. Objects(s)!Datagrams("R", b, f.to, f.id, f.call) \subseteq Msgs(s)
        BY <2>4, <2>5, DatagramsAre
    <3> QED  BY <1>13, <1>m, <3>1 DEF Objects!method_done, f
  <2>10. stack' \in [Board -> Q]
      BY <1>13, <1>q, <2>2, PutIs DEF Objects!method_done, Objects!Popped
  <2> QED  BY Zenon, <1>13, <2>8, <2>9, <2>10 DEF Objects!method_done, ObjTypes, Q
<1>14. ASSUME NEW m \in net, Objects(s)!lose(m)  PROVE ObjTypes(s)'
    BY <1>14 DEF Objects!lose, ObjTypes
<1>15. ASSUME NEW b \in Board, Objects(s)!reboot(b)  PROVE ObjTypes(s)'
  <2>1. << >> \in Q /\ << >> \in Seq(Got(s)) /\ Len(<< >>) <= MeshMax(s) /\ AnsMax(s) \in Nat \ {0} /\ Reqs(s) \in Nat
      BY LimitsAre, EmptySeq DEF Q
  <2>2. [i \in 0 .. AnsMax(s) - 1 |-> Objects(s)!NoEntry] \in Caches(s)
      BY <2>1 DEF Caches, Entries, Objects!NoEntry, Objects!NoCall
  <2>3. ans' \in [Board -> Caches(s)]
      BY Zenon, <1>15, <1>c, <2>2, PutIs DEF Objects!reboot, AnsMax
  <2>4. ans_next' \in [Board -> 0 .. AnsMax(s) - 1]
    <3>1. ans_next' = [ans_next EXCEPT ![b] = 0]
        BY <1>15, Zenon DEF Objects!reboot
    <3>2. 0 \in 0 .. AnsMax(s) - 1
        BY <2>1
    <3> QED  BY <1>c, <3>1, <3>2, PutIs
  <2>5. mwait' \in [Board -> Awaits]
    <3>1. [id |-> 0, kind |-> ""] \in Awaits
        BY DEF Awaits
    <3> QED  BY Zenon, <1>15, <1>u, <3>1, PutIs DEF Objects!reboot
  <2>6. stack' \in [Board -> Q]
      BY Zenon, <1>15, <1>q, <2>1, PutIs DEF Objects!reboot
  <2>7. mgot' \in [Board -> Seq(Got(s))] /\ \A x \in Board : Len(mgot'[x]) <= MeshMax(s)
    <3>1. mgot' = [mgot EXCEPT ![b] = << >>]
        BY Zenon, <1>15 DEF Objects!reboot
    <3> QED  BY <1>g, <2>1, <3>1
  <2>8. /\ next_id' \in [Board -> Nat \ {0}] /\ wait_id' \in [Board -> Nat] /\ have' \in [Board -> BOOLEAN]
        /\ reply' \in [Board -> 0 .. Reqs(s)]
    <3>1. /\ next_id' = [next_id EXCEPT ![b] = 1] /\ wait_id' = [wait_id EXCEPT ![b] = 0]
          /\ have' = [have EXCEPT ![b] = FALSE] /\ reply' = [reply EXCEPT ![b] = 0]
        BY <1>15, Zenon DEF Objects!reboot, Objects!NoCall
    <3>2. 0 \in 0 .. Reqs(s)
        BY <2>1
    <3> QED  BY <1>t, <3>1, <3>2
  <2>9. UNCHANGED <<net, ncalls, runs>> /\ reboots' = reboots + 1
      BY <1>15, Zenon DEF Objects!reboot
  <2>10. net' \subseteq Msgs(s) /\ ncalls' \in 0 .. Reqs(s) /\ runs' \in [1 .. Reqs(s) -> Seq(Board)]
      BY <2>9 DEF ObjTypes
  <2>11. reboots' \in Nat
    <3>1. reboots \in Nat
        BY DEF ObjTypes
    <3> QED  BY <2>9, <3>1
  <2> QED  BY Zenon, <2>3, <2>4, <2>5, <2>6, <2>7, <2>8, <2>10, <2>11 DEF ObjTypes, Q
<1>16. CASE \E b \in Board : Objects(s)!ask(b) \/ Objects(s)!resend(b) \/ Objects(s)!progress(b) \/ Objects(s)!reboot(b)
    BY <1>1, <1>2, <1>3, <1>4, <1>5, <1>6, <1>7, <1>13, <1>15, <1>16 DEF Objects!ask, Objects!progress
<1>17. CASE \E m \in net :
              \/ \E b \in Board : \/ Objects(s)!receive_R(b, m) \/ Objects(s)!receive_H(b, m)
                                  \/ Objects(s)!receive_A(b, m) \/ Objects(s)!receive_again(b, m)
                                  \/ Objects(s)!receive_new(b, m)
              \/ Objects(s)!lose(m)
    BY <1>8, <1>9, <1>10, <1>11, <1>12, <1>14, <1>17
<1> QED  BY <1>16, <1>17 DEF Objects!Next

-----------------------------------------------------------------------------
(* Remote calls whose methods call nobody: who asked for what              *)

\* Every call belongs to one request: the board that made it, its id and the boards
\* it goes to.  No variable of the code says so; what the variables hold agrees with
\* one such assignment.
LeafReqs == Limits["leaf"].requests
LeafSlots == Limits["leaf"].answers
Owners == [1 .. LeafReqs -> [by : Board, id : Nat, to : SUBSET Board]]
Ran(R, c, b) == \E k \in DOMAIN R[c] : R[c][k] = b

Waiting == {"call", "gather", "probe"}
Method == {"Q", "B"}

\* The requests made: ids of one board differ and are below its next one.
Issued(own, nc, nx) ==
    /\ \A c \in 1 .. nc : own[c].id \in 1 .. nx[own[c].by] - 1
    /\ \A c, d \in 1 .. nc : own[c].by = own[d].by /\ own[c].id = own[d].id => c = d
    /\ \A b \in Board : nx[b] <= nc + 1

\* A datagram carries the id of its call, from the board that asked or back to it, and
\* an answer is one of a board that ran the method.
Sent(m, own, nc, R) ==
    /\ m.call \in 1 .. nc /\ m.id = own[m.call].id
    /\ m.kind \in {"Q", "B", "H"} => m.from = own[m.call].by /\ m.to \in own[m.call].to
    /\ m.kind \in {"R", "A"} => m.to = own[m.call].by
    /\ m.kind = "R" => Ran(R, m.call, m.from)

\* So does a frame of the stack of board b.
Framed(f, b, own, nc, R) ==
    /\ f.call \in 1 .. nc /\ f.id = own[f.call].id
    /\ f.op \in Waiting => own[f.call].by = b /\ own[f.call].to = f.to
    /\ f.op = "call" => \E x \in Board : f.to = {x}
    /\ f.op \in Method => f.to = {own[f.call].by} /\ Ran(R, f.call, b)

\* At most a method on top of a call that waits.
Stacked(q, b, own, nc, R) ==
    /\ \A i \in 1 .. Len(q) : Framed(q[i], b, own, nc, R)
    /\ Len(q) <= 2 /\ (Len(q) = 2 => q[1].op \in Waiting /\ q[2].op \in Method)

LEMMA NoneStacked ==
    ASSUME NEW q, NEW b, NEW own, NEW nc, NEW R, Len(q) = 0
    PROVE  Stacked(q, b, own, nc, R)
<1>1. Len(q) <= 2 /\ Len(q) # 2 /\ 1 .. Len(q) = {}
    OBVIOUS
<1> QED  BY Zenon, <1>1 DEF Stacked

\* g_wait_id is the id of the call that waits, and a reply that came is its own.
Replied(q, w, h, r, R) ==
    /\ w # 0 => Len(q) >= 1 /\ q[1].op = "call" /\ w = q[1].id
    /\ (Len(q) >= 1 /\ q[1].op = "call" /\ h) => r = q[1].call /\ \A x \in q[1].to : Ran(R, q[1].call, x)

\* g_mwait_id likewise, and what was collected are answers to it.
Collected(q, mw, mg, R) ==
    /\ mw.id # 0 => Len(q) >= 1 /\ q[1].op \in {"gather", "probe"} /\ q[1].op = mw.kind /\ mw.id = q[1].id
    /\ (Len(q) >= 1 /\ q[1].op \in {"gather", "probe"}) =>
          \A i \in DOMAIN mg :
             /\ mg[i].call = q[1].call
             /\ \A j \in DOMAIN mg : mg[i].from = mg[j].from => i = j
             /\ q[1].op = "gather" => Ran(R, q[1].call, mg[i].from)

\* The first n slots of the cache hold the answers to all methods that ran on b but
\* the running one, each once.
Answered(e, b, own, nc, R) ==
    /\ e.call \in 1 .. nc /\ e.from = own[e.call].by /\ e.id = own[e.call].id
    /\ Ran(R, e.call, b)
Methods(q) == {q[j].call : j \in {i \in 1 .. Len(q) : q[i].op \in Method}}
Cached(n, a, k, q, b, own, nc, R) ==
    /\ k = n % LeafSlots
    /\ \A i \in 0 .. n - 1 : Answered(a[i], b, own, nc, R) /\ a[i].call \notin Methods(q)
    /\ \A i \in n .. LeafSlots - 1 : a[i].id = 0
    /\ \A i, j \in 0 .. n - 1 : a[i].call = a[j].call => i = j
    /\ \A c \in 1 .. nc : Ran(R, c, b) => c \in Methods(q) \/ \E i \in 0 .. n - 1 : a[i].call = c

\* A method runs at most once per call and board, and only where it was asked for.
RanOnce(own, nc, R) ==
    \A c \in 1 .. LeafReqs :
       /\ \A i, j \in DOMAIN R[c] : R[c][i] = R[c][j] => i = j
       /\ \A i \in DOMAIN R[c] : c <= nc /\ R[c][i] \in own[c].to

\* What was handed to a program.
Handed(r, nc, R) ==
    /\ r.call \in 1 .. nc
    /\ \A i \in DOMAIN r.got :
          /\ r.got[i].call = r.call
          /\ \A j \in DOMAIN r.got : r.got[i].from = r.got[j].from => i = j
          /\ r.op # "probe" => Ran(R, r.call, r.got[i].from)

OnBoard(b, own) ==
    /\ Stacked(stack[b], b, own, ncalls, runs)
    /\ Replied(stack[b], wait_id[b], have[b], reply[b], runs)
    /\ Collected(stack[b], mwait[b], mgot[b], runs)
    /\ \E n \in 0 .. LeafSlots : Cached(n, ans[b], ans_next[b], stack[b], b, own, ncalls, runs)

Agreed(own) ==
    /\ Issued(own, ncalls, next_id)
    /\ \A m \in net : Sent(m, own, ncalls, runs)
    /\ \A b \in Board : OnBoard(b, own)
    /\ RanOnce(own, ncalls, runs)
    /\ \A r \in results : Handed(r, ncalls, runs)

LeafInv == ObjTypes("leaf") /\ \E own \in Owners : Agreed(own)

LEMMA LeafIs ==
    /\ Objects("leaf")!ConstantsOK
    /\ LeafReqs \in Nat /\ LeafSlots \in Nat \ {0} /\ LeafReqs <= LeafSlots
    /\ Limits["leaf"].ids \in Nat \ {0} /\ LeafReqs < Limits["leaf"].ids
    /\ Reqs("leaf") = LeafReqs /\ AnsMax("leaf") = LeafSlots
<1>1. Objects("leaf")!ConstantsOK
    BY CallsAssumption DEF RemoteScene
<1> QED  BY <1>1, LimitsAre, CallsAssumption DEF LeafReqs, LeafSlots, Reqs, AnsMax

-----------------------------------------------------------------------------
(* More requests and more methods that ran leave the rest as it was        *)

More(own, nc, R, own2, nc2, R2) ==
    /\ own \in Owners /\ own2 \in Owners /\ nc \in 0 .. LeafReqs /\ nc2 \in 0 .. LeafReqs /\ nc <= nc2
    /\ \A c \in 1 .. nc : own2[c] = own[c]
    /\ \A c \in 1 .. LeafReqs : \A b : Ran(R, c, b) => Ran(R2, c, b)

LEMMA MoreCalls ==
    ASSUME NEW own, NEW nc, NEW R, NEW own2, NEW nc2, NEW R2, More(own, nc, R, own2, nc2, R2), NEW c \in 1 .. nc
    PROVE  c \in 1 .. nc2 /\ c \in 1 .. LeafReqs /\ own2[c] = own[c] /\ \A b : Ran(R, c, b) => Ran(R2, c, b)
<1>1. c \in 1 .. nc2 /\ c \in 1 .. LeafReqs
    BY LeafIs DEF More
<1> QED  BY <1>1 DEF More

LEMMA SentMore ==
    ASSUME NEW own, NEW nc, NEW R, NEW own2, NEW nc2, NEW R2, More(own, nc, R, own2, nc2, R2),
           NEW m, Sent(m, own, nc, R)
    PROVE  Sent(m, own2, nc2, R2)
<1>1. m.call \in 1 .. nc
    BY DEF Sent
<1>2. m.call \in 1 .. nc2 /\ own2[m.call] = own[m.call] /\ \A b : Ran(R, m.call, b) => Ran(R2, m.call, b)
    BY <1>1, MoreCalls
<1> QED  BY <1>2 DEF Sent

LEMMA FramedMore ==
    ASSUME NEW own, NEW nc, NEW R, NEW own2, NEW nc2, NEW R2, More(own, nc, R, own2, nc2, R2),
           NEW f, NEW b, Framed(f, b, own, nc, R)
    PROVE  Framed(f, b, own2, nc2, R2)
<1>1. f.call \in 1 .. nc
    BY DEF Framed
<1>2. f.call \in 1 .. nc2 /\ own2[f.call] = own[f.call] /\ \A x : Ran(R, f.call, x) => Ran(R2, f.call, x)
    BY <1>1, MoreCalls
<1> QED  BY <1>2 DEF Framed

LEMMA StackMore ==
    ASSUME NEW own, NEW nc, NEW R, NEW own2, NEW nc2, NEW R2, More(own, nc, R, own2, nc2, R2),
           NEW q \in Seq(Frames("leaf")), NEW b, Stacked(q, b, own, nc, R)
    PROVE  /\ Stacked(q, b, own2, nc2, R2)
           /\ \A w, h, r : Replied(q, w, h, r, R) => Replied(q, w, h, r, R2)
           /\ \A mw, mg : Collected(q, mw, mg, R) => Collected(q, mw, mg, R2)
<1>1. Stacked(q, b, own2, nc2, R2)
    BY FramedMore DEF Stacked
<1>2. Len(q) \in Nat
    BY LenProperties
<1>3. Len(q) >= 1 => \A x : Ran(R, q[1].call, x) => Ran(R2, q[1].call, x)
  <2>1. Len(q) >= 1 => q[1].call \in 1 .. nc
      BY <1>2 DEF Stacked, Framed
  <2> QED  BY <2>1, MoreCalls
<1>4. \A w, h, r : Replied(q, w, h, r, R) => Replied(q, w, h, r, R2)
    BY <1>3 DEF Replied
<1>5. \A mw, mg : Collected(q, mw, mg, R) => Collected(q, mw, mg, R2)
    BY <1>3 DEF Collected
<1> QED  BY <1>1, <1>4, <1>5

LEMMA CacheMore ==
    ASSUME NEW own, NEW nc, NEW R, NEW own2, NEW nc2, NEW R2, More(own, nc, R, own2, nc2, R2),
           NEW b, \A c \in 1 .. nc2 : Ran(R2, c, b) => c \in 1 .. nc /\ Ran(R, c, b),
           NEW n, NEW a, NEW k, NEW q, Cached(n, a, k, q, b, own, nc, R)
    PROVE  Cached(n, a, k, q, b, own2, nc2, R2)
<1>1. ASSUME NEW i \in 0 .. n - 1  PROVE Answered(a[i], b, own2, nc2, R2) /\ a[i].call \notin Methods(q)
  <2>1. Answered(a[i], b, own, nc, R) /\ a[i].call \notin Methods(q)
      BY DEF Cached
  <2>2. a[i].call \in 1 .. nc
      BY <2>1 DEF Answered
  <2>3. /\ a[i].call \in 1 .. nc2 /\ own2[a[i].call] = own[a[i].call]
        /\ \A x : Ran(R, a[i].call, x) => Ran(R2, a[i].call, x)
      BY <2>2, MoreCalls
  <2> QED  BY <2>1, <2>3 DEF Answered
<1> QED  BY <1>1 DEF Cached

LEMMA HandedMore ==
    ASSUME NEW own, NEW nc, NEW R, NEW own2, NEW nc2, NEW R2, More(own, nc, R, own2, nc2, R2),
           NEW r, Handed(r, nc, R)
    PROVE  Handed(r, nc2, R2)
<1>1. r.call \in 1 .. nc
    BY DEF Handed
<1>2. r.call \in 1 .. nc2 /\ \A x : Ran(R, r.call, x) => Ran(R2, r.call, x)
    BY <1>1, MoreCalls
<1> QED  BY <1>2 DEF Handed

-----------------------------------------------------------------------------
(* The stack of a board                                                    *)

\* Only the methods on the stack matter to the cache.
LEMMA CacheOnly ==
    ASSUME NEW n, NEW a, NEW k, NEW q, NEW p, NEW b, NEW own, NEW nc, NEW R, Cached(n, a, k, q, b, own, nc, R),
           Methods(p) = Methods(q)
    PROVE  Cached(n, a, k, p, b, own, nc, R)
BY DEF Cached

\* The methods on a stack.
LEMMA MethodsAre ==
    ASSUME NEW q \in Seq(Frames("leaf"))
    PROVE  /\ Len(q) = 0 => Methods(q) = {}
           /\ Len(q) = 1 => Methods(q) = IF q[1].op \in Method THEN {q[1].call} ELSE {}
           /\ (Len(q) = 2 /\ q[1].op \in Waiting /\ q[2].op \in Method) => Methods(q) = {q[2].call}
<1>1. Len(q) = 0 => Methods(q) = {}
    BY DEF Methods
<1>2. ASSUME Len(q) = 1  PROVE Methods(q) = IF q[1].op \in Method THEN {q[1].call} ELSE {}
  <2>1. 1 .. Len(q) = {1}
      BY <1>2
  <2> QED  BY <2>1 DEF Methods
<1>3. ASSUME Len(q) = 2, q[1].op \in Waiting, q[2].op \in Method  PROVE Methods(q) = {q[2].call}
  <2>1. 1 .. Len(q) = {1, 2}
      BY <1>3
  <2>2. q[1].op \notin Method
      BY <1>3 DEF Waiting, Method
  <2> QED  BY <1>3, <2>1, <2>2 DEF Methods
<1> QED  BY <1>1, <1>2, <1>3

-----------------------------------------------------------------------------
(* Steps of one board                                                      *)

\* The variables of the boards other than b stay.
Elsewhere(b) ==
    \A x \in Board \ {b} :
       /\ stack'[x] = stack[x] /\ wait_id'[x] = wait_id[x] /\ have'[x] = have[x] /\ reply'[x] = reply[x]
       /\ mwait'[x] = mwait[x] /\ mgot'[x] = mgot[x] /\ ans'[x] = ans[x] /\ ans_next'[x] = ans_next[x]

LEMMA AgreedStep ==
    ASSUME NEW own, NEW own2, NEW b \in Board, ObjTypes("leaf"), Agreed(own),
           More(own, ncalls, runs, own2, ncalls', runs'), Issued(own2, ncalls', next_id'),
           \A m \in net' : m \in net \/ Sent(m, own2, ncalls', runs'), Elsewhere(b),
           \A x \in Board \ {b} : \A c \in 1 .. ncalls' : Ran(runs', c, x) => c \in 1 .. ncalls /\ Ran(runs, c, x),
           Stacked(stack'[b], b, own2, ncalls', runs'),
           Replied(stack'[b], wait_id'[b], have'[b], reply'[b], runs'),
           Collected(stack'[b], mwait'[b], mgot'[b], runs'),
           \E n \in 0 .. LeafSlots : Cached(n, ans'[b], ans_next'[b], stack'[b], b, own2, ncalls', runs'),
           RanOnce(own2, ncalls', runs'), \A r \in results' : r \in results \/ Handed(r, ncalls', runs')
    PROVE  Agreed(own2)'
<1>1. \A m \in net' : Sent(m, own2, ncalls', runs')
    BY SentMore DEF Agreed
<1>2. \A r \in results' : Handed(r, ncalls', runs')
    BY HandedMore DEF Agreed
<1>3. ASSUME NEW x \in Board, x # b
      PROVE  /\ Stacked(stack'[x], x, own2, ncalls', runs')
             /\ Replied(stack'[x], wait_id'[x], have'[x], reply'[x], runs')
             /\ Collected(stack'[x], mwait'[x], mgot'[x], runs')
             /\ \E n \in 0 .. LeafSlots : Cached(n, ans'[x], ans_next'[x], stack'[x], x, own2, ncalls', runs')
  <2>1. /\ stack'[x] = stack[x] /\ wait_id'[x] = wait_id[x] /\ have'[x] = have[x] /\ reply'[x] = reply[x]
        /\ mwait'[x] = mwait[x] /\ mgot'[x] = mgot[x] /\ ans'[x] = ans[x] /\ ans_next'[x] = ans_next[x]
      BY <1>3 DEF Elsewhere
  <2>2. OnBoard(x, own)
      BY DEF Agreed
  <2>3. stack[x] \in Seq(Frames("leaf"))
      BY DEF ObjTypes
  <2>4. /\ Stacked(stack[x], x, own, ncalls, runs)
        /\ Replied(stack[x], wait_id[x], have[x], reply[x], runs)
        /\ Collected(stack[x], mwait[x], mgot[x], runs)
      BY <2>2 DEF OnBoard
  <2>5. /\ Stacked(stack[x], x, own2, ncalls', runs')
        /\ Replied(stack[x], wait_id[x], have[x], reply[x], runs')
        /\ Collected(stack[x], mwait[x], mgot[x], runs')
      BY <2>3, <2>4, StackMore
  <2>6. PICK n \in 0 .. LeafSlots : Cached(n, ans[x], ans_next[x], stack[x], x, own, ncalls, runs)
      BY <2>2 DEF OnBoard
  <2>7. Cached(n, ans[x], ans_next[x], stack[x], x, own2, ncalls', runs')
    <3>1. \A c \in 1 .. ncalls' : Ran(runs', c, x) => c \in 1 .. ncalls /\ Ran(runs, c, x)
        BY <1>3
    <3> QED  BY <2>6, <3>1, CacheMore
  <2> QED  BY <2>1, <2>5, <2>7
<1>4. \A x \in Board : OnBoard(x, own2)'
    BY <1>3 DEF OnBoard
<1> QED  BY <1>1, <1>2, <1>4 DEF Agreed

LEMMA MoreSame ==
    ASSUME NEW own \in Owners, NEW nc \in 0 .. LeafReqs, NEW R  PROVE More(own, nc, R, own, nc, R)
BY DEF More

\* A step that makes no request and runs no method.
LEMMA QuietStep ==
    ASSUME NEW own \in Owners, NEW b \in Board, ObjTypes("leaf"), Agreed(own),
           next_id' = next_id, ncalls' = ncalls, runs' = runs,
           \A m \in net' : m \in net \/ Sent(m, own, ncalls, runs), Elsewhere(b),
           Stacked(stack'[b], b, own, ncalls, runs),
           Replied(stack'[b], wait_id'[b], have'[b], reply'[b], runs),
           Collected(stack'[b], mwait'[b], mgot'[b], runs),
           \E n \in 0 .. LeafSlots : Cached(n, ans'[b], ans_next'[b], stack'[b], b, own, ncalls, runs),
           \A r \in results' : r \in results \/ Handed(r, ncalls, runs)
    PROVE  Agreed(own)'
<1>1. ncalls \in 0 .. LeafReqs
    BY LeafIs DEF ObjTypes
<1>2. More(own, ncalls, runs, own, ncalls', runs')
    BY <1>1, MoreSame
<1>3. Issued(own, ncalls', next_id') /\ RanOnce(own, ncalls', runs')
    BY DEF Agreed
<1> QED  BY <1>2, <1>3, AgreedStep

\* What holds of a board before its step.
LEMMA BoardBefore ==
    ASSUME NEW own \in Owners, NEW b \in Board, ObjTypes("leaf"), Agreed(own)
    PROVE  /\ stack[b] \in Seq(Frames("leaf")) /\ Len(stack[b]) \in Nat /\ ncalls \in 0 .. LeafReqs
           /\ Stacked(stack[b], b, own, ncalls, runs)
           /\ Replied(stack[b], wait_id[b], have[b], reply[b], runs)
           /\ Collected(stack[b], mwait[b], mgot[b], runs)
           /\ \E n \in 0 .. LeafSlots : Cached(n, ans[b], ans_next[b], stack[b], b, own, ncalls, runs)
           /\ \A m \in net : Sent(m, own, ncalls, runs) /\ m \in Msgs("leaf")
           /\ Issued(own, ncalls, next_id) /\ RanOnce(own, ncalls, runs)
<1>1. OnBoard(b, own) /\ \A m \in net : Sent(m, own, ncalls, runs) /\ m \in Msgs("leaf")
    BY DEF Agreed, ObjTypes
<1>2. stack[b] \in Seq(Frames("leaf")) /\ ncalls \in 0 .. LeafReqs
    BY LeafIs DEF ObjTypes
<1>3. Issued(own, ncalls, next_id) /\ RanOnce(own, ncalls, runs)
    BY DEF Agreed
<1> QED  BY <1>1, <1>2, <1>3, LenProperties DEF OnBoard

\* Datagrams are lost.
LEMMA LeafLose ==
    ASSUME NEW own \in Owners, ObjTypes("leaf"), Agreed(own), NEW m \in net, Objects("leaf")!lose(m)
    PROVE  Agreed(own)'
<1>1. m.from \in Board
  <2>1. m \in Msgs("leaf")
      BY DEF ObjTypes
  <2> QED  BY <2>1, LeafIs, MsgIs
<1>2. /\ UNCHANGED <<next_id, wait_id, have, reply, ans, ans_next, mwait, mgot, stack, ncalls, runs, results>>
      /\ \A x \in net' : x \in net
    BY DEF Objects!lose, Objects!waiter, Objects!cache, Objects!mesh, Objects!history
<1>3. Elsewhere(m.from)
    BY <1>2 DEF Elsewhere
<1> HIDE DEF Elsewhere
<1> QED  BY <1>1, <1>2, <1>3, BoardBefore, QuietStep

\* A board that only answers.
LEMMA LeafProbed ==
    ASSUME NEW own \in Owners, ObjTypes("leaf"), Agreed(own), NEW b \in Board, NEW m \in net,
           Objects("leaf")!receive_H(b, m)
    PROVE  Agreed(own)'
<1>1. /\ UNCHANGED <<next_id, wait_id, have, reply, ans, ans_next, mwait, mgot, stack, ncalls, runs, results>>
      /\ net' = (net \ {m}) \cup Objects("leaf")!Datagrams("A", b, {m.from}, m.id, m.call) /\ m.kind = "H"
    BY DEF Objects!receive_H, Objects!waiter, Objects!cache, Objects!mesh, Objects!history
<1>2. Sent(m, own, ncalls, runs) /\ m \in Msgs("leaf")
    BY BoardBefore
<1>3. ASSUME NEW x \in Objects("leaf")!Datagrams("A", b, {m.from}, m.id, m.call)
      PROVE  Sent(x, own, ncalls, runs)
  <2>1. x.kind = "A" /\ x.to = m.from /\ x.id = m.id /\ x.call = m.call
      BY DEF Objects!Datagrams
  <2> QED  BY <1>1, <1>2, <2>1 DEF Sent
<1>4. Elsewhere(b)
    BY <1>1 DEF Elsewhere
<1> QED  BY Zenon, <1>1, <1>3, <1>4, BoardBefore, QuietStep

-----------------------------------------------------------------------------
(* Datagrams that arrive                                                   *)

\* Ids name calls: two that agree in the board that asked and in the id are the same.
LEMMA SameCall ==
    ASSUME NEW own, NEW nc, NEW nx, Issued(own, nc, nx), NEW c \in 1 .. nc, NEW d \in 1 .. nc,
           own[c].by = own[d].by, own[c].id = own[d].id
    PROVE  c = d /\ own[c].id # 0
BY DEF Issued

\* An entry of the cache for (from, id) is the answer to the call of that datagram.
LEMMA Found ==
    ASSUME NEW own, NEW nc, NEW nx, NEW R, Issued(own, nc, nx), NEW m, Sent(m, own, nc, R), m.kind \in {"Q", "B"},
           NEW n \in 0 .. LeafSlots, NEW a, NEW k, NEW q, NEW b, Cached(n, a, k, q, b, own, nc, R),
           NEW i \in 0 .. LeafSlots - 1, a[i].from = m.from, a[i].id = m.id
    PROVE  a[i].call = m.call /\ Ran(R, m.call, b)
<1>1. m.call \in 1 .. nc /\ m.id = own[m.call].id /\ m.from = own[m.call].by
    BY DEF Sent
<1>2. m.id # 0
    BY <1>1, SameCall
<1>3. i \in 0 .. n - 1
  <2>1. i \notin n .. LeafSlots - 1
      BY <1>2 DEF Cached
  <2> QED  BY <2>1, LeafIs
<1>4. Answered(a[i], b, own, nc, R)
    BY <1>3 DEF Cached
<1>5. a[i].call \in 1 .. nc /\ a[i].from = own[a[i].call].by /\ a[i].id = own[a[i].call].id /\ Ran(R, a[i].call, b)
    BY <1>4 DEF Answered
<1> QED  BY <1>1, <1>5, SameCall

\* ... and without an entry and a running method it did not run there.
LEMMA NotFound ==
    ASSUME NEW own, NEW nc, NEW R, NEW m, Sent(m, own, nc, R), m.kind \in {"Q", "B"},
           NEW n \in 0 .. LeafSlots, NEW a, NEW k, NEW q, NEW b, Cached(n, a, k, q, b, own, nc, R), Methods(q) = {},
           \A i \in 0 .. LeafSlots - 1 : ~(a[i].from = m.from /\ a[i].id = m.id)
    PROVE  ~Ran(R, m.call, b)
<1>1. m.call \in 1 .. nc /\ m.id = own[m.call].id /\ m.from = own[m.call].by
    BY DEF Sent
<1> SUFFICES ASSUME Ran(R, m.call, b)  PROVE FALSE
    OBVIOUS
<1>2. PICK i \in 0 .. n - 1 : a[i].call = m.call
    BY <1>1 DEF Cached
<1>3. Answered(a[i], b, own, nc, R)
    BY DEF Cached
<1>4. i \in 0 .. LeafSlots - 1
    BY LeafIs
<1> QED  BY <1>1, <1>2, <1>3, <1>4 DEF Answered

LEMMA LeafAgain ==
    ASSUME NEW own \in Owners, ObjTypes("leaf"), Agreed(own), NEW b \in Board, NEW m \in net,
           Objects("leaf")!receive_again(b, m)
    PROVE  Agreed(own)'
<1>1. /\ UNCHANGED <<next_id, wait_id, have, reply, ans, ans_next, mwait, mgot, stack, ncalls, runs, results>>
      /\ m.kind \in {"Q", "B"}
    BY DEF Objects!receive_again, Objects!waiter, Objects!cache, Objects!mesh, Objects!history
<1>2. PICK i \in DOMAIN ans[b] :
         /\ ans[b][i].from = m.from /\ ans[b][i].id = m.id
         /\ net' = (net \ {m}) \cup IF m.kind = "Q"
                     THEN Objects("leaf")!Datagrams("R", b, {m.from}, m.id, ans[b][i].call) ELSE {}
    BY DEF Objects!receive_again, Objects!ans_lookup
<1>3. i \in 0 .. LeafSlots - 1
  <2>1. ans[b] \in Caches("leaf")
      BY DEF ObjTypes
  <2> QED  BY <2>1, LeafIs DEF Caches
<1>4. Sent(m, own, ncalls, runs) /\ Issued(own, ncalls, next_id)
    BY BoardBefore
<1>5. PICK n \in 0 .. LeafSlots : Cached(n, ans[b], ans_next[b], stack[b], b, own, ncalls, runs)
    BY BoardBefore
<1>6. ans[b][i].call = m.call /\ Ran(runs, m.call, b)
    BY <1>1, <1>2, <1>3, <1>4, <1>5, Found
<1>7. ASSUME NEW x \in Objects("leaf")!Datagrams("R", b, {m.from}, m.id, ans[b][i].call)
      PROVE  Sent(x, own, ncalls, runs)
  <2>1. x.kind = "R" /\ x.from = b /\ x.to = m.from /\ x.id = m.id /\ x.call = m.call
      BY <1>6 DEF Objects!Datagrams
  <2> QED  BY <1>1, <1>4, <1>6, <2>1 DEF Sent
<1>8. \A x \in net' : x \in net \/ Sent(x, own, ncalls, runs)
    BY <1>2, <1>7
<1>9. Elsewhere(b)
    BY <1>1 DEF Elsewhere
<1> QED  BY <1>1, <1>8, <1>9, BoardBefore, QuietStep

\* The reply aipl_remote_call waits for is the one to its own request.
LEMMA ReplyMine ==
    ASSUME NEW own \in Owners, NEW nc \in 0 .. LeafReqs, NEW nx, NEW R, Issued(own, nc, nx), RanOnce(own, nc, R),
           NEW m, Sent(m, own, nc, R), m.kind = "R",
           NEW q \in Seq(Frames("leaf")), Stacked(q, m.to, own, nc, R), NEW h, NEW r, Replied(q, m.id, h, r, R)
    PROVE  Replied(q, m.id, TRUE, m.call, R)
<1>1. m.call \in 1 .. nc /\ m.id = own[m.call].id /\ m.to = own[m.call].by /\ Ran(R, m.call, m.from)
    BY DEF Sent
<1>2. m.id # 0
    BY <1>1, SameCall
<1>3. Len(q) >= 1 /\ q[1].op = "call" /\ m.id = q[1].id
    BY <1>2 DEF Replied
<1>4. Framed(q[1], m.to, own, nc, R)
  <2>1. 1 \in 1 .. Len(q)
      BY <1>3, LenProperties
  <2> QED  BY <2>1 DEF Stacked
<1>5. /\ q[1].call \in 1 .. nc /\ q[1].id = own[q[1].call].id /\ own[q[1].call].by = m.to
      /\ own[q[1].call].to = q[1].to /\ \E x \in Board : q[1].to = {x}
    BY <1>3, <1>4 DEF Framed, Waiting
<1>6. q[1].call = m.call
  <2>1. own[q[1].call].by = own[m.call].by /\ own[q[1].call].id = own[m.call].id
      BY <1>1, <1>3, <1>5
  <2>2. PICK c \in 1 .. nc : c = q[1].call
      BY <1>5
  <2>3. PICK d \in 1 .. nc : d = m.call
      BY <1>1
  <2>4. c = d
      BY SMTT(40), <2>1, <2>2, <2>3, SameCall
  <2> QED  BY <2>2, <2>3, <2>4
<1>7. m.from \in q[1].to
  <2>1. m.call \in 1 .. LeafReqs
      BY <1>1, LeafIs
  <2> QED  BY <1>1, <1>5, <1>6, <2>1 DEF RanOnce, Ran
<1>8. \A x \in q[1].to : x = m.from
    BY <1>5, <1>7
<1> QED  BY <1>1, <1>3, <1>6, <1>8 DEF Replied

\* What mesh_run collects are answers to its own request.
LEMMA CollectMine ==
    ASSUME NEW own \in Owners, NEW nc \in 0 .. LeafReqs, NEW nx, NEW R, Issued(own, nc, nx),
           NEW m, Sent(m, own, nc, R), NEW q \in Seq(Frames("leaf")), Stacked(q, m.to, own, nc, R),
           NEW mw, NEW mg \in Seq(Got("leaf")), Collected(q, mw, mg, R), mw.id = m.id,
           \/ m.kind = "R" /\ mw.kind = "gather"
           \/ m.kind = "A" /\ mw.kind = "probe",
           NEW e, e.from = m.from, e.call = m.call, \A i \in DOMAIN mg : mg[i].from # m.from
    PROVE  Collected(q, mw, Append(mg, e), R)
<1>1. m.call \in 1 .. nc /\ m.id = own[m.call].id /\ m.to = own[m.call].by /\ (m.kind = "R" => Ran(R, m.call, m.from))
    BY DEF Sent
<1>2. m.id # 0
    BY <1>1, SameCall
<1>3. Len(q) >= 1 /\ q[1].op \in {"gather", "probe"} /\ q[1].op = mw.kind /\ m.id = q[1].id
    BY <1>2 DEF Collected
<1>4. Framed(q[1], m.to, own, nc, R)
  <2>1. 1 \in 1 .. Len(q)
      BY <1>3, LenProperties
  <2> QED  BY <2>1 DEF Stacked
<1>5. q[1].call \in 1 .. nc /\ q[1].id = own[q[1].call].id /\ own[q[1].call].by = m.to
    BY <1>3, <1>4 DEF Framed, Waiting
<1>6. q[1].call = m.call
  <2>1. own[q[1].call].by = own[m.call].by /\ own[q[1].call].id = own[m.call].id
      BY <1>1, <1>3, <1>5
  <2>2. PICK c \in 1 .. nc : c = q[1].call
      BY <1>5
  <2>3. PICK d \in 1 .. nc : d = m.call
      BY <1>1
  <2>4. c = d
      BY <2>1, <2>2, <2>3, SameCall
  <2> QED  BY <2>2, <2>3, <2>4
<1>7. PICK l \in Nat : l = Len(mg) /\ DOMAIN mg = 1 .. l
    BY LenProperties
<1>8. /\ DOMAIN Append(mg, e) = 1 .. l + 1 /\ Append(mg, e)[l + 1] = e
      /\ \A i \in 1 .. l : Append(mg, e)[i] = mg[i]
    BY <1>7
<1>9. ASSUME NEW i \in DOMAIN mg
      PROVE  /\ mg[i].call = q[1].call /\ \A j \in DOMAIN mg : mg[i].from = mg[j].from => i = j
             /\ q[1].op = "gather" => Ran(R, q[1].call, mg[i].from)
    BY <1>3 DEF Collected
<1>10. q[1].op = "gather" => Ran(R, q[1].call, e.from)
    BY <1>1, <1>3, <1>6
<1>11. ASSUME NEW i \in 1 .. l + 1
       PROVE  /\ Append(mg, e)[i].call = q[1].call
              /\ \A j \in 1 .. l + 1 : Append(mg, e)[i].from = Append(mg, e)[j].from => i = j
              /\ q[1].op = "gather" => Ran(R, q[1].call, Append(mg, e)[i].from)
  <2>1. \A j \in 1 .. l + 1 : j = l + 1 \/ j \in 1 .. l
      OBVIOUS
  <2>2. CASE i = l + 1
      BY <1>6, <1>7, <1>8, <1>10, <2>1, <2>2
  <2>3. CASE i \in 1 .. l
      BY <1>7, <1>8, <1>9, <2>1, <2>3
  <2> QED  BY Zenon, <2>1, <2>2, <2>3
<1> QED  BY <1>2, <1>3, <1>8, <1>11 DEF Collected

LEMMA LeafReply ==
    ASSUME NEW own \in Owners, ObjTypes("leaf"), Agreed(own), NEW b \in Board, NEW m \in net,
           Objects("leaf")!receive_R(b, m) \/ Objects("leaf")!receive_A(b, m)
    PROVE  Agreed(own)'
<1> USE DEF Objects!receive_R, Objects!receive_A, Objects!Receives
<1>1. /\ UNCHANGED <<next_id, wait_id, ans, ans_next, mwait, stack, ncalls, runs, results>>
      /\ \A x \in net' : x \in net
      /\ m.to = b
    BY DEF Objects!waiter, Objects!cache, Objects!mesh, Objects!history
<1>2. \/ have' = have /\ reply' = reply
      \/ /\ m.kind = "R" /\ wait_id[b] = m.id
         /\ have' = [have EXCEPT ![b] = TRUE] /\ reply' = [reply EXCEPT ![b] = m.call]
    BY DEF Objects!Awaited, Objects!waiter
<1>3. \/ mgot' = mgot
      \/ /\ Objects("leaf")!mesh_collect_put(b, m)
         /\ \/ m.kind = "R" /\ mwait[b] = [id |-> m.id, kind |-> "gather"]
            \/ m.kind = "A" /\ mwait[b] = [id |-> m.id, kind |-> "probe"]
    OBVIOUS
<1> USE DEF Objects!mesh_collect_put
<1>4. /\ stack[b] \in Seq(Frames("leaf")) /\ ncalls \in 0 .. LeafReqs
      /\ Stacked(stack[b], b, own, ncalls, runs) /\ Replied(stack[b], wait_id[b], have[b], reply[b], runs)
      /\ Collected(stack[b], mwait[b], mgot[b], runs)
      /\ Sent(m, own, ncalls, runs) /\ Issued(own, ncalls, next_id) /\ RanOnce(own, ncalls, runs)
    BY BoardBefore
<1>5. /\ have \in [Board -> BOOLEAN] /\ reply \in [Board -> 0 .. Reqs("leaf")]
      /\ mgot \in [Board -> Seq(Got("leaf"))]
    BY Zenon DEF ObjTypes
<1>6. Replied(stack[b], wait_id[b], have'[b], reply'[b], runs)
  <2>1. CASE have' = have /\ reply' = reply
      BY <1>4, <2>1
  <2>2. CASE /\ m.kind = "R" /\ wait_id[b] = m.id
             /\ have' = [have EXCEPT ![b] = TRUE] /\ reply' = [reply EXCEPT ![b] = m.call]
    <3>1. have'[b] = TRUE /\ reply'[b] = m.call
        BY <1>5, <2>2
    <3>2. Replied(stack[b], m.id, TRUE, m.call, runs)
        BY Zenon, <1>1, <1>4, <2>2, ReplyMine
    <3> QED  BY Zenon, <2>2, <3>1, <3>2
  <2> QED  BY <1>2, <2>1, <2>2
<1>7. Collected(stack[b], mwait[b], mgot'[b], runs)
  <2> DEFINE e == [from |-> m.from, call |-> m.call]
  <2>1. CASE mgot'[b] = mgot[b]
      BY <1>4, <2>1
  <2>2. CASE mgot'[b] # mgot[b]
    <3>1. /\ mgot'[b] = Append(mgot[b], e) /\ \A i \in DOMAIN mgot[b] : mgot[b][i].from # m.from
          /\ mwait[b].id = m.id
          /\ \/ m.kind = "R" /\ mwait[b].kind = "gather"
             \/ m.kind = "A" /\ mwait[b].kind = "probe"
        BY <1>3, <1>5, <2>2
    <3>2. e.from = m.from /\ e.call = m.call
        OBVIOUS
    <3> HIDE DEF e
    <3>3. mgot[b] \in Seq(Got("leaf")) /\ Stacked(stack[b], m.to, own, ncalls, runs)
        BY <1>1, <1>4, <1>5
    <3>4. Collected(stack[b], mwait[b], Append(mgot[b], e), runs)
        BY <1>4, <3>1, <3>2, <3>3, CollectMine, Zenon
    <3> QED  BY <3>1, <3>4
  <2> QED  BY <2>1, <2>2
<1>8. Elsewhere(b)
    BY <1>1, <1>2, <1>3, <1>5 DEF Elsewhere
<1> HIDE DEF Objects!receive_R, Objects!receive_A, Objects!Receives, Objects!mesh_collect_put
<1> QED  BY <1>1, <1>6, <1>7, <1>8, BoardBefore, QuietStep

-----------------------------------------------------------------------------
(* Calls that go on, return or give up                                     *)

\* Frames that differ in the number of repetitions only.
LEMMA SameFrames ==
    ASSUME NEW q \in Seq(Frames("leaf")), NEW p \in Seq(Frames("leaf")), Len(p) = Len(q),
           \A i \in 1 .. Len(q) : p[i].op = q[i].op /\ p[i].to = q[i].to /\ p[i].id = q[i].id /\ p[i].call = q[i].call
    PROVE  /\ Methods(p) = Methods(q)
           /\ \A b, own, nc, R : Stacked(q, b, own, nc, R) => Stacked(p, b, own, nc, R)
           /\ \A w, h, r, R : Replied(q, w, h, r, R) => Replied(p, w, h, r, R)
           /\ \A mw, mg, R : Collected(q, mw, mg, R) => Collected(p, mw, mg, R)
<1>1. Methods(p) = Methods(q)
    BY DEF Methods
<1>2. PICK l \in Nat : l = Len(q)
    BY LenProperties
<1>3. (l >= 1 => 1 \in 1 .. l) /\ (l = 2 => 2 \in 1 .. l)
    BY <1>2
<1>4. /\ l >= 1 => p[1].op = q[1].op /\ p[1].to = q[1].to /\ p[1].id = q[1].id /\ p[1].call = q[1].call
      /\ l = 2 => p[2].op = q[2].op
    BY <1>2, <1>3
<1>5. ASSUME NEW b, NEW own, NEW nc, NEW R, Stacked(q, b, own, nc, R)  PROVE Stacked(p, b, own, nc, R)
  <2>1. ASSUME NEW i \in 1 .. l  PROVE Framed(p[i], b, own, nc, R)
    <3>1. Framed(q[i], b, own, nc, R)
        BY <1>2, <1>5 DEF Stacked
    <3>2. p[i].op = q[i].op /\ p[i].to = q[i].to /\ p[i].id = q[i].id /\ p[i].call = q[i].call
        BY <1>2
    <3> QED  BY <3>1, <3>2 DEF Framed
  <2>2. l <= 2 /\ (l = 2 => p[1].op \in Waiting /\ p[2].op \in Method)
      BY <1>2, <1>4, <1>5 DEF Stacked
  <2> QED  BY <1>2, <2>1, <2>2 DEF Stacked
<1>6. ASSUME NEW w, NEW h, NEW r, NEW R, Replied(q, w, h, r, R)  PROVE Replied(p, w, h, r, R)
    BY <1>2, <1>4, <1>6 DEF Replied
<1>7. ASSUME NEW mw, NEW mg, NEW R, Collected(q, mw, mg, R)  PROVE Collected(p, mw, mg, R)
    BY <1>2, <1>4, <1>7 DEF Collected
<1> QED  BY <1>1, <1>5, <1>6, <1>7

LEMMA LeafResend ==
    ASSUME NEW own \in Owners, ObjTypes("leaf"), Agreed(own), NEW b \in Board, Objects("leaf")!resend(b)
    PROVE  Agreed(own)'
<1> DEFINE q == stack[b]
           l == Len(q)
           f == q[l]
           y == [f EXCEPT !.tries = f.tries + 1]
           p == [q EXCEPT ![l] = y]
<1>1. /\ Objects("leaf")!Waits(b)
      /\ UNCHANGED <<next_id, wait_id, have, reply, ans, ans_next, mwait, mgot, ncalls, runs, results>>
    BY DEF Objects!resend, Objects!waiter, Objects!cache, Objects!mesh, Objects!history
<1>2. q \in Seq(Frames("leaf")) /\ l \in Nat \ {0} /\ f \in Frames("leaf") /\ Objects("leaf")!Top(b) = f
    BY <1>1, OnTop
<1>3. /\ stack' = [stack EXCEPT ![b] = p]
      /\ net' = net \cup Objects("leaf")!Datagrams(Objects("leaf")!Wire(f.op), b, f.to, f.id, f.call)
    BY <1>2 DEF Objects!resend
<1>4. f.op \in Waiting
    BY <1>1, <1>2 DEF Objects!Waits, Waiting
<1>5. y \in Frames("leaf") /\ y.op = f.op /\ y.to = f.to /\ y.id = f.id /\ y.call = f.call
    BY <1>2, FrameTry
<1> HIDE DEF y
<1>6. /\ p \in Seq(Frames("leaf")) /\ Len(p) = l /\ p[l] = y /\ \A i \in 1 .. l : i # l => p[i] = q[i]
    BY <1>2, <1>5, ExceptSeq
<1> HIDE DEF p
<1>7. \A i \in 1 .. l : p[i].op = q[i].op /\ p[i].to = q[i].to /\ p[i].id = q[i].id /\ p[i].call = q[i].call
    BY <1>5, <1>6
<1>8. /\ Stacked(q, b, own, ncalls, runs) /\ Replied(q, wait_id[b], have[b], reply[b], runs)
      /\ Collected(q, mwait[b], mgot[b], runs)
    BY BoardBefore
<1>9. /\ Methods(p) = Methods(q) /\ Stacked(p, b, own, ncalls, runs)
      /\ Replied(p, wait_id[b], have[b], reply[b], runs) /\ Collected(p, mwait[b], mgot[b], runs)
    BY Zenon, <1>2, <1>6, <1>7, <1>8, SameFrames
<1>10. \E n \in 0 .. LeafSlots : Cached(n, ans[b], ans_next[b], p, b, own, ncalls, runs)
    BY <1>9, BoardBefore, CacheOnly
<1>11. stack'[b] = p /\ Elsewhere(b)
  <2>1. stack \in [Board -> Seq(Frames("leaf"))]
      BY DEF ObjTypes
  <2> QED  BY <1>1, <1>3, <2>1 DEF Elsewhere
<1>12. ASSUME NEW x \in Objects("leaf")!Datagrams(Objects("leaf")!Wire(f.op), b, f.to, f.id, f.call)
       PROVE  Sent(x, own, ncalls, runs)
  <2>1. /\ x.kind = Objects("leaf")!Wire(f.op) /\ x.from = b /\ x.to \in f.to /\ x.id = f.id /\ x.call = f.call
      BY DEF Objects!Datagrams
  <2>2. x.kind \in {"Q", "H"}
      BY <2>1 DEF Objects!Wire
  <2>3. Framed(f, b, own, ncalls, runs)
      BY <1>2, <1>8 DEF Stacked
  <2> QED  BY <1>4, <2>1, <2>2, <2>3 DEF Framed, Sent
<1>13. \A x \in net' : x \in net \/ Sent(x, own, ncalls, runs)
    BY <1>3, <1>12
<1> QED  BY <1>1, <1>9, <1>10, <1>11, <1>13, QuietStep

\* A call that waits is alone on its stack, and leaves it empty.
LEMMA Alone ==
    ASSUME NEW own \in Owners, ObjTypes("leaf"), Agreed(own), NEW b \in Board, Objects("leaf")!Waits(b),
           stack' = Objects("leaf")!Popped(b)
    PROVE  /\ Len(stack[b]) = 1 /\ Objects("leaf")!Top(b) = stack[b][1] /\ stack[b][1].op \in Waiting
           /\ Framed(stack[b][1], b, own, ncalls, runs)
           /\ Len(stack'[b]) = 0 /\ Methods(stack'[b]) = Methods(stack[b])
           /\ Stacked(stack'[b], b, own, ncalls, runs) /\ \A x \in Board : x # b => stack'[x] = stack[x]
<1> DEFINE q == stack[b]
           l == Len(q)
<1>1. q \in Seq(Frames("leaf")) /\ l \in Nat \ {0} /\ Objects("leaf")!Top(b) = q[l]
    BY OnTop
<1>2. q[l].op \in Waiting
    BY <1>1 DEF Objects!Waits, Waiting
<1>3. Stacked(q, b, own, ncalls, runs)
    BY BoardBefore
<1>4. l = 1
  <2>1. l <= 2 /\ (l = 2 => q[2].op \in Method)
      BY <1>3 DEF Stacked
  <2>2. q[l].op \notin Method
      BY <1>2 DEF Waiting, Method
  <2>3. l # 2 /\ l \in Nat \ {0} /\ l <= 2
      BY <1>1, <2>1, <2>2
  <2> HIDE DEF l
  <2> QED  BY <2>3
<1>5. Framed(q[1], b, own, ncalls, runs)
    BY <1>3, <1>4 DEF Stacked
<1>6. stack \in [Board -> Seq(Frames("leaf"))]
    BY DEF ObjTypes
<1>7. stack'[b] = SubSeq(q, 1, l - 1) /\ \A x \in Board : x # b => stack'[x] = stack[x]
    BY <1>6 DEF Objects!Popped
<1>8. SubSeq(q, 1, l - 1) \in Seq(Frames("leaf")) /\ Len(SubSeq(q, 1, l - 1)) = 0
  <2>1. q # << >> /\ l - 1 = 0
      BY <1>1, <1>4
  <2> QED  BY <1>1, <2>1, TopIs
<1>9. Methods(q) = {} /\ Methods(stack'[b]) = {}
  <2>1. q[1].op \notin Method
      BY <1>2, <1>4 DEF Waiting, Method
  <2> QED  BY Zenon, <1>1, <1>4, <1>7, <1>8, <2>1, MethodsAre
<1>10. Stacked(stack'[b], b, own, ncalls, runs)
  <2>1. Len(stack'[b]) = 0
      BY Zenon, <1>7, <1>8
  <2> QED  BY <2>1, NoneStacked
<1> QED  BY Zenon, <1>1, <1>2, <1>4, <1>5, <1>7, <1>8, <1>9, <1>10

LEMMA LeafReturns ==
    ASSUME NEW own \in Owners, ObjTypes("leaf"), Agreed(own), NEW b \in Board,
           Objects("leaf")!call_returns(b) \/ Objects("leaf")!call_times_out(b)
    PROVE  Agreed(own)'
<1> DEFINE f == stack[b][1]
<1>1. /\ Objects("leaf")!Waits(b) /\ Objects("leaf")!Top(b).op = "call"
      /\ wait_id' = [wait_id EXCEPT ![b] = 0] /\ stack' = Objects("leaf")!Popped(b)
      /\ UNCHANGED <<net, next_id, have, reply, ans, ans_next, mwait, mgot, ncalls, runs>>
    BY DEF Objects!call_returns, Objects!call_times_out, Objects!cache, Objects!mesh, Objects!history
<1>2. /\ Len(stack[b]) = 1 /\ Objects("leaf")!Top(b) = f /\ Framed(f, b, own, ncalls, runs)
      /\ Len(stack'[b]) = 0 /\ Methods(stack'[b]) = Methods(stack[b])
      /\ Stacked(stack'[b], b, own, ncalls, runs) /\ \A x \in Board : x # b => stack'[x] = stack[x]
    BY <1>1, Alone
<1>3. /\ Replied(stack[b], wait_id[b], have[b], reply[b], runs)
      /\ Collected(stack[b], mwait[b], mgot[b], runs)
    BY BoardBefore
<1>4. wait_id'[b] = 0 /\ \A x \in Board : x # b => wait_id'[x] = wait_id[x]
  <2>1. wait_id \in [Board -> Nat]
      BY DEF ObjTypes
  <2> QED  BY <1>1, <2>1
<1>5. Replied(stack'[b], wait_id'[b], have'[b], reply'[b], runs)
    BY <1>2, <1>4 DEF Replied
<1>6. Collected(stack'[b], mwait'[b], mgot'[b], runs)
    BY <1>1, <1>2, <1>3 DEF Collected
<1>7. \E n \in 0 .. LeafSlots : Cached(n, ans'[b], ans_next'[b], stack'[b], b, own, ncalls, runs)
    BY <1>1, <1>2, BoardBefore, CacheOnly
<1>8. ASSUME NEW r \in results', r \notin results  PROVE Handed(r, ncalls, runs)
  <2>1. have[b] /\ r = [call |-> f.call, op |-> "call",
                        got |-> <<[from |-> CHOOSE x \in f.to : TRUE, call |-> reply[b]]>>]
      BY <1>2, <1>8 DEF Objects!call_returns, Objects!call_times_out, Objects!history
  <2>2. f.call \in 1 .. ncalls /\ \E x \in Board : f.to = {x}
      BY <1>1, <1>2 DEF Framed
  <2>3. PICK x \in Board : f.to = {x}
      BY <2>2
  <2>4. (CHOOSE z \in f.to : TRUE) = x
      BY <2>3
  <2>5. reply[b] = f.call /\ Ran(runs, f.call, x)
      BY <1>1, <1>2, <1>3, <2>1, <2>3 DEF Replied
  <2> DEFINE e == [from |-> x, call |-> f.call]
  <2>6. r.call = f.call /\ r.op = "call" /\ r.got = <<e>> /\ e.from = x /\ e.call = f.call
      BY Zenon, <2>1, <2>4, <2>5
  <2> HIDE DEF e
  <2>7. DOMAIN r.got = {1} /\ r.got[1] = e
      BY <2>6
  <2> QED  BY <2>2, <2>5, <2>6, <2>7 DEF Handed
<1>9. Elsewhere(b)
    BY <1>1, <1>2, <1>4 DEF Elsewhere
<1>10. /\ \A m \in net' : m \in net \/ Sent(m, own, ncalls, runs)
       /\ \A r \in results' : r \in results \/ Handed(r, ncalls, runs)
    BY <1>1, <1>8
<1> QED  BY <1>1, <1>2, <1>5, <1>6, <1>7, <1>9, <1>10, QuietStep

LEMMA NoneAwaited ==
    ASSUME NEW kind  PROVE [id |-> 0, kind |-> kind].id = 0
OBVIOUS

LEMMA LeafMeshReturns ==
    ASSUME NEW own \in Owners, ObjTypes("leaf"), Agreed(own), NEW b \in Board, Objects("leaf")!mesh_returns(b)
    PROVE  Agreed(own)'
<1> DEFINE f == stack[b][1]
<1>1. /\ Objects("leaf")!Waits(b) /\ Objects("leaf")!Top(b).op \in {"gather", "probe"}
      /\ stack' = Objects("leaf")!Popped(b)
      /\ results' = results \cup {[call |-> Objects("leaf")!Top(b).call, op |-> Objects("leaf")!Top(b).op,
                                   got |-> mgot[b]]}
      /\ UNCHANGED <<net, next_id, wait_id, have, reply, ans, ans_next, mgot, ncalls, runs>>
    BY Zenon DEF Objects!mesh_returns, Objects!cache, Objects!waiter
<1>2. /\ Len(stack[b]) = 1 /\ Objects("leaf")!Top(b) = f /\ Framed(f, b, own, ncalls, runs)
      /\ Len(stack'[b]) = 0 /\ Methods(stack'[b]) = Methods(stack[b])
      /\ Stacked(stack'[b], b, own, ncalls, runs) /\ \A x \in Board : x # b => stack'[x] = stack[x]
    BY <1>1, Alone
<1>3. /\ Replied(stack[b], wait_id[b], have[b], reply[b], runs)
      /\ Collected(stack[b], mwait[b], mgot[b], runs)
    BY BoardBefore
<1>4. mwait'[b].id = 0 /\ \A x \in Board : x # b => mwait'[x] = mwait[x]
  <2>1. mwait \in [Board -> Awaits]
      BY DEF ObjTypes
  <2>2. PICK none : mwait' = [mwait EXCEPT ![b] = none] /\ none.id = 0
      BY NoneAwaited, Zenon DEF Objects!mesh_returns
  <2> QED  BY <2>1, <2>2
<1>5. Replied(stack'[b], wait_id'[b], have'[b], reply'[b], runs)
    BY <1>1, <1>2, <1>3 DEF Replied
<1>6. Collected(stack'[b], mwait'[b], mgot'[b], runs)
    BY <1>2, <1>4 DEF Collected
<1>7. \E n \in 0 .. LeafSlots : Cached(n, ans'[b], ans_next'[b], stack'[b], b, own, ncalls, runs)
    BY <1>1, <1>2, BoardBefore, CacheOnly
<1>8. ASSUME NEW r \in results', r \notin results  PROVE Handed(r, ncalls, runs)
  <2>1. r.call = f.call /\ r.op = f.op /\ r.got = mgot[b]
      BY <1>1, <1>2, <1>8
  <2>2. f.call \in 1 .. ncalls
      BY <1>2 DEF Framed
  <2>3. ASSUME NEW i \in DOMAIN mgot[b]
        PROVE  /\ mgot[b][i].call = f.call /\ \A j \in DOMAIN mgot[b] : mgot[b][i].from = mgot[b][j].from => i = j
               /\ f.op = "gather" => Ran(runs, f.call, mgot[b][i].from)
      BY <1>1, <1>2, <1>3 DEF Collected
  <2>4. f.op # "probe" => f.op = "gather"
      BY <1>1, <1>2
  <2> QED  BY <2>1, <2>2, <2>3, <2>4 DEF Handed
<1>9. Elsewhere(b)
    BY <1>1, <1>2, <1>4 DEF Elsewhere
<1>10. /\ \A m \in net' : m \in net \/ Sent(m, own, ncalls, runs)
       /\ \A r \in results' : r \in results \/ Handed(r, ncalls, runs)
    BY <1>1, <1>8
<1> QED  BY <1>1, <1>2, <1>5, <1>6, <1>7, <1>9, <1>10, QuietStep

-----------------------------------------------------------------------------
(* Methods start and finish                                                *)

\* A method more that ran.
LEMMA RunsAfter ==
    ASSUME NEW R \in [1 .. LeafReqs -> Seq(Board)], NEW c \in 1 .. LeafReqs, NEW b \in Board,
           NEW own, NEW nc \in 0 .. LeafReqs, RanOnce(own, nc, R), c <= nc, b \in own[c].to, ~Ran(R, c, b)
    PROVE  LET S == [R EXCEPT ![c] = Append(R[c], b)]
           IN  /\ \A d \in 1 .. LeafReqs : \A x : Ran(S, d, x) <=> Ran(R, d, x) \/ (d = c /\ x = b)
               /\ RanOnce(own, nc, S)
<1> DEFINE S == [R EXCEPT ![c] = Append(R[c], b)]
<1>1. PICK l \in Nat : l = Len(R[c]) /\ DOMAIN R[c] = 1 .. l
    BY LenProperties
<1>2. R[c] \in Seq(Board)
    OBVIOUS
<1>3. DOMAIN Append(R[c], b) = 1 .. l + 1 /\ Append(R[c], b)[l + 1] = b /\ \A i \in 1 .. l : Append(R[c], b)[i] = R[c][i]
    BY <1>1, <1>2
<1>4. S[c] = Append(R[c], b) /\ \A d \in 1 .. LeafReqs : d # c => S[d] = R[d]
    OBVIOUS
<1> HIDE DEF S
<1>5. \A i \in 1 .. l + 1 : i = l + 1 \/ i \in 1 .. l
    OBVIOUS
<1>6. 1 .. l \subseteq 1 .. l + 1 /\ l + 1 \in 1 .. l + 1
    BY <1>1
<1>7. \A x : Ran(S, c, x) <=> Ran(R, c, x) \/ x = b
    BY <1>1, <1>3, <1>4, <1>5, <1>6 DEF Ran
<1>8. \A d \in 1 .. LeafReqs : d # c => \A x : Ran(S, d, x) <=> Ran(R, d, x)
    BY <1>4 DEF Ran
<1>9. /\ \A i, j \in 1 .. l : R[c][i] = R[c][j] => i = j
      /\ \A i \in 1 .. l : R[c][i] \in own[c].to /\ R[c][i] # b
    BY Zenon, <1>1 DEF RanOnce, Ran
<1>10. \A i, j \in 1 .. l + 1 : S[c][i] = S[c][j] => i = j
    BY <1>3, <1>4, <1>5, <1>9
<1>11. \A i \in 1 .. l + 1 : S[c][i] \in own[c].to
    BY <1>3, <1>4, <1>5, <1>9
<1>12. RanOnce(own, nc, S)
    BY Zenon, <1>3, <1>4, <1>10, <1>11 DEF RanOnce
<1> QED  BY Zenon, <1>7, <1>8, <1>12 DEF S

LEMMA LeafNew ==
    ASSUME NEW own \in Owners, ObjTypes("leaf"), Agreed(own), NEW b \in Board, NEW m \in net,
           Objects("leaf")!receive_new(b, m)
    PROVE  Agreed(own)'
<1> DEFINE q == stack[b]
           c == m.call
           f == [op |-> m.kind, to |-> {m.from}, id |-> m.id, call |-> m.call, tries |-> 0]
           p == Append(q, f)
<1>1. /\ UNCHANGED <<next_id, wait_id, have, reply, ans, ans_next, mwait, mgot, ncalls, results>>
      /\ m.kind \in {"Q", "B"} /\ m.to = b /\ ~Objects("leaf")!Runs(b) /\ net' = net \ {m}
      /\ stack' = [stack EXCEPT ![b] = p] /\ runs' = [runs EXCEPT ![c] = Append(runs[c], b)]
    BY DEF Objects!receive_new, Objects!Receives, Objects!Push, Objects!waiter, Objects!cache, Objects!mesh
<1>2. \A i \in DOMAIN ans[b] : ~(ans[b][i].from = m.from /\ ans[b][i].id = m.id)
    BY DEF Objects!receive_new, Objects!ans_lookup
<1>3. /\ q \in Seq(Frames("leaf")) /\ ncalls \in 0 .. LeafReqs /\ Stacked(q, b, own, ncalls, runs)
      /\ Replied(q, wait_id[b], have[b], reply[b], runs) /\ Collected(q, mwait[b], mgot[b], runs)
      /\ Sent(m, own, ncalls, runs) /\ m \in Msgs("leaf") /\ RanOnce(own, ncalls, runs)
    BY BoardBefore
<1>4. PICK n \in 0 .. LeafSlots : Cached(n, ans[b], ans_next[b], q, b, own, ncalls, runs)
    BY BoardBefore
<1>5. c \in 1 .. ncalls /\ m.id = own[c].id /\ m.from = own[c].by /\ b \in own[c].to
    BY <1>1, <1>3 DEF Sent
<1>6. c \in 1 .. LeafReqs /\ c <= ncalls /\ c \in 1 .. Reqs("leaf") /\ m.from \in Board /\ m.id \in Nat
    BY <1>1, <1>3, <1>5, LeafIs, MsgIs
<1>7. f \in Frames("leaf") /\ f.op = m.kind /\ f.to = {m.from} /\ f.id = m.id /\ f.call = c
    BY <1>1, <1>6, RunFrame
<1> HIDE DEF f
<1>8. PICK l \in Nat : l = Len(q)
    BY <1>3, LenProperties
<1>9. l \in {0, 1} /\ (l = 1 => q[1].op \in Waiting /\ q[1].op \notin Method)
  <2>1. l # 0 => q[l].op \notin {"Q", "B"}
    <3>1. l # 0 => q # << >>
        BY <1>3, <1>8, EmptySeq
    <3> QED  BY <1>1, <1>8, <3>1 DEF Objects!Runs, Objects!Idle, Objects!Top
  <2>2. l <= 2 /\ (l = 2 => q[2].op \in Method)
      BY <1>3, <1>8 DEF Stacked
  <2>3. l # 2
      BY <2>1, <2>2 DEF Method
  <2>4. l \in {0, 1}
      BY <2>2, <2>3
  <2>5. l = 1 => q[1] \in Frames("leaf")
    <3>1. l = 1 => 1 \in 1 .. Len(q)
        BY <1>8
    <3> QED  BY <1>3, <3>1, ElementOfSeq
  <2> QED  BY <2>1, <2>4, <2>5, FrameIs DEF Waiting, Method
<1>10. /\ p \in Seq(Frames("leaf")) /\ Len(p) = l + 1 /\ p[l + 1] = f /\ (l = 1 => p[1] = q[1])
  <2>1. Append(q, f) \in Seq(Frames("leaf")) /\ Len(Append(q, f)) = Len(q) + 1 /\ Append(q, f)[Len(q) + 1] = f
        /\ \A i \in 1 .. Len(q) : Append(q, f)[i] = q[i]
      BY <1>3, <1>7, PushIs
  <2> QED  BY <1>8, <2>1
<1> HIDE DEF p
<1>11. Methods(q) = {} /\ Methods(p) = {c}
  <2>1. f.op \in Method
      BY <1>1, <1>7 DEF Method
  <2>2. CASE l = 0
    <3>1. Len(q) = 0 /\ Len(p) = 1 /\ p[1] = f
        BY <1>8, <1>10, <2>2
    <3> QED  BY <1>3, <1>7, <1>10, <2>1, <3>1, MethodsAre
  <2>3. CASE l = 1
    <3>1. Len(q) = 1 /\ Len(p) = 2 /\ p[2] = f /\ p[1] = q[1]
        BY <1>8, <1>10, <2>3
    <3> QED  BY <1>3, <1>7, <1>9, <1>10, <2>1, <2>3, <3>1, MethodsAre
  <2> QED  BY <1>9, <2>2, <2>3
<1>12. ~Ran(runs, c, b)
  <2>1. \A i \in 0 .. LeafSlots - 1 : ~(ans[b][i].from = m.from /\ ans[b][i].id = m.id)
    <3>1. ans[b] \in Caches("leaf")
        BY DEF ObjTypes
    <3> QED  BY <1>2, <3>1, LeafIs DEF Caches
  <2> QED  BY <1>1, <1>3, <1>4, <1>11, <2>1, NotFound
<1>13. /\ \A d \in 1 .. LeafReqs : \A x : Ran(runs', d, x) <=> Ran(runs, d, x) \/ (d = c /\ x = b)
       /\ RanOnce(own, ncalls, runs')
  <2>1. runs \in [1 .. LeafReqs -> Seq(Board)]
      BY LeafIs DEF ObjTypes
  <2> QED  BY Zenon, <1>1, <1>3, <1>5, <1>6, <1>12, <2>1, RunsAfter
<1>14. More(own, ncalls, runs, own, ncalls', runs')
  <2>1. ncalls' \in 0 .. LeafReqs /\ ncalls <= ncalls'
      BY <1>1, <1>3
  <2>2. \A d \in 1 .. LeafReqs : \A x : Ran(runs, d, x) => Ran(runs', d, x)
      BY <1>13
  <2> QED  BY <1>3, <2>1, <2>2 DEF More
<1>15. Issued(own, ncalls', next_id') /\ RanOnce(own, ncalls', runs')
    BY <1>1, <1>13, BoardBefore
<1>16. /\ Stacked(q, b, own, ncalls', runs') /\ Replied(q, wait_id[b], have[b], reply[b], runs')
       /\ Collected(q, mwait[b], mgot[b], runs')
    BY <1>3, <1>14, StackMore
<1>17. Framed(f, b, own, ncalls', runs')
  <2>1. f.op \notin Waiting /\ f.op # "call"
      BY <1>1, <1>7 DEF Waiting
  <2> QED  BY Zenon, <1>1, <1>5, <1>6, <1>7, <1>13, <2>1 DEF Framed
<1>18. Stacked(p, b, own, ncalls', runs')
  <2>1. ASSUME NEW i \in 1 .. Len(p)  PROVE Framed(p[i], b, own, ncalls', runs')
    <3>1. l = 1 => Framed(q[1], b, own, ncalls', runs')
        BY <1>8, <1>16 DEF Stacked
    <3>2. i = l + 1 \/ (l = 1 /\ i = 1)
        BY <1>9, <1>10
    <3> QED  BY <1>10, <1>17, <3>1, <3>2
  <2>2. l + 1 <= 2 /\ (l + 1 = 2 => p[1].op \in Waiting /\ p[2].op \in Method)
      BY <1>1, <1>7, <1>9, <1>10 DEF Method
  <2> QED  BY <1>10, <2>1, <2>2 DEF Stacked
<1>19. Replied(p, wait_id[b], have[b], reply[b], runs') /\ Collected(p, mwait[b], mgot[b], runs')
  <2>1. CASE l = 0
    <3>1. p[1].op \notin {"call", "gather", "probe"} /\ Len(p) = 1
        BY <1>1, <1>7, <1>10, <2>1
    <3>2. wait_id[b] = 0 /\ mwait[b].id = 0
        BY <1>8, <1>16, <2>1 DEF Replied, Collected
    <3> QED  BY <3>1, <3>2 DEF Replied, Collected
  <2>2. CASE l = 1
    <3>1. p[1] = q[1] /\ Len(p) >= 1 /\ Len(q) >= 1
        BY <1>8, <1>10, <2>2
    <3> QED  BY <1>16, <3>1 DEF Replied, Collected
  <2> QED  BY <1>9, <2>1, <2>2
<1>20. Cached(n, ans[b], ans_next[b], p, b, own, ncalls', runs')
  <2>1. ASSUME NEW i \in 0 .. n - 1
        PROVE  Answered(ans[b][i], b, own, ncalls', runs') /\ ans[b][i].call \notin Methods(p)
    <3>1. Answered(ans[b][i], b, own, ncalls, runs)
        BY <1>4 DEF Cached
    <3>2. ans[b][i].call \in 1 .. ncalls /\ Ran(runs, ans[b][i].call, b)
        BY <3>1 DEF Answered
    <3>3. Ran(runs', ans[b][i].call, b)
        BY <1>14, <3>2, MoreCalls
    <3> QED  BY <1>1, <1>11, <1>12, <3>1, <3>2, <3>3 DEF Answered
  <2>2. ASSUME NEW d \in 1 .. ncalls', Ran(runs', d, b)
        PROVE  d \in Methods(p) \/ \E i \in 0 .. n - 1 : ans[b][i].call = d
    <3>1. d \in 1 .. ncalls /\ d \in 1 .. LeafReqs
        BY <1>1, <1>3, LeafIs
    <3>2. Ran(runs, d, b) \/ d = c
        BY <1>13, <2>2, <3>1
    <3>3. Ran(runs, d, b) => \E i \in 0 .. n - 1 : ans[b][i].call = d
        BY <1>4, <1>11, <3>1 DEF Cached
    <3> QED  BY <1>11, <3>2, <3>3
  <2>3. /\ ans_next[b] = n % LeafSlots /\ \A i \in n .. LeafSlots - 1 : ans[b][i].id = 0
        /\ \A i, j \in 0 .. n - 1 : ans[b][i].call = ans[b][j].call => i = j
      BY <1>4 DEF Cached
  <2> QED  BY <2>1, <2>2, <2>3 DEF Cached
<1>21. stack'[b] = p /\ Elsewhere(b)
  <2>1. stack \in [Board -> Seq(Frames("leaf"))]
      BY DEF ObjTypes
  <2> QED  BY <1>1, <2>1 DEF Elsewhere
<1>22. \A x \in Board \ {b} : \A d \in 1 .. ncalls' : Ran(runs', d, x) => d \in 1 .. ncalls /\ Ran(runs, d, x)
  <2>1. \A d \in 1 .. ncalls' : d \in 1 .. ncalls /\ d \in 1 .. LeafReqs
      BY <1>1, <1>3, LeafIs
  <2> QED  BY <1>13, <2>1
<1>23. \A x \in net' : x \in net
    BY <1>1
<1>24. /\ Stacked(stack'[b], b, own, ncalls', runs') /\ Replied(stack'[b], wait_id'[b], have'[b], reply'[b], runs')
       /\ Collected(stack'[b], mwait'[b], mgot'[b], runs')
       /\ \E k \in 0 .. LeafSlots : Cached(k, ans'[b], ans_next'[b], stack'[b], b, own, ncalls', runs')
    BY Zenon, <1>1, <1>18, <1>19, <1>20, <1>21
<1> QED  BY Zenon, <1>1, <1>14, <1>15, <1>21, <1>22, <1>23, <1>24, AgreedStep

\* Fewer answers are kept than the cache has slots while a method runs: every one
\* belongs to a call of its own.
LEMMA RoomLeft ==
    ASSUME NEW nc \in 0 .. LeafReqs, NEW n \in 0 .. LeafSlots, NEW a, NEW c \in 1 .. nc,
           \A i \in 0 .. n - 1 : a[i].call \in 1 .. nc /\ a[i].call # c,
           \A i, j \in 0 .. n - 1 : a[i].call = a[j].call => i = j
    PROVE  n < LeafSlots
<1> DEFINE g == [i \in 0 .. n |-> IF i = n THEN c ELSE a[i].call]
<1>1. n \in Nat /\ nc \in Nat /\ nc <= LeafSlots
    BY LeafIs
<1>2. \A i \in 0 .. n : i = n \/ i \in 0 .. n - 1
    BY <1>1
<1>3. g \in [0 .. n -> 1 .. nc]
    BY <1>2
<1>4. \A i, j \in 0 .. n : g[i] = g[j] => i = j
    BY <1>2
<1> HIDE DEF g
<1>5. IsFiniteSet(0 .. n) /\ Cardinality(0 .. n) = n + 1 /\ IsFiniteSet(1 .. nc) /\ Cardinality(1 .. nc) = nc
  <2>1. 0 \in Int /\ 1 \in Int /\ n \in Int /\ nc \in Int
      BY <1>1
  <2>2. /\ IsFiniteSet(0 .. n) /\ Cardinality(0 .. n) = IF 0 > n THEN 0 ELSE n - 0 + 1
        /\ IsFiniteSet(1 .. nc) /\ Cardinality(1 .. nc) = IF 1 > nc THEN 0 ELSE nc - 1 + 1
      BY <2>1, FS_Interval
  <2> QED  BY <1>1, <2>2
<1>6. ~(Cardinality(1 .. nc) < Cardinality(0 .. n))
    BY Zenon, <1>3, <1>4, <1>5, FS_PigeonHole
<1>7. ~(nc < n + 1)
    BY <1>5, <1>6
<1> QED  BY <1>1, <1>7, LeafIs

\* ans_store overwrites no answer.
LEMMA CacheStore ==
    ASSUME NEW own, NEW nc \in 0 .. LeafReqs, NEW R, NEW n \in 0 .. LeafSlots, NEW a \in Caches("leaf"), NEW k,
           NEW q, NEW p, NEW b, Cached(n, a, k, q, b, own, nc, R), NEW e, Answered(e, b, own, nc, R),
           Methods(q) = {e.call}, Methods(p) = {}
    PROVE  \E d \in 0 .. LeafSlots : Cached(d, [a EXCEPT ![k] = e], (k + 1) % LeafSlots, p, b, own, nc, R)
<1>1. /\ k = n % LeafSlots /\ \A i \in n .. LeafSlots - 1 : a[i].id = 0
      /\ \A i, j \in 0 .. n - 1 : a[i].call = a[j].call => i = j
      /\ \A i \in 0 .. n - 1 : Answered(a[i], b, own, nc, R) /\ a[i].call # e.call
    BY DEF Cached
<1>2. e.call \in 1 .. nc /\ \A i \in 0 .. n - 1 : a[i].call \in 1 .. nc
    BY <1>1 DEF Answered
<1>3. n < LeafSlots
    BY <1>1, <1>2, RoomLeft
<1>4. n \in Nat /\ LeafSlots \in Nat \ {0} /\ k = n /\ n + 1 \in 0 .. LeafSlots /\ n \in 0 .. LeafSlots - 1
    BY <1>1, <1>3, LeafIs
<1> DEFINE s == [a EXCEPT ![k] = e]
<1>5. s[n] = e /\ \A i \in 0 .. LeafSlots - 1 : i # n => s[i] = a[i]
  <2>1. DOMAIN a = 0 .. LeafSlots - 1
      BY LeafIs DEF Caches
  <2> QED  BY <1>4, <2>1
<1> HIDE DEF s
<1>6. \A i \in 0 .. n : i = n \/ (i \in 0 .. n - 1 /\ i # n /\ i \in 0 .. LeafSlots - 1)
    BY <1>4
<1>7. \A i \in 0 .. n : Answered(s[i], b, own, nc, R) /\ s[i].call \notin Methods(p)
    BY <1>1, <1>5, <1>6
<1>8. \A i \in n + 1 .. LeafSlots - 1 : s[i].id = 0
  <2>1. \A i \in n + 1 .. LeafSlots - 1 : i \in n .. LeafSlots - 1 /\ i \in 0 .. LeafSlots - 1 /\ i # n
      BY <1>4
  <2> QED  BY <1>1, <1>5, <2>1
<1>9. \A i, j \in 0 .. n : s[i].call = s[j].call => i = j
    BY <1>1, <1>5, <1>6
<1>10. ASSUME NEW c \in 1 .. nc, Ran(R, c, b)  PROVE \E i \in 0 .. n : s[i].call = c
  <2>1. c = e.call \/ \E i \in 0 .. n - 1 : a[i].call = c
      BY <1>10 DEF Cached
  <2>2. n \in 0 .. n /\ \A i \in 0 .. n - 1 : i \in 0 .. n /\ i # n /\ i \in 0 .. LeafSlots - 1
      BY <1>4
  <2> QED  BY <1>5, <2>1, <2>2
<1>11. 0 .. (n + 1) - 1 = 0 .. n
    BY <1>4
<1>12. Cached(n + 1, s, (k + 1) % LeafSlots, p, b, own, nc, R)
    BY <1>4, <1>7, <1>8, <1>9, <1>10, <1>11 DEF Cached
<1> QED  BY <1>4, <1>12 DEF s

LEMMA LeafDone ==
    ASSUME NEW own \in Owners, ObjTypes("leaf"), Agreed(own), NEW b \in Board, Objects("leaf")!method_done(b)
    PROVE  Agreed(own)'
<1> DEFINE q == stack[b]
           f == q[Len(q)]
           p == SubSeq(q, 1, Len(q) - 1)
<1>1. /\ Objects("leaf")!Runs(b) /\ stack' = [stack EXCEPT ![b] = p]
      /\ UNCHANGED <<next_id, wait_id, have, reply, mwait, mgot, ncalls, runs, results>>
    BY DEF Objects!method_done, Objects!Popped, Objects!waiter, Objects!mesh, Objects!history
<1>2. q \in Seq(Frames("leaf")) /\ q # << >> /\ Objects("leaf")!Top(b) = f /\ f \in Frames("leaf")
    BY <1>1, OnTop
<1>3. PICK l \in Nat : l = Len(q) /\ l # 0
    BY <1>1, OnTop
<1>4. /\ Stacked(q, b, own, ncalls, runs) /\ ncalls \in 0 .. LeafReqs
      /\ Replied(q, wait_id[b], have[b], reply[b], runs) /\ Collected(q, mwait[b], mgot[b], runs)
    BY BoardBefore
<1>5. q[l].op \in Method /\ q[l].op \in {"Q", "B"} /\ q[l].op \notin Waiting
    BY <1>1, <1>2, <1>3 DEF Objects!Runs, Method, Waiting
<1>6. l \in {1, 2} /\ (l = 2 => q[1].op \in Waiting)
  <2>1. l <= 2 /\ (l = 2 => q[1].op \in Waiting)
      BY <1>3, <1>4 DEF Stacked
  <2>2. l # 0
      BY <1>3
  <2> QED  BY <2>1, <2>2
<1>7. Framed(q[l], b, own, ncalls, runs)
    BY <1>3, <1>4, <1>6 DEF Stacked
<1>8. /\ q[l].call \in 1 .. ncalls /\ q[l].id = own[q[l].call].id /\ q[l].to = {own[q[l].call].by}
      /\ Ran(runs, q[l].call, b)
    BY <1>5, <1>7 DEF Framed
<1>9. p \in Seq(Frames("leaf")) /\ Len(p) = l - 1 /\ (l = 2 => p[1] = q[1])
  <2>1. /\ p \in Seq(Frames("leaf")) /\ Len(p) = Len(q) - 1 /\ \A i \in 1 .. Len(q) - 1 : p[i] = q[i]
      BY <1>2, TopIs
  <2> HIDE DEF p, q
  <2>2. Len(p) = l - 1 /\ (l = 2 => 1 \in 1 .. Len(q) - 1)
      BY <1>3, <2>1
  <2> QED  BY <2>1, <2>2
<1> HIDE DEF p
<1>10. Methods(q) = {q[l].call} /\ Methods(p) = {}
  <2>1. CASE l = 1
    <3>1. Len(q) = 1 /\ Len(p) = 0
        BY <1>3, <1>9, <2>1
    <3> QED  BY Zenon, <1>2, <1>5, <1>9, <2>1, <3>1, MethodsAre
  <2>2. CASE l = 2
    <3>1. Len(q) = 2 /\ Len(p) = 1 /\ p[1] = q[1] /\ q[1].op \notin Method
        BY <1>3, <1>6, <1>9, <2>2 DEF Waiting, Method
    <3> QED  BY <1>2, <1>5, <1>6, <1>9, <2>2, <3>1, MethodsAre
  <2> QED  BY <1>6, <2>1, <2>2
<1>11. Stacked(p, b, own, ncalls, runs)
  <2>1. ASSUME NEW i \in 1 .. Len(p)  PROVE Framed(p[i], b, own, ncalls, runs)
    <3>1. l = 2 /\ i = 1
        BY <1>6, <1>9
    <3> QED  BY <1>3, <1>4, <1>9, <3>1 DEF Stacked
  <2>2. Len(p) <= 2 /\ Len(p) # 2
      BY <1>6, <1>9
  <2> QED  BY <2>1, <2>2 DEF Stacked
<1>12. Replied(p, wait_id[b], have[b], reply[b], runs) /\ Collected(p, mwait[b], mgot[b], runs)
  <2>1. CASE l = 1
    <3>1. Len(p) = 0 /\ Len(q) = 1 /\ q[1].op \notin {"call", "gather", "probe"}
        BY <1>3, <1>5, <1>9, <2>1 DEF Waiting
    <3>2. wait_id[b] = 0 /\ mwait[b].id = 0
        BY <1>4, <3>1 DEF Replied, Collected
    <3> QED  BY <3>1, <3>2 DEF Replied, Collected
  <2>2. CASE l = 2
    <3>1. p[1] = q[1] /\ Len(p) >= 1 /\ Len(q) >= 1
        BY <1>3, <1>9, <2>2
    <3> QED  BY <1>4, <3>1 DEF Replied, Collected
  <2> QED  BY <1>6, <2>1, <2>2
<1> DEFINE o == own[q[l].call].by
           e == [from |-> o, id |-> q[l].id, call |-> q[l].call]
<1>13. /\ ans' = [ans EXCEPT ![b][ans_next[b]] = e] /\ ans_next' = [ans_next EXCEPT ![b] = (ans_next[b] + 1) % LeafSlots]
       /\ \A m \in net' : m \in net \/ m \in Objects("leaf")!Datagrams("R", b, q[l].to, q[l].id, q[l].call)
  <2>1. (CHOOSE y \in q[l].to : TRUE) = o
      BY <1>8
  <2>2. Objects("leaf")!Top(b) = q[l]
      BY <1>2, <1>3
  <2> DEFINE g == Objects("leaf")!Top(b)
             h == [from |-> CHOOSE y \in g.to : TRUE, id |-> g.id, call |-> g.call]
  <2>3. Objects("leaf")!ans_store(b, h)
      BY DEF Objects!method_done
  <2>4. \A m \in net' : m \in net \/ m \in Objects("leaf")!Datagrams("R", b, g.to, g.id, g.call)
      BY DEF Objects!method_done
  <2>5. h = e
      BY Zenon, <2>1, <2>2
  <2> HIDE DEF h, e
  <2>6. ans' = [ans EXCEPT ![b][ans_next[b]] = e] /\ ans_next' = [ans_next EXCEPT ![b] = (ans_next[b] + 1) % LeafSlots]
      BY <2>3, <2>5 DEF Objects!ans_store, LeafSlots
  <2> QED  BY <2>2, <2>4, <2>6
<1>14. e.from = o /\ e.id = q[l].id /\ e.call = q[l].call
    OBVIOUS
<1> HIDE DEF e
<1>15. Answered(e, b, own, ncalls, runs)
    BY <1>8, <1>14 DEF Answered
<1>16. ans \in [Board -> Caches("leaf")] /\ ans_next \in [Board -> 0 .. LeafSlots - 1]
    BY Zenon, LeafIs DEF ObjTypes
<1>17. /\ ans'[b] = [ans[b] EXCEPT ![ans_next[b]] = e] /\ ans_next'[b] = (ans_next[b] + 1) % LeafSlots
       /\ \A x \in Board \ {b} : ans'[x] = ans[x] /\ ans_next'[x] = ans_next[x]
    BY <1>13, <1>16
<1>18. PICK n \in 0 .. LeafSlots : Cached(n, ans[b], ans_next[b], q, b, own, ncalls, runs)
    BY BoardBefore
<1>19. \E d \in 0 .. LeafSlots : Cached(d, ans'[b], ans_next'[b], p, b, own, ncalls, runs)
  <2>1. ans[b] \in Caches("leaf")
      BY <1>16
  <2>2. \E d \in 0 .. LeafSlots : Cached(d, [ans[b] EXCEPT ![ans_next[b]] = e], (ans_next[b] + 1) % LeafSlots, p, b,
                                         own, ncalls, runs)
      BY Zenon, <1>4, <1>10, <1>14, <1>15, <1>18, <2>1, CacheStore
  <2> QED  BY <1>17, <2>2
<1>20. stack'[b] = p /\ Elsewhere(b)
  <2>1. stack \in [Board -> Seq(Frames("leaf"))]
      BY DEF ObjTypes
  <2> QED  BY <1>1, <1>17, <2>1 DEF Elsewhere
<1>21. ASSUME NEW x \in Objects("leaf")!Datagrams("R", b, q[l].to, q[l].id, q[l].call)
       PROVE  Sent(x, own, ncalls, runs)
  <2>1. x.kind = "R" /\ x.from = b /\ x.to \in q[l].to /\ x.id = q[l].id /\ x.call = q[l].call
      BY DEF Objects!Datagrams
  <2> QED  BY <1>8, <2>1 DEF Sent
<1>22. \A m \in net' : m \in net \/ Sent(m, own, ncalls, runs)
    BY <1>13, <1>21
<1> QED  BY <1>1, <1>11, <1>12, <1>19, <1>20, <1>22, QuietStep

-----------------------------------------------------------------------------
(* Requests                                                                *)

\* A request of board b for the boards T: its call and id are new.
Asked(own, nc, nx, R, b, T, own2) ==
    /\ own2[nc + 1].by = b /\ own2[nc + 1].id = nx[b] /\ own2[nc + 1].to = T
    /\ More(own, nc, R, own2, nc + 1, R) /\ Issued(own2, nc + 1, [nx EXCEPT ![b] = nx[b] + 1])
    /\ RanOnce(own2, nc + 1, R)
    /\ \A x : \A c \in 1 .. nc + 1 : Ran(R, c, x) => c \in 1 .. nc /\ Ran(R, c, x)

LEMMA IssueMore ==
    ASSUME NEW own \in Owners, NEW nc \in 0 .. LeafReqs, nc < LeafReqs, NEW b \in Board, NEW T \in SUBSET Board,
           NEW nx \in [Board -> Nat \ {0}], Issued(own, nc, nx), NEW R, RanOnce(own, nc, R),
           NEW own2, own2 = [own EXCEPT ![nc + 1] = [by |-> b, id |-> nx[b], to |-> T]]
    PROVE  Asked(own, nc, nx, R, b, T, own2)
<1> DEFINE O == [by : Board, id : Nat, to : SUBSET Board]
           v == [by |-> b, id |-> nx[b], to |-> T]
<1>1. nc \in Nat /\ nc + 1 \in 1 .. LeafReqs /\ nc + 1 \in 0 .. LeafReqs /\ nc <= nc + 1
    BY LeafIs
<1>2. nx[b] \in Nat \ {0}
    OBVIOUS
<1>3. v \in O /\ v.by = b /\ v.id = nx[b] /\ v.to = T
    BY <1>2
<1>4. own \in [1 .. LeafReqs -> O]
    BY DEF Owners
<1> HIDE DEF O, v
<1>5. own2 = [own EXCEPT ![nc + 1] = v]
    BY DEF v
<1>6. own2 \in [1 .. LeafReqs -> O] /\ own2[nc + 1] = v /\ \A c \in 1 .. LeafReqs : c # nc + 1 => own2[c] = own[c]
    BY <1>1, <1>3, <1>4, <1>5, PutIs
<1>7. \A c \in 1 .. nc : c \in 1 .. LeafReqs /\ c # nc + 1
    BY <1>1, LeafIs
<1>8. \A c \in 1 .. nc : own2[c] = own[c]
    BY <1>6, <1>7
<1>9. More(own, nc, R, own2, nc + 1, R)
  <2>1. own2 \in Owners
      BY <1>6 DEF Owners, O
  <2> QED  BY <1>1, <1>8, <2>1 DEF More
<1> DEFINE ny == [nx EXCEPT ![b] = nx[b] + 1]
<1>10. ny[b] = nx[b] + 1 /\ \A x \in Board : x # b => ny[x] = nx[x]
    OBVIOUS
<1> HIDE DEF ny
<1>11. \A c \in 1 .. nc + 1 : c = nc + 1 \/ c \in 1 .. nc
    BY <1>1
<1>12. ASSUME NEW c \in 1 .. nc  PROVE own[c].by \in Board /\ own[c].id \in 1 .. nx[own[c].by] - 1
  <2>1. own[c] \in O
      BY <1>4, <1>7
  <2> QED  BY <2>1 DEF Issued, O
<1>13. ASSUME NEW c \in 1 .. nc + 1  PROVE own2[c].id \in 1 .. ny[own2[c].by] - 1
  <2>1. CASE c = nc + 1
      BY <1>2, <1>3, <1>6, <1>10, <2>1
  <2>2. CASE c \in 1 .. nc
    <3>1. PICK y \in Board : y = own[c].by
        BY <1>12, <2>2
    <3>2. PICK u \in Nat : u = nx[y]
        BY <3>1
    <3>3. own[c].id \in 1 .. u - 1 /\ (ny[y] = u \/ ny[y] = u + 1)
        BY <1>10, <1>12, <2>2, <3>1, <3>2
    <3>4. own[c].id \in 1 .. ny[y] - 1
        BY <3>3
    <3> QED  BY <1>8, <2>2, <3>1, <3>4
  <2> QED  BY <1>11, <2>1, <2>2
<1>14. ASSUME NEW c \in 1 .. nc  PROVE ~(own[c].by = b /\ own[c].id = nx[b])
  <2>1. own[c].id \in 1 .. nx[own[c].by] - 1
      BY <1>12
  <2> QED  BY <1>2, <2>1
<1>15. ASSUME NEW c \in 1 .. nc + 1, NEW d \in 1 .. nc + 1, own2[c].by = own2[d].by, own2[c].id = own2[d].id
       PROVE  c = d
  <2>1. CASE c = nc + 1 /\ d \in 1 .. nc
      BY <1>3, <1>6, <1>8, <1>14, <1>15, <2>1
  <2>2. CASE d = nc + 1 /\ c \in 1 .. nc
      BY <1>3, <1>6, <1>8, <1>14, <1>15, <2>2
  <2>3. CASE c \in 1 .. nc /\ d \in 1 .. nc
    <3>1. own[c].by = own[d].by /\ own[c].id = own[d].id
        BY <1>8, <1>15, <2>3
    <3> QED  BY <2>3, <3>1 DEF Issued
  <2> QED  BY <1>11, <2>1, <2>2, <2>3
<1>16. ASSUME NEW x \in Board  PROVE ny[x] <= (nc + 1) + 1
  <2>1. nx[x] \in Nat /\ nx[x] <= nc + 1
      BY DEF Issued
  <2>2. ny[x] = nx[x] \/ ny[x] = nx[x] + 1
      BY <1>10
  <2> QED  BY <1>1, <2>1, <2>2
<1>17. Issued(own2, nc + 1, ny)
    BY <1>13, <1>15, <1>16 DEF Issued
<1>18. \A c \in 1 .. LeafReqs : \A i \in DOMAIN R[c] : c \in 1 .. nc
    BY <1>1, LeafIs DEF RanOnce
<1>19. RanOnce(own2, nc + 1, R)
  <2>1. ASSUME NEW c \in 1 .. LeafReqs, NEW i \in DOMAIN R[c]  PROVE c <= nc + 1 /\ R[c][i] \in own2[c].to
    <3>1. c \in 1 .. nc /\ R[c][i] \in own[c].to
        BY <1>18 DEF RanOnce
    <3>2. c <= nc + 1
        BY <1>1, <3>1
    <3> QED  BY <1>8, <3>1, <3>2
  <2> QED  BY <2>1 DEF RanOnce
<1>20. \A x : \A c \in 1 .. nc + 1 : Ran(R, c, x) => c \in 1 .. nc /\ Ran(R, c, x)
  <2>1. \A c \in 1 .. nc + 1 : c \in 1 .. LeafReqs
      BY <1>1, LeafIs
  <2> QED  BY <1>18, <2>1 DEF Ran
<1> QED  BY <1>3, <1>6, <1>9, <1>17, <1>19, <1>20 DEF ny, Asked

\* What a program's board is like when it asks, and what every request changes.
LEMMA LeafMayAsk ==
    ASSUME NEW own \in Owners, ObjTypes("leaf"), Agreed(own), NEW b \in Board, Objects("leaf")!MayAsk(b)
    PROVE  /\ stack[b] = << >> /\ ncalls \in 0 .. LeafReqs /\ ncalls < LeafReqs
           /\ next_id \in [Board -> Nat \ {0}]
           /\ Objects("leaf")!Following(next_id[b]) = next_id[b] + 1
           /\ wait_id[b] = 0 /\ mwait[b].id = 0
<1>1. stack[b] = << >> /\ ncalls < LeafReqs
    BY DEF Objects!MayAsk, Objects!Idle, LeafReqs
<1>2. ncalls \in 0 .. LeafReqs /\ next_id \in [Board -> Nat \ {0}]
    BY LeafIs DEF ObjTypes
<1>3. Objects("leaf")!Following(next_id[b]) = next_id[b] + 1
  <2>1. next_id[b] <= ncalls + 1 /\ next_id[b] \in Nat
      BY <1>2, BoardBefore DEF Issued
  <2>2. ~(next_id[b] + 1 > Limits["leaf"].ids)
      BY <1>1, <1>2, <2>1, LeafIs
  <2> QED  BY <2>2 DEF Objects!Following
<1>4. wait_id[b] = 0 /\ mwait[b].id = 0
  <2>1. Len(stack[b]) = 0
      BY <1>1
  <2>2. Replied(stack[b], wait_id[b], have[b], reply[b], runs) /\ Collected(stack[b], mwait[b], mgot[b], runs)
      BY BoardBefore
  <2> QED  BY <2>1, <2>2 DEF Replied, Collected
<1> QED  BY <1>1, <1>2, <1>3, <1>4

LEMMA AskStep ==
    ASSUME NEW own \in Owners, ObjTypes("leaf"), Agreed(own), NEW b \in Board, Objects("leaf")!MayAsk(b),
           NEW T \in SUBSET Board, NEW own2,
           own2 = [own EXCEPT ![ncalls + 1] = [by |-> b, id |-> next_id[b], to |-> T]],
           ncalls' = ncalls + 1, next_id' = [next_id EXCEPT ![b] = next_id[b] + 1],
           ans' = ans, ans_next' = ans_next, runs' = runs, results' = results, Elsewhere(b),
           NEW kind \in {"Q", "B", "H"},
           \A m \in net' : m \in net \/ m \in Objects("leaf")!Datagrams(kind, b, T, next_id[b], ncalls'),
           \/ /\ stack'[b] = stack[b] /\ wait_id'[b] = 0 /\ mwait'[b].id = 0
           \/ \E f \in Frames("leaf") :
                 /\ stack'[b] = Append(stack[b], f) /\ f.op \in Waiting /\ f.to = T /\ f.id = next_id[b]
                 /\ f.call = ncalls' /\ (f.op = "call" => \E x \in Board : T = {x})
                 /\ IF f.op = "call" THEN wait_id'[b] = f.id /\ ~have'[b] /\ mwait'[b].id = 0
                                     ELSE wait_id'[b] = 0 /\ mwait'[b].id = f.id /\ mwait'[b].kind = f.op /\ mgot'[b] = << >>
    PROVE  \E o \in Owners : Agreed(o)'
<1>1. /\ stack[b] = << >> /\ ncalls \in 0 .. LeafReqs /\ ncalls < LeafReqs /\ next_id \in [Board -> Nat \ {0}]
    BY LeafMayAsk
<1>2. Issued(own, ncalls, next_id) /\ RanOnce(own, ncalls, runs)
    BY BoardBefore
<1>3. /\ own2[ncalls + 1].by = b /\ own2[ncalls + 1].id = next_id[b] /\ own2[ncalls + 1].to = T
      /\ More(own, ncalls, runs, own2, ncalls + 1, runs)
      /\ Issued(own2, ncalls + 1, [next_id EXCEPT ![b] = next_id[b] + 1])
      /\ RanOnce(own2, ncalls + 1, runs)
      /\ \A x : \A c \in 1 .. ncalls + 1 : Ran(runs, c, x) => c \in 1 .. ncalls /\ Ran(runs, c, x)
  <2>1. PICK nc \in 0 .. LeafReqs : nc = ncalls
      BY <1>1
  <2>2. PICK nx \in [Board -> Nat \ {0}] : nx = next_id
      BY <1>1
  <2>3. PICK R : R = runs
      OBVIOUS
  <2>4. /\ nc < LeafReqs /\ Issued(own, nc, nx) /\ RanOnce(own, nc, R)
        /\ own2 = [own EXCEPT ![nc + 1] = [by |-> b, id |-> nx[b], to |-> T]]
      BY <1>1, <1>2, <2>1, <2>2, <2>3
  <2>5. Asked(own, nc, nx, R, b, T, own2)
      BY Zenon, <2>4, IssueMore
  <2> QED  BY <2>1, <2>2, <2>3, <2>5 DEF Asked
<1>4. /\ own2[ncalls'].by = b /\ own2[ncalls'].id = next_id[b] /\ own2[ncalls'].to = T
      /\ More(own, ncalls, runs, own2, ncalls', runs') /\ Issued(own2, ncalls', next_id')
      /\ RanOnce(own2, ncalls', runs')
      /\ \A x : \A c \in 1 .. ncalls' : Ran(runs', c, x) => c \in 1 .. ncalls /\ Ran(runs, c, x)
    BY <1>3
<1>5. ncalls' \in 1 .. ncalls' /\ own2 \in Owners
  <2>1. own2 \in Owners
      BY <1>3 DEF More
  <2> QED  BY <1>1, <2>1, LeafIs
<1>6. ASSUME NEW x \in Objects("leaf")!Datagrams(kind, b, T, next_id[b], ncalls')
      PROVE  Sent(x, own2, ncalls', runs')
  <2>1. x.kind = kind /\ x.from = b /\ x.to \in T /\ x.id = next_id[b] /\ x.call = ncalls'
      BY DEF Objects!Datagrams
  <2> QED  BY <1>4, <1>5, <2>1 DEF Sent
<1>7. \A m \in net' : m \in net \/ Sent(m, own2, ncalls', runs')
    BY Zenon, <1>6
<1>8. PICK n \in 0 .. LeafSlots : Cached(n, ans[b], ans_next[b], stack[b], b, own, ncalls, runs)
    BY BoardBefore
<1>9. Cached(n, ans[b], ans_next[b], stack[b], b, own2, ncalls', runs')
    BY <1>4, <1>8, CacheMore
<1>10. << >> \in Seq(Frames("leaf")) /\ Len(<< >>) = 0 /\ Len(stack[b]) = 0
    BY <1>1, EmptySeq
<1>11. /\ Stacked(stack'[b], b, own2, ncalls', runs')
       /\ Replied(stack'[b], wait_id'[b], have'[b], reply'[b], runs')
       /\ Collected(stack'[b], mwait'[b], mgot'[b], runs')
       /\ Methods(stack'[b]) = Methods(stack[b])
  <2>1. CASE stack'[b] = stack[b] /\ wait_id'[b] = 0 /\ mwait'[b].id = 0
      BY <1>10, <2>1 DEF Stacked, Replied, Collected
  <2>2. ASSUME NEW f \in Frames("leaf"),
               /\ stack'[b] = Append(stack[b], f) /\ f.op \in Waiting /\ f.to = T /\ f.id = next_id[b]
               /\ f.call = ncalls' /\ (f.op = "call" => \E x \in Board : T = {x})
               /\ IF f.op = "call" THEN wait_id'[b] = f.id /\ ~have'[b] /\ mwait'[b].id = 0
                  ELSE wait_id'[b] = 0 /\ mwait'[b].id = f.id /\ mwait'[b].kind = f.op /\ mgot'[b] = << >>
        PROVE  /\ Stacked(stack'[b], b, own2, ncalls', runs')
               /\ Replied(stack'[b], wait_id'[b], have'[b], reply'[b], runs')
               /\ Collected(stack'[b], mwait'[b], mgot'[b], runs')
               /\ Methods(stack'[b]) = Methods(stack[b])
    <3>1. PICK p \in Seq(Frames("leaf")) : p = stack'[b] /\ Len(p) = 1 /\ p[1] = f
      <4>1. Append(<< >>, f) \in Seq(Frames("leaf")) /\ Len(Append(<< >>, f)) = 0 + 1 /\ Append(<< >>, f)[0 + 1] = f
          BY <1>10, PushIs
      <4> DEFINE u == Append(<< >>, f)
      <4>2. u = stack'[b]
          BY <1>1, <2>2
      <4> HIDE DEF u
      <4>3. u \in Seq(Frames("leaf")) /\ Len(u) = 1 /\ u[1] = f
          BY <4>1 DEF u
      <4> QED  BY <4>2, <4>3
    <3>2. Framed(f, b, own2, ncalls', runs')
      <4>1. f.op \notin Method
          BY <2>2 DEF Waiting, Method
      <4> QED  BY <1>4, <1>5, <2>2, <4>1 DEF Framed
    <3>3. Stacked(p, b, own2, ncalls', runs')
        BY <3>1, <3>2 DEF Stacked
    <3>4. Methods(p) = {} /\ Methods(stack[b]) = {}
      <4>1. f.op \notin Method
          BY <2>2 DEF Waiting, Method
      <4> QED  BY Zenon, <1>1, <1>10, <3>1, <4>1, MethodsAre
    <3>5. Replied(p, wait_id'[b], have'[b], reply'[b], runs')
        BY <2>2, <3>1 DEF Replied
    <3>6. Collected(p, mwait'[b], mgot'[b], runs')
        BY <2>2, <3>1 DEF Collected, Waiting
    <3> QED  BY <3>1, <3>3, <3>4, <3>5, <3>6
  <2> QED  BY Zenon, <2>1, <2>2
<1>12. \E d \in 0 .. LeafSlots : Cached(d, ans'[b], ans_next'[b], stack'[b], b, own2, ncalls', runs')
    BY <1>9, <1>11, CacheOnly
<1>13. Agreed(own2)'
    BY Zenon, <1>4, <1>7, <1>11, <1>12, AgreedStep
<1> QED  BY <1>5, <1>13

LEMMA LeafCall ==
    ASSUME NEW own \in Owners, ObjTypes("leaf"), Agreed(own), NEW b \in Board, NEW to \in Board,
           Objects("leaf")!aipl_remote_call(b, to)
    PROVE  \E o \in Owners : Agreed(o)'
<1> DEFINE f == [op |-> "call", to |-> {to}, id |-> next_id[b], call |-> ncalls', tries |-> 0]
<1>1. /\ Objects("leaf")!MayAsk(b) /\ ncalls' = ncalls + 1
      /\ next_id' = [next_id EXCEPT ![b] = Objects("leaf")!Following(next_id[b])]
      /\ have' = [have EXCEPT ![b] = FALSE]
      /\ UNCHANGED <<reply, ans, ans_next, mwait, mgot, runs, results>>
      /\ \/ /\ net' = net \cup Objects("leaf")!Datagrams("Q", b, {to}, next_id[b], ncalls')
            /\ wait_id' = [wait_id EXCEPT ![b] = next_id[b]] /\ stack' = [stack EXCEPT ![b] = Append(stack[b], f)]
         \/ wait_id' = [wait_id EXCEPT ![b] = 0] /\ net' = net /\ stack' = stack
    BY Zenon DEF Objects!aipl_remote_call, Objects!Push, Objects!cache, Objects!mesh, Objects!history
<1>2. /\ ncalls \in 0 .. LeafReqs /\ ncalls < LeafReqs /\ next_id \in [Board -> Nat \ {0}]
      /\ Objects("leaf")!Following(next_id[b]) = next_id[b] + 1 /\ mwait[b].id = 0
    BY <1>1, LeafMayAsk
<1>3. next_id[b] \in Nat /\ ncalls' \in 1 .. Reqs("leaf") /\ {to} \in SUBSET Board
    BY <1>1, <1>2, LeafIs
<1>4. /\ f \in Frames("leaf") /\ f.op = "call" /\ f.to = {to} /\ f.id = next_id[b] /\ f.call = ncalls'
    BY Zenon, <1>3, WaitFrame
<1> HIDE DEF f
<1>5. /\ stack \in [Board -> Seq(Frames("leaf"))] /\ wait_id \in [Board -> Nat] /\ have \in [Board -> BOOLEAN]
    BY Zenon DEF ObjTypes
<1>6. Elsewhere(b)
    BY <1>1, <1>5 DEF Elsewhere
<1>7. /\ ~have'[b] /\ mwait'[b].id = 0
      /\ \/ stack'[b] = stack[b] /\ wait_id'[b] = 0
         \/ stack'[b] = Append(stack[b], f) /\ wait_id'[b] = next_id[b]
    BY <1>1, <1>2, <1>5
<1>8. \/ stack'[b] = stack[b] /\ wait_id'[b] = 0 /\ mwait'[b].id = 0
      \/ \E g \in Frames("leaf") :
            /\ stack'[b] = Append(stack[b], g) /\ g.op \in Waiting /\ g.to = {to} /\ g.id = next_id[b]
            /\ g.call = ncalls' /\ (g.op = "call" => \E x \in Board : {to} = {x})
            /\ IF g.op = "call" THEN wait_id'[b] = g.id /\ ~have'[b] /\ mwait'[b].id = 0
               ELSE wait_id'[b] = 0 /\ mwait'[b].id = g.id /\ mwait'[b].kind = g.op /\ mgot'[b] = << >>
    BY <1>4, <1>7 DEF Waiting
<1>9. \A m \in net' : m \in net \/ m \in Objects("leaf")!Datagrams("Q", b, {to}, next_id[b], ncalls')
    BY Zenon, <1>1
<1>10. PICK own2 : own2 = [own EXCEPT ![ncalls + 1] = [by |-> b, id |-> next_id[b], to |-> {to}]]
    BY Zenon
<1> QED  BY Zenon, <1>1, <1>2, <1>3, <1>6, <1>8, <1>9, <1>10, AskStep

\* A request that leaves the stack alone: aipl_remote_send and aipl_mesh_bcast.
LEMMA LeafSend ==
    ASSUME NEW own \in Owners, ObjTypes("leaf"), Agreed(own), NEW b \in Board, NEW T \in SUBSET Board,
           NEW kind \in {"Q", "B", "H"}, Objects("leaf")!MayAsk(b), ncalls' = ncalls + 1,
           next_id' = [next_id EXCEPT ![b] = next_id[b] + 1],
           net' = net \cup Objects("leaf")!Datagrams(kind, b, T, next_id[b], ncalls'),
           UNCHANGED <<wait_id, have, reply, ans, ans_next, mwait, mgot, stack, runs, results>>
    PROVE  \E o \in Owners : Agreed(o)'
<1>1. stack'[b] = stack[b] /\ wait_id'[b] = 0 /\ mwait'[b].id = 0
    BY LeafMayAsk
<1>2. Elsewhere(b)
    BY DEF Elsewhere
<1>3. \A m \in net' : m \in net \/ m \in Objects("leaf")!Datagrams(kind, b, T, next_id[b], ncalls')
    OBVIOUS
<1>4. PICK own2 : own2 = [own EXCEPT ![ncalls + 1] = [by |-> b, id |-> next_id[b], to |-> T]]
    BY Zenon
<1> QED  BY Zenon, <1>1, <1>2, <1>3, <1>4, AskStep

LEMMA LeafMesh ==
    ASSUME NEW own \in Owners, ObjTypes("leaf"), Agreed(own), NEW b \in Board, NEW o \in {"gather", "probe"},
           Objects("leaf")!mesh_run(b, o)
    PROVE  \E z \in Owners : Agreed(z)'
<1> DEFINE T == Board \ {b}
           f == [op |-> o, to |-> T, id |-> next_id[b], call |-> ncalls', tries |-> 0]
           w == [id |-> next_id[b], kind |-> o]
           kind == Objects("leaf")!Wire(o)
<1>1. /\ Objects("leaf")!MayAsk(b) /\ ncalls' = ncalls + 1
      /\ next_id' = [next_id EXCEPT ![b] = Objects("leaf")!Following(next_id[b])]
      /\ mwait' = [mwait EXCEPT ![b] = w] /\ mgot' = [mgot EXCEPT ![b] = << >>]
      /\ net' = net \cup Objects("leaf")!Datagrams(kind, b, T, next_id[b], ncalls')
      /\ stack' = [stack EXCEPT ![b] = Append(stack[b], f)]
      /\ UNCHANGED <<wait_id, have, reply, ans, ans_next, runs, results>>
    BY DEF Objects!mesh_run, Objects!Push, Objects!cache, Objects!waiter, Objects!history
<1>2. /\ ncalls \in 0 .. LeafReqs /\ ncalls < LeafReqs /\ next_id \in [Board -> Nat \ {0}]
      /\ Objects("leaf")!Following(next_id[b]) = next_id[b] + 1 /\ wait_id[b] = 0
    BY <1>1, LeafMayAsk
<1>3. next_id[b] \in Nat /\ ncalls' \in 1 .. Reqs("leaf") /\ T \in SUBSET Board /\ kind \in {"Q", "B", "H"}
    BY <1>1, <1>2, LeafIs DEF Objects!Wire
<1>4. /\ f \in Frames("leaf") /\ f.op = o /\ f.to = T /\ f.id = next_id[b] /\ f.call = ncalls'
    BY <1>3, WaitFrame
<1>w. w.id = next_id[b] /\ w.kind = o
    OBVIOUS
<1> HIDE DEF f, w, T, kind
<1>5. /\ stack \in [Board -> Seq(Frames("leaf"))] /\ mwait \in [Board -> Awaits] /\ mgot \in [Board -> Seq(Got("leaf"))]
    BY DEF ObjTypes
<1>6. Elsewhere(b)
    BY <1>1, <1>5 DEF Elsewhere
<1>7. stack'[b] = Append(stack[b], f) /\ wait_id'[b] = 0 /\ mwait'[b] = w /\ mgot'[b] = << >>
    BY <1>1, <1>2, <1>5
<1>8. \E g \in Frames("leaf") :
            /\ stack'[b] = Append(stack[b], g) /\ g.op \in Waiting /\ g.to = T /\ g.id = next_id[b]
            /\ g.call = ncalls' /\ (g.op = "call" => \E x \in Board : T = {x})
            /\ IF g.op = "call" THEN wait_id'[b] = g.id /\ ~have'[b] /\ mwait'[b].id = 0
               ELSE wait_id'[b] = 0 /\ mwait'[b].id = g.id /\ mwait'[b].kind = g.op /\ mgot'[b] = << >>
    BY <1>4, <1>7, <1>w DEF Waiting
<1>9. \A m \in net' : m \in net \/ m \in Objects("leaf")!Datagrams(kind, b, T, next_id[b], ncalls')
    BY <1>1
<1>10. PICK own2 : own2 = [own EXCEPT ![ncalls + 1] = [by |-> b, id |-> next_id[b], to |-> T]]
    BY Zenon
<1> QED  BY Zenon, <1>1, <1>2, <1>3, <1>6, <1>8, <1>9, <1>10, AskStep

-----------------------------------------------------------------------------
(* Remote calls: the invariant                                             *)

LEMMA LeafInvKept ==
    ASSUME LeafInv, Objects("leaf")!Next
    PROVE  LeafInv'
<1>1. ObjTypes("leaf") /\ ObjTypes("leaf")'
    BY LeafIs, ObjTypesKept DEF LeafInv
<1>2. PICK own \in Owners : Agreed(own)
    BY DEF LeafInv
<1>3. ASSUME NEW b \in Board, Objects("leaf")!ask(b)  PROVE \E o \in Owners : Agreed(o)'
  <2>1. ASSUME NEW to \in Board, Objects("leaf")!aipl_remote_send(b, to)  PROVE \E o \in Owners : Agreed(o)'
    <3>1. /\ Objects("leaf")!MayAsk(b) /\ ncalls' = ncalls + 1 /\ next_id' = [next_id EXCEPT ![b] = next_id[b] + 1]
          /\ net' = net \cup Objects("leaf")!Datagrams("Q", b, {to}, next_id[b], ncalls')
          /\ UNCHANGED <<wait_id, have, reply, ans, ans_next, mwait, mgot, stack, runs, results>>
          /\ {to} \in SUBSET Board
        BY <2>1 DEF Objects!aipl_remote_send, Objects!waiter, Objects!cache, Objects!mesh, Objects!history
    <3> QED  BY Zenon, <1>1, <1>2, <3>1, LeafSend
  <2>2. ASSUME Objects("leaf")!aipl_mesh_bcast(b)  PROVE \E o \in Owners : Agreed(o)'
    <3>1. /\ Objects("leaf")!MayAsk(b) /\ ncalls' = ncalls + 1
          /\ next_id' = [next_id EXCEPT ![b] = Objects("leaf")!Following(next_id[b])]
          /\ net' = net \cup Objects("leaf")!Datagrams("B", b, Board \ {b}, next_id[b], ncalls')
          /\ UNCHANGED <<wait_id, have, reply, ans, ans_next, mwait, mgot, stack, runs, results>>
          /\ Board \ {b} \in SUBSET Board
        BY <2>2 DEF Objects!aipl_mesh_bcast, Objects!waiter, Objects!cache, Objects!mesh, Objects!history
    <3>2. Objects("leaf")!Following(next_id[b]) = next_id[b] + 1
        BY <1>1, <1>2, <3>1, LeafMayAsk
    <3> QED  BY Zenon, <1>1, <1>2, <3>1, <3>2, LeafSend
  <2> QED  BY <1>1, <1>2, <1>3, <2>1, <2>2, LeafCall, LeafMesh DEF Objects!ask
<1>4. ASSUME NEW b \in Board, Objects("leaf")!resend(b) \/ Objects("leaf")!progress(b)  PROVE Agreed(own)'
    BY <1>1, <1>2, <1>4, LeafResend, LeafReturns, LeafMeshReturns, LeafDone DEF Objects!progress
<1>5. ASSUME NEW b \in Board, Objects("leaf")!reboot(b)  PROVE FALSE
  <2>1. reboots < Limits["leaf"].restarts
      BY <1>5, Zenon DEF Objects!reboot
  <2> QED  BY <1>1, <2>1, CallsAssumption DEF ObjTypes
<1>6. ASSUME NEW m \in net, NEW b \in Board,
             \/ Objects("leaf")!receive_R(b, m) \/ Objects("leaf")!receive_H(b, m) \/ Objects("leaf")!receive_A(b, m)
             \/ Objects("leaf")!receive_again(b, m) \/ Objects("leaf")!receive_new(b, m)
      PROVE  Agreed(own)'
    BY <1>1, <1>2, <1>6, LeafReply, LeafProbed, LeafAgain, LeafNew
<1>7. ASSUME NEW m \in net, Objects("leaf")!lose(m)  PROVE Agreed(own)'
    BY <1>1, <1>2, <1>7, LeafLose
<1>8. \E o \in Owners : Agreed(o)'
    BY <1>2, <1>3, <1>4, <1>5, <1>6, <1>7 DEF Objects!Next
<1> QED  BY <1>1, <1>8 DEF LeafInv

\* The shapes as AiplRemote states them.
LEMMA ObjTypesGive ==
    ASSUME NEW s, Objects(s)!ConstantsOK, ObjTypes(s)
    PROVE  Objects(s)!TypeOK
<1>1. net \subseteq Objects(s)!Message
    BY DEF ObjTypes, Msgs
<1>2. ASSUME NEW b \in Board  PROVE stack[b] \in Seq(Objects(s)!Frame)
  <2>1. stack[b] \in Seq(Frames(s))
      BY DEF ObjTypes
  <2>2. PICK l \in Nat : l = Len(stack[b]) /\ stack[b] \in [1 .. l -> Frames(s)]
      BY <2>1, LenProperties
  <2>3. \A i \in 1 .. l : stack[b][i] \in Objects(s)!Frame
      BY <2>2 DEF Frames
  <2>4. stack[b] \in [1 .. l -> Objects(s)!Frame]
      BY <2>2, <2>3
  <2> QED  BY <2>4
<1>3. /\ next_id \in [Board -> Nat \ {0}] /\ wait_id \in [Board -> Nat]
      /\ have \in [Board -> BOOLEAN] /\ reply \in [Board -> 0 .. Limits[s].requests]
      /\ \A b \in Board : Len(mgot[b]) <= Limits[s].gathers
    BY DEF ObjTypes, Reqs, MeshMax
<1> QED  BY <1>1, <1>2, <1>3 DEF Objects!TypeOK

LEMMA ObjTypesInit ==
    ASSUME NEW s, Objects(s)!ConstantsOK, Objects(s)!Init
    PROVE  ObjTypes(s)
<1>1. Reqs(s) \in Nat /\ AnsMax(s) \in Nat \ {0} /\ MeshMax(s) \in Nat \ {0}
    BY LimitsAre
<1>2. net = {} /\ ncalls = 0 /\ reboots = 0 /\ reply = [b \in Board |-> 0] /\ have = [b \in Board |-> FALSE]
    BY Zenon DEF Objects!Init, Objects!NoCall
<1>3. next_id = [b \in Board |-> 1] /\ wait_id = [b \in Board |-> 0] /\ ans_next = [b \in Board |-> 0]
    BY Zenon DEF Objects!Init
<1>4. mwait \in [Board -> Awaits]
  <2>1. [id |-> 0, kind |-> ""] \in Awaits
      BY DEF Awaits
  <2>2. PICK w \in Awaits : mwait = [b \in Board |-> w]
      BY <2>1, Zenon DEF Objects!Init
  <2> QED  BY <2>2
<1>5. mgot = [b \in Board |-> << >>] /\ stack = [b \in Board |-> << >>] /\ runs = [c \in 1 .. Reqs(s) |-> << >>]
    BY Zenon DEF Objects!Init, Objects!Calls, Reqs
<1>6. ans \in [Board -> Caches(s)]
  <2>1. [i \in 0 .. AnsMax(s) - 1 |-> Objects(s)!NoEntry] \in Caches(s)
      BY <1>1 DEF Caches, Entries, Objects!NoEntry, Objects!NoCall
  <2>2. ans = [b \in Board |-> [i \in 0 .. AnsMax(s) - 1 |-> Objects(s)!NoEntry]]
      BY Zenon DEF Objects!Init, AnsMax
  <2> QED  BY <2>1, <2>2, Zenon
<1>7. net \subseteq Msgs(s) /\ ncalls \in 0 .. Reqs(s) /\ reboots \in Nat
    BY <1>1, <1>2
<1>8. /\ next_id \in [Board -> Nat \ {0}] /\ wait_id \in [Board -> Nat] /\ have \in [Board -> BOOLEAN]
      /\ reply \in [Board -> 0 .. Reqs(s)] /\ ans_next \in [Board -> 0 .. AnsMax(s) - 1]
    BY <1>1, <1>2, <1>3
<1>9. /\ mgot \in [Board -> Seq(Got(s))] /\ stack \in [Board -> Seq(Frames(s))] /\ runs \in [1 .. Reqs(s) -> Seq(Board)]
    BY <1>5, EmptySeq
<1>10. \A b \in Board : Len(mgot[b]) <= MeshMax(s)
    BY <1>1, <1>5, EmptySeq
<1> QED  BY <1>4, <1>6, <1>7, <1>8, <1>9, <1>10 DEF ObjTypes

LEMMA LeafInvInit ==
    ASSUME Objects("leaf")!Init  PROVE LeafInv
<1>1. ObjTypes("leaf")
    BY LeafIs, ObjTypesInit
<1>2. net = {} /\ ncalls = 0 /\ results = {} /\ next_id = [b \in Board |-> 1] /\ wait_id = [b \in Board |-> 0]
      /\ stack = [b \in Board |-> << >>] /\ runs = [c \in 1 .. LeafReqs |-> << >>] /\ ans_next = [b \in Board |-> 0]
    BY Zenon DEF Objects!Init, Objects!Calls, LeafReqs
<1>3. \A b \in Board : mwait[b].id = 0
  <2>1. PICK none : mwait = [b \in Board |-> none] /\ none.id = 0
      BY NoneAwaited, Zenon DEF Objects!Init
  <2> QED  BY <2>1
<1>4. \A b \in Board : \A i \in 0 .. LeafSlots - 1 : ans[b][i].id = 0
  <2>1. ans = [b \in Board |-> [i \in 0 .. LeafSlots - 1 |-> Objects("leaf")!NoEntry]]
      BY Zenon DEF Objects!Init, LeafSlots
  <2>2. Objects("leaf")!NoEntry.id = 0
      BY DEF Objects!NoEntry
  <2> QED  BY <2>1, <2>2
<1>5. PICK own : own \in Owners
  <2>1. PICK x \in Board : TRUE
      BY CallsAssumption
  <2>2. [by |-> x, id |-> 0, to |-> {}] \in [by : Board, id : Nat, to : SUBSET Board]
      OBVIOUS
  <2>3. [c \in 1 .. LeafReqs |-> [by |-> x, id |-> 0, to |-> {}]] \in Owners
      BY <2>2 DEF Owners
  <2> QED  BY <2>3
<1>6. \A c \in 1 .. LeafReqs : DOMAIN runs[c] = {}
    BY <1>2
<1>7. 1 .. ncalls = {} /\ \A b \in Board : next_id[b] <= ncalls + 1
    BY <1>2
<1>8. Issued(own, ncalls, next_id)
    BY <1>7 DEF Issued
<1>9. RanOnce(own, ncalls, runs)
    BY <1>6 DEF RanOnce
<1>10. ASSUME NEW b \in Board  PROVE OnBoard(b, own)
  <2>1. Len(stack[b]) = 0 /\ stack[b] \in Seq(Frames("leaf")) /\ wait_id[b] = 0 /\ ans_next[b] = 0
      BY <1>2, EmptySeq
  <2>2. Methods(stack[b]) = {}
      BY <2>1, MethodsAre
  <2>3. Stacked(stack[b], b, own, ncalls, runs)
      BY <2>1 DEF Stacked
  <2>4. Replied(stack[b], wait_id[b], have[b], reply[b], runs)
      BY <2>1 DEF Replied
  <2>5. Collected(stack[b], mwait[b], mgot[b], runs)
      BY <1>3, <2>1 DEF Collected
  <2>6. 0 % LeafSlots = 0 /\ 0 .. 0 - 1 = {} /\ 0 \in 0 .. LeafSlots
      BY LeafIs
  <2>7. Cached(0, ans[b], ans_next[b], stack[b], b, own, ncalls, runs)
      BY <1>4, <1>7, <2>1, <2>6 DEF Cached
  <2> QED  BY <2>3, <2>4, <2>5, <2>6, <2>7 DEF OnBoard
<1>11. Agreed(own)
    BY <1>2, <1>8, <1>9, <1>10 DEF Agreed
<1> QED  BY <1>1, <1>5, <1>11 DEF LeafInv

\* The promises of aipl_remote.c follow.
LEMMA LeafInvGives ==
    ASSUME LeafInv
    PROVE  Objects("leaf")!AnswersRight /\ Objects("leaf")!AtMostOnce
<1>1. PICK own \in Owners : Agreed(own)
    BY DEF LeafInv
<1>2. \A r \in results : Handed(r, ncalls, runs)
    BY <1>1 DEF Agreed
<1>3. RanOnce(own, ncalls, runs)
    BY <1>1 DEF Agreed
<1>4. Objects("leaf")!AnswersRight
    BY <1>2 DEF Handed, Ran, Objects!AnswersRight
<1>5. Objects("leaf")!AtMostOnce
    BY <1>3 DEF RanOnce, LeafReqs, Objects!AtMostOnce, Objects!Calls
<1> QED  BY <1>4, <1>5

\* No scene of remote calls leaves it, and the shapes stay; in the leaf scene who asked
\* for what agrees.
CallInv ==
    /\ \A s \in RemoteScene : scene = s => ObjTypes(s)
    /\ scene = "leaf" => LeafInv

LEMMA CallInvInit == Init => CallInv
<1> SUFFICES ASSUME Init  PROVE CallInv
    OBVIOUS
<1>1. ASSUME NEW s \in RemoteScene, scene = s  PROVE Objects(s)!Init
    BY <1>1 DEF Init, RemoteScene
<1>2. \A s \in RemoteScene : Objects(s)!ConstantsOK
    BY CallsAssumption
<1>3. \A s \in RemoteScene : scene = s => ObjTypes(s)
    BY <1>1, <1>2, ObjTypesInit
<1>4. scene = "leaf" => LeafInv
  <2>1. "leaf" \in RemoteScene
      BY DEF RemoteScene
  <2> QED  BY <1>1, <2>1, LeafInvInit
<1> QED  BY <1>3, <1>4 DEF CallInv

LEMMA CallInvNext == CallInv /\ [Next]_allvars => CallInv'
<1> SUFFICES ASSUME CallInv, [Next]_allvars  PROVE CallInv'
    OBVIOUS
<1>1. CASE \E s \in RemoteScene : InAipl(s, Objects(s)!Next)
  <2>1. PICK s \in RemoteScene : InAipl(s, Objects(s)!Next)
      BY <1>1
  <2>2. scene = s /\ scene' = s /\ Objects(s)!Next
      BY <2>1 DEF InAipl
  <2>3. ObjTypes(s) /\ Objects(s)!ConstantsOK
      BY <2>2, CallsAssumption DEF CallInv
  <2>4. ObjTypes(s)'
      BY <2>2, <2>3, ObjTypesKept
  <2>5. s = "leaf" => LeafInv'
      BY <2>2, LeafInvKept DEF CallInv
  <2> QED  BY <2>2, <2>4, <2>5 DEF CallInv
<1>2. CASE InPool("pool", Pool!Next) \/ InPool("slow", Tardy!Next) \/ InPool("symmetric", Sym!Next)
  <2>1. scene \in {"pool", "slow", "symmetric"} /\ scene' = scene
      BY <1>2 DEF InPool
  <2> QED  BY <2>1 DEF CallInv, RemoteScene
<1>3. CASE UNCHANGED allvars
  <2>1. UNCHANGED <<scene, net, next_id, wait_id, have, reply, ans, ans_next, mwait, mgot, stack, ncalls, reboots, runs,
                    results>>
      BY <1>3 DEF allvars, aiplvars
  <2>2. \A s \in RemoteScene : ObjTypes(s) => ObjTypes(s)'
      BY <2>1 DEF ObjTypes
  <2>3. LeafInv => LeafInv'
      BY Zenon, <2>1 DEF LeafInv, ObjTypes, Agreed, OnBoard
  <2> QED  BY <2>1, <2>2, <2>3 DEF CallInv
<1> QED  BY <1>1, <1>2, <1>3 DEF Next

\* For every number of boards and requests: where methods call nobody, no more requests
\* are made than the answer cache has slots and ids do not come round, what a remote
\* call, gather or probe hands to its program are answers to that very request, one per
\* board, of boards that ran the method, and no method runs twice for a request
\* (aipl_remote.c:93), however often datagrams are repeated, late or lost.
THEOREM RemoteCallsHold == Spec => []LeafCalls
<1>1. CallInv => LeafCalls
  <2> SUFFICES ASSUME CallInv  PROVE LeafCalls
      OBVIOUS
  <2>1. \A s \in RemoteScene : scene = s => Objects(s)!TypeOK
      BY CallsAssumption, ObjTypesGive DEF CallInv
  <2>2. scene = "leaf" => Objects("leaf")!AnswersRight /\ Objects("leaf")!AtMostOnce
      BY LeafInvGives DEF CallInv
  <2> QED  BY <2>1, <2>2 DEF LeafCalls
<1> QED  BY <1>1, CallInvInit, CallInvNext, PTL DEF Spec
=============================================================================
