---------------------------- MODULE CompiledRun ----------------------------
(***************************************************************************)
(* The machine the code of Compiler.tla runs on: the part of AArch64 that  *)
(* src/cc/codegen.c emits, with cc_tick of src/cc/cc.c.  It runs main of   *)
(* one compiled program and stops at its return.                           *)
(***************************************************************************)
EXTENDS Integers, Sequences, TLC

CONSTANTS
    Compiled,           \* [program -> what cc_codegen made of it]
    Expected, Diverges, \* [program -> what C says main returns], or that it does not
    Chained, Unnarrowed,\* programs that use the value of an assignment to a char, and
                        \* what they return when that value is not narrowed
    TICKS,              \* cc_tick's budget: calls before it says stop
    SP0                 \* top of the stack

VARIABLES
    prog,               \* the program that runs
    m,                  \* the machine: registers, memory, program counter
    spent               \* cc_tick has said stop

ccvars == <<prog, m, spent>>

Junk == -77
Bool(b) == IF b THEN 1 ELSE 0
Load(a) == IF a \in DOMAIN m.mem THEN m.mem[a] ELSE Junk
TruncDiv(a, b) == LET Abs(x) == IF x < 0 THEN -x ELSE x
                      q == Abs(a) \div Abs(b)
                  IN IF b = 0 THEN 0 ELSE IF (a < 0) = (b < 0) THEN q ELSE -q
Alu(op, a, b) ==
    CASE op = "+" -> a + b [] op = "-" -> a - b [] op = "*" -> a * b
      [] op = "/" -> TruncDiv(a, b) [] op = "%" -> a - TruncDiv(a, b) * b
      [] op = "==" -> Bool(a = b) [] op = "!=" -> Bool(a # b)
      [] op = "<" -> Bool(a < b) [] op = "<=" -> Bool(a <= b)

X(r, v) == [m EXCEPT !.x[r] = v, !.pc = @ + 1]
Write(a, v) == [m EXCEPT !.mem = (a :> v) @@ @, !.pc = @ + 1]
Goto(taken, to) == [m EXCEPT !.pc = IF taken THEN to ELSE @ + 1]

Execute(i) ==
    CASE i[1] = "imm" -> X(i[2], i[3])
      [] i[1] = "frame" -> X(0, m.fp - i[3])
      [] i[1] = "addi" -> X(0, m.x[0] + i[3])
      [] i[1] = "push" -> [Write(m.sp - 16, m.x[0]) EXCEPT !.sp = @ - 16]
      [] i[1] = "pop" -> [X(i[2], Load(m.sp)) EXCEPT !.sp = @ + 16]
      [] i[1] = "neg" -> X(0, -m.x[0])
      [] i[1] = "not" -> X(0, Bool(m.x[0] = 0))
      [] i[1] \in {"ldr", "ldrb"} -> X(0, Load(m.x[0]))
      [] i[1] = "str" -> Write(m.x[1], m.x[0])
      [] i[1] = "strb" -> Write(m.x[1], m.x[0] % 256)
      [] i[1] = "spill" -> Write(m.fp - i[3], m.x[i[2]])
      [] i[1] = "spillb" -> Write(m.fp - i[3], m.x[i[2]] % 256)
      [] i[1] = "cmpi" -> [X(1, i[3]) EXCEPT !.eq = (m.x[0] = i[3])]
      [] i[1] = "b" -> Goto(TRUE, i[2])
      [] i[1] = "cbz" -> Goto(m.x[0] = 0, i[2])
      [] i[1] = "cbnz" -> Goto(m.x[0] # 0, i[2])
      [] i[1] = "beq" -> Goto(m.eq, i[2])
      [] i[1] = "call" -> [m EXCEPT !.lr = m.pc + 1, !.pc = i[3]]
      [] i[1] = "enter" -> [m EXCEPT !.mem = (m.sp - 16 :> m.fp) @@ (m.sp - 8 :> m.lr) @@ @,
                                     !.fp = m.sp - 16, !.sp = m.sp - 16 - i[3], !.pc = @ + 1]
      [] i[1] = "leave" -> [m EXCEPT !.sp = m.fp + 16, !.fp = Load(m.fp), !.pc = Load(m.fp + 8),
                                     !.x = [r \in 0 .. 3 |-> IF r = 0 THEN m.x[0] ELSE Junk]]
      [] OTHER -> X(0, Alu(i[1], m.x[0], m.x[1]))

Halted == m.pc = 0

Instruction ==
    /\ ~Halted /\ Compiled[prog].code[m.pc][1] # "tick"
    /\ m' = Execute(Compiled[prog].code[m.pc]) /\ UNCHANGED <<prog, spent>>

(* cc_tick: says stop once the budget is spent, however early that is.      *)
cc_tick ==
    /\ ~Halted /\ Compiled[prog].code[m.pc][1] = "tick"
    /\ \E go \in {0, 1} :
          /\ go = 1 => ~spent /\ m.ticks > 0
          /\ spent' = (go = 0)
          /\ m' = [m EXCEPT !.x = [r \in 0 .. 3 |-> IF r = 0 THEN go ELSE Junk],
                            !.ticks = IF @ > 0 THEN @ - 1 ELSE 0, !.pc = @ + 1]
    /\ UNCHANGED prog

CompInit ==
    /\ prog \in DOMAIN Compiled
    /\ LET out == Compiled[prog] IN
       m = [pc |-> IF out.failed THEN 0 ELSE out.entry["main"], x |-> [r \in 0 .. 3 |-> Junk],
            fp |-> 0, sp |-> SP0, lr |-> 0, eq |-> FALSE, ticks |-> TICKS, mem |-> out.data]
    /\ spent = FALSE

CompNext == Instruction \/ cc_tick
CompSpec == CompInit /\ [][CompNext]_ccvars /\ WF_ccvars(CompNext)

(* A compiled program computes what C says it computes: main returns the    *)
(* value the source tree has, unless the budget cut a loop short.  One      *)
(* expression is compiled wrongly and exactly so: the value of an           *)
(* assignment to a char is not narrowed (codegen.c, gen_store), so          *)
(* b = c = 300 leaves 300 in b where C leaves 44.                          *)
CompiledRight ==
    Halted /\ ~spent /\ Expected[prog] # Diverges =>
        m.x[0] = IF prog \in Chained THEN Unnarrowed[prog] ELSE Expected[prog]

(* A compiled program ends: whatever the program, the budget check of its   *)
(* loops lets it run out (codegen.c's runaway guard).                      *)
RunsEnd == <>Halted
=============================================================================
