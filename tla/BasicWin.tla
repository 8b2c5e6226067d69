-------------------------------- MODULE BasicWin --------------------------------
(* The BASIC windows (device/video/basic.c, basicwin.c, the key and click routing *)
(* of loader/main.c): every window has its own interpreter state, but one global  *)
(* cursor (basic_cur, bw_curi) says which state "the" interpreter works on.  A    *)
(* RUN holds its process; it lets keys and clicks in at its pauses and polls, and *)
(* the network process injects keys and posts lines of its own.  A program is a   *)
(* sequence of statements, one per line; text, numbers and drawing are abstracted *)
(* to loop counters and a tally.                                                  *)
EXTENDS Integers, Sequences, FiniteSets, SequencesExt

CONSTANTS Win,        \* windows open: a subset of 0..3
          Prog,       \* the program in every window
          Items,      \* DATA items of the program
          FOR_MAX, GOSUB_MAX, WHILE_MAX,   \* stack limits
          CLICKS,     \* clicks on the program's button, a bound
          EVENTS      \* keys, clicks and requests from outside, a bound

Proc == {"wm", "net"}
Var == {"I", "J", "K", "X"}

VARIABLES
  basic_cur,  \* the selected instance
  bs,         \* interpreter state of each window
  frames,     \* the RUN loops each process is inside, innermost last: the window each was started for
  pending,    \* s_have_pending: a line posted over HTTP (always RUN)
  pbtn,       \* clicks the window layer counted and the interpreter has not drained
  queue,      \* g_btn_queue of the program's button
  handler,    \* g_btn_handler: line of the button's handler, 0 when none
  clicks,     \* history: clicks on the button since it was created
  handled,    \* history: handler calls since then
  ended,      \* history: [win, x]: the last RUN that reached END, and its tally
  events
vars == <<basic_cur, bs, frames, pending, pbtn, queue, handler, clicks, handled, ended, events>>

Fresh == [running |-> FALSE, pc |-> 1, brk |-> FALSE, err |-> FALSE, for |-> << >>, gosub |-> << >>,
          while |-> << >>, data |-> 0, val |-> [v \in Var |-> 0]]

Init ==
  /\ basic_cur = 0 /\ bs = [w \in Win |-> Fresh]
  /\ frames = [p \in Proc |-> << >>]
  /\ pending = FALSE /\ pbtn = 0 /\ queue = 0 /\ handler = 0 /\ clicks = 0 /\ handled = 0
  /\ ended = [win |-> -1, x |-> 0] /\ events = 0

-----------------------------------------------------------------------------
(* Statements, on interpreter state b: each gives the state after it.            *)

Error(b) == [b EXCEPT !.err = TRUE]
Step(b) == [b EXCEPT !.pc = @ + 1]
Jump(b, line) == IF line \in DOMAIN Prog THEN [b EXCEPT !.pc = line] ELSE Error(b)   \* ?undef'd line

GOSUB(b, line) == IF Len(b.gosub) < GOSUB_MAX
                  THEN [Jump(b, line) EXCEPT !.gosub = Append(@, b.pc + 1)]
                  ELSE Error(b)
RETURN(b) == IF b.gosub = << >> THEN Error(b) ELSE [b EXCEPT !.pc = Last(b.gosub), !.gosub = Front(@)]

FOR(b, s) == LET b1 == [b EXCEPT !.val[s.var] = s.from]
             IN IF Len(b.for) < FOR_MAX
                THEN Step([b1 EXCEPT !.for = Append(@, [var |-> s.var, to |-> s.to, idx |-> b.pc + 1])])
                ELSE Error(b1)
Again_mutant(v, to) == v < to

(* NEXT ignores the variable it names and continues the innermost loop.          *)
Again(v, to) == v <= to
NEXT(b) == IF b.for = << >> THEN Error(b)
           ELSE LET t == Last(b.for)
                    v == b.val[t.var] + 1
                    b1 == [b EXCEPT !.val[t.var] = v]
                IN IF Again(v, t.to) THEN [b1 EXCEPT !.pc = t.idx] ELSE Step([b1 EXCEPT !.for = Front(@)])

(* A false WHILE goes behind the WEND that closes it, nested ones counted; WEND   *)
(* evaluates the condition of the innermost open loop again.                      *)
Depth(from, to) == Cardinality({i \in from..to : Prog[i].op = "WHILE"}) - Cardinality({i \in from..to : Prog[i].op = "WEND"})
Closes(l) == {w \in DOMAIN Prog : w > l /\ Prog[w].op = "WEND" /\ Depth(l, w) = 0}
WHILE(b, s) == IF b.val[s.var] < s.to
               THEN IF Len(b.while) < WHILE_MAX THEN Step([b EXCEPT !.while = Append(@, b.pc)]) ELSE Error(b)
               ELSE IF Closes(b.pc) = {} THEN Error(b)
                    ELSE [b EXCEPT !.pc = (CHOOSE w \in Closes(b.pc) : \A x \in Closes(b.pc) : w <= x) + 1]
WEND(b) == IF b.while = << >> THEN Error(b)
           ELSE LET s == Prog[Last(b.while)]
                IN IF b.val[s.var] < s.to THEN [b EXCEPT !.pc = Last(b.while) + 1] ELSE Step([b EXCEPT !.while = Front(@)])

READ(b) == IF b.data < Items THEN Step([b EXCEPT !.data = @ + 1]) ELSE Error(b)      \* out of DATA

exec_stmt(b, s) ==
  CASE s.op = "GOTO" -> Jump(b, s.line)
    [] s.op = "GOSUB" -> GOSUB(b, s.line)
    [] s.op = "RETURN" -> RETURN(b)
    [] s.op = "IF" -> IF b.val[s.var] < s.to THEN Jump(b, s.line) ELSE Step(b)
    [] s.op = "FOR" -> FOR(b, s)
    [] s.op = "NEXT" -> NEXT(b)
    [] s.op = "WHILE" -> WHILE(b, s)
    [] s.op = "WEND" -> WEND(b)
    [] s.op = "READ" -> READ(b)
    [] s.op = "RESTORE" -> Step([b EXCEPT !.data = 0])
    [] s.op = "LET" -> Step([b EXCEPT !.val[s.var] = @ + 1])
    [] s.op = "INPUT" -> Error(b)                     \* no reader is set: "no input"
    [] s.op = "END" -> [b EXCEPT !.running = FALSE]
    [] s.op \in {"PAUSE", "BUTTON", "REM"} -> Step(b)

-----------------------------------------------------------------------------
(* do_run: entering it, one turn of its loop, leaving it.                        *)

(* RUN in instance w, by process p: stacks, variables, DATA cursor, break flag    *)
(* and the program's buttons start afresh.                                        *)
Run(p, w) ==
  /\ bs' = [bs EXCEPT ![w] = [Fresh EXCEPT !.running = TRUE]]
  /\ frames' = [frames EXCEPT ![p] = Append(@, w)]
  /\ pbtn' = 0 /\ queue' = 0 /\ handler' = 0 /\ clicks' = 0 /\ handled' = 0

Leaves_mutant(b) == ~b.running \/ b.err \/ b.pc \notin DOMAIN Prog
Leaves(b) == ~b.running \/ b.brk \/ b.err \/ b.pc \notin DOMAIN Prog

RunReturns(p) ==
  LET w == basic_cur
  IN /\ frames[p] # << >> /\ Leaves(bs[w])
     /\ bs' = [bs EXCEPT ![w].running = FALSE, ![w].brk = FALSE]
     /\ frames' = [frames EXCEPT ![p] = Front(@)]
     /\ ended' = IF bs[w].pc \in DOMAIN Prog /\ Prog[bs[w].pc].op = "END" /\ ~bs[w].brk /\ ~bs[w].err
                 THEN [win |-> w, x |-> bs[w].val["X"]] ELSE ended
     /\ UNCHANGED <<basic_cur, pending, pbtn, queue, handler, clicks, handled, events>>

(* At the start of a line outside any subroutine a waiting click calls the        *)
(* handler (bas_next_btn_event drains the window layer's count first).            *)
Dispatches(b) == handler > 0 /\ b.gosub = << >> /\ queue + pbtn > 0
Drained == queue + pbtn - 1

ButtonEvent(p) ==
  LET b == bs[basic_cur]
  IN /\ frames[p] # << >> /\ ~Leaves(b) /\ Dispatches(b)
     /\ queue' = Drained /\ pbtn' = 0 /\ handled' = handled + 1
     /\ bs' = [bs EXCEPT ![basic_cur].gosub = Append(@, b.pc), ![basic_cur].pc = handler]
     /\ UNCHANGED <<basic_cur, frames, pending, handler, clicks, ended, events>>

Statement(p) ==
  LET b == bs[basic_cur]
      s == Prog[b.pc]
  IN /\ frames[p] # << >> /\ ~Leaves(b) /\ ~Dispatches(b)
     /\ bs' = [bs EXCEPT ![basic_cur] = exec_stmt(b, s)]
     /\ handler' = IF s.op = "BUTTON" THEN s.line ELSE handler
     /\ UNCHANGED <<basic_cur, frames, pending, pbtn, queue, clicks, handled, ended, events>>

-----------------------------------------------------------------------------
(* What comes from outside: at a PAUSE (bw_pause) or a poll (bw_break_poll) the   *)
(* running process drains USB, and the network process does so at any time.       *)

Event == events < EVENTS /\ events' = events + 1
AtPump(p) == \/ frames[p] = << >>
             \/ ~Leaves(bs[basic_cur]) /\ Prog[bs[basic_cur].pc].op = "PAUSE"

(* A click on the BASIC window w (bw_on_click) selects w; on the program's button *)
(* it counts; on a toolbar command it runs it unless "the" interpreter is running *)
(* -- which is now the one of w.                                                  *)
ClickButton(p, w) ==
  /\ AtPump(p) /\ Event /\ handler > 0 /\ clicks < CLICKS
  /\ basic_cur' = w /\ pbtn' = pbtn + 1 /\ clicks' = clicks + 1
  /\ UNCHANGED <<bs, frames, pending, queue, handler, handled, ended>>

(* basic_is_running() after basic_select(w).                                      *)
Busy(w) == bs[w].running

bw_on_click(p, w) ==
  /\ AtPump(p) /\ Event
  /\ basic_cur' = w
  /\ IF Busy(w) THEN UNCHANGED <<bs, frames, pbtn, queue, handler, clicks, handled>> ELSE Run(p, w)
  /\ UNCHANGED <<pending, ended>>

(* A key (xhci_keyboard_event) asks the current instance whether it runs: then    *)
(* only Ctrl-C acts, on that instance; otherwise it goes to the focused window w, *)
(* where Enter executes the line.                                                 *)
xhci_keyboard_event(p, w, c) ==
  /\ AtPump(p) /\ Event
  /\ IF bs[basic_cur].running
     THEN /\ bs' = [bs EXCEPT ![basic_cur].brk = @ \/ c = "ctrl-c"]
          /\ UNCHANGED <<basic_cur, frames, pbtn, queue, handler, clicks, handled>>
     ELSE /\ basic_cur' = w
          /\ IF c = "enter" THEN Run(p, w) ELSE UNCHANGED <<bs, frames, pbtn, queue, handler, clicks, handled>>
  /\ UNCHANGED <<pending, ended>>

(* The HTTP harness, in the network process, always addresses window 0.           *)
basicwin_inject_key(c) ==
  /\ frames["net"] = << >> /\ Event
  /\ basic_cur' = 0
  /\ IF bs[0].running
     THEN bs' = [bs EXCEPT ![0].brk = @ \/ c = "ctrl-c"] /\ UNCHANGED <<frames, pbtn, queue, handler, clicks, handled>>
     ELSE IF c = "enter" THEN Run("net", 0) ELSE UNCHANGED <<bs, frames, pbtn, queue, handler, clicks, handled>>
  /\ UNCHANGED <<pending, ended>>

basicwin_post_line ==
  /\ Event /\ pending' = TRUE
  /\ UNCHANGED <<basic_cur, bs, frames, pbtn, queue, handler, clicks, handled, ended>>

basicwin_poll_pending ==                          \* from the wm tick, outside any RUN of that process
  /\ frames["wm"] = << >> /\ pending
  /\ pending' = FALSE /\ basic_cur' = 0 /\ Run("wm", 0)
  /\ UNCHANGED <<ended, events>>

basicwin_draw(w) ==                               \* drawing selects the window drawn
  /\ frames["wm"] = << >> /\ basic_cur' = w
  /\ UNCHANGED <<bs, frames, pending, pbtn, queue, handler, clicks, handled, ended, events>>

Loop(p) == RunReturns(p) \/ ButtonEvent(p) \/ Statement(p)
Next ==
  \/ basicwin_post_line \/ basicwin_poll_pending
  \/ \E p \in Proc : Loop(p)
  \/ \E w \in Win : basicwin_draw(w)
  \/ \E w \in Win, p \in Proc : ClickButton(p, w) \/ bw_on_click(p, w)
  \/ \E w \in Win, p \in Proc, c \in {"enter", "ctrl-c"} : xhci_keyboard_event(p, w, c)
  \/ \E c \in {"enter", "ctrl-c"} : basicwin_inject_key(c)

(* Fairness: a process inside RUN is scheduled again and again (proc.c).          *)
Spec == Init /\ [][Next]_vars /\ \A p \in Proc : WF_vars(Loop(p))

-----------------------------------------------------------------------------
(* No RUN is entered while another is under way ("executing here would reenter    *)
(* basic_exec_line, so ignore it", basicwin.c): the interpreter and its cursor    *)
(* belong to one RUN at a time.                                                   *)
NoReentry == Len(frames["wm"]) + Len(frames["net"]) <= 1

(* Nested FOR loops left by their NEXT have run their bodies the right number of  *)
(* times, whatever events came in between: LoopTally is the count for Prog.       *)
LoopsRunTheirCount(LoopTally) == ended.win # -1 => ended.x = LoopTally

(* Each click on a program button calls its handler exactly once: none is lost    *)
(* between the window layer's count and the interpreter's queue, none repeated.   *)
ClickHandledOnce == handler > 0 => clicks = handled + queue + pbtn

(* Ctrl-C ends the program: a break requested while it runs is taken.             *)
BreakStops == \A w \in Win : (bs[w].running /\ bs[w].brk) ~> ~bs[w].running
=============================================================================
