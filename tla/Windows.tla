------------------------------ MODULE Windows ------------------------------
(***************************************************************************)
(* The desktop: the window list of device/video/wm.c, the mouse handler    *)
(* and right-click menu of loader/main.c, the shells of shellwin.c and the *)
(* on-screen keyboard of softkbd.c.  A pixel is a cell of a small grid and *)
(* holds the window last painted there.  The list is in drawing order, the *)
(* topmost window last; all of it is one record d, because a mouse report  *)
(* is handled as a sequence of updates.  The frame loop repaints over the  *)
(* pixels of the frame before, so what it must erase is a proof obligation.*)
(***************************************************************************)
EXTENDS Integers, Sequences, SequencesExt

CONSTANTS
    DW, DH,         \* WM_DESKTOP_W, WM_DESKTOP_H
    SW, SH,         \* the scanout
    TITLE, GRIP,    \* WM_TITLEBAR_H, RESIZE_GRIP
    MIN_W, MIN_H,   \* the smallest size a drag of the grip gives
    KEEP,           \* 60: columns of a window that stay on the desktop
    EDGE, STEP,     \* the edge-pan band and its step
    SHELLWIN_MAX, ROWS, COLS, INBUF,  \* shells, their ring and their input line
    Geometry,       \* the windows' first places: window -> <<x, y, w, h>>
    Shown,          \* the windows on the desktop at boot, in drawing order
    Moves,          \* the motions a mouse report may carry
    Layout,         \* geometries the serial layout channel may send
    REPORTS         \* bound on mouse reports and commands

VARIABLES
    d,          \* the desktop: see Boot
    vp, last_vp, cursor, prev_btn,    \* camera, the one last painted, pointer, buttons
    screen,     \* the back buffer: cell -> what was last painted there
    fresh,      \* the frame just composed shows the present desktop
    reports     \* reports so far

winvars == <<d, vp, last_vp, cursor, prev_btn, screen, fresh, reports>>

Shell == 0..(SHELLWIN_MAX - 1)      \* tag = instance
Kbd == -1
App == -2                        \* a window with no shell: BASIC, the .avm list, the viewer
Win == Shell \cup {Kbd, App}
None == -3
Bg == -4                            \* a cell of the desktop
Menu == -5                          \* a cell of the popup
Cell == (0..(SW - 1)) \X (0..(SH - 1))
Max2(a, b) == IF a > b THEN a ELSE b
Min2(a, b) == IF a < b THEN a ELSE b
Clamp(lo, v, hi) == Max2(lo, Min2(v, hi))
In(p, g) == /\ p[1] >= g[1] /\ p[1] < g[1] + g[3]
            /\ p[2] >= g[2] /\ p[2] < g[2] + g[4]

inst_reset == [row |-> 0, col |-> 0, filled |-> FALSE, inlen |-> 0]

Boot == [list |-> Shown, geo |-> Geometry, focused |-> {0}, wipe |-> FALSE, clr |-> << >>,
         active |-> 0, n_inst |-> 1, insts |-> [i \in Shell |-> inst_reset],
         shift |-> FALSE, caps |-> FALSE, drag |-> None, resize |-> None, off |-> <<0, 0>>,
         menu |-> << >>]

WInit ==
    /\ d = Boot /\ vp = <<0, 0>> /\ last_vp = << >> /\ cursor = <<SW \div 2, SH \div 2>>
    /\ prev_btn = {} /\ screen = [c \in Cell |-> Bg] /\ fresh = FALSE /\ reports = 0

-----------------------------------------------------------------------------
(***************************************************************************)
(* The list of wm.c.                                                       *)
(***************************************************************************)
wm_is_shown(e, w) == w \in Range(e.list)
wm_add(e, w) == [e EXCEPT !.list = Append(@, w)]
Raise(e, w) == [e EXCEPT !.list = Append(SelectSeq(@, LAMBDA v : v # w), w), !.focused = {w}]
wm_show(e, w) == Raise(IF wm_is_shown(e, w) THEN e ELSE wm_add(e, w), w)

\* The topmost window at a point of the desktop, << >> when there is none.
wm_window_at(e, p) ==
    LET hits == SelectSeq(e.list, LAMBDA w : In(p, e.geo[w]))
    IN  IF hits = << >> THEN << >> ELSE <<Last(hits)>>
wm_focus_at(e, p) == LET hit == wm_window_at(e, p) IN IF hit = << >> THEN e ELSE Raise(e, hit[1])
wm_focused(e) == LET f == SelectSeq(e.list, LAMBDA w : w \in e.focused)
                 IN  IF f = << >> THEN None ELSE Head(f)
wm_close_hit(e, w, p) == In(p, <<e.geo[w][1] + 1, e.geo[w][2] + 1, TITLE, TITLE>>)

PassFocus_mutant(e, w, rest) == e.focused
PassFocus(e, w, rest) ==
    IF w \in e.focused THEN (e.focused \ {w}) \cup (IF rest = << >> THEN {} ELSE {Last(rest)})
    ELSE e.focused
wm_remove(e, w) ==
    LET rest == SelectSeq(e.list, LAMBDA v : v # w)
    IN  [e EXCEPT !.list = rest, !.focused = PassFocus(e, w, rest), !.wipe = TRUE]

\* One pending rectangle; requests before the next frame are united.
wm_clear_bg_rect(e, g) ==
    LET c == e.clr
        x0 == Min2(c[1], g[1])
        y0 == Min2(c[2], g[2])
    IN  [e EXCEPT !.clr = IF c = << >> THEN g
            ELSE <<x0, y0, Max2(c[1] + c[3], g[1] + g[3]) - x0,
                           Max2(c[2] + c[4], g[2] + g[4]) - y0>>]

\* The serial layout channel ('M' and 'R') addresses the id-th window of the list.
wm_move_window(e, id, g) ==
    IF id \in DOMAIN e.list
    THEN [e EXCEPT !.geo[e.list[id]] = <<g[1], g[2], @[3], @[4]>>] ELSE e
wm_resize_window(e, id, g) ==
    IF id \in DOMAIN e.list
    THEN [e EXCEPT !.geo[e.list[id]] = <<@[1], @[2], IF g[3] > TITLE THEN g[3] ELSE @[3],
                                                   IF g[4] > TITLE THEN g[4] ELSE @[4]>>] ELSE e

-----------------------------------------------------------------------------
(***************************************************************************)
(* The shells: the scrollback ring, the input line, and which one is       *)
(* active.  A ring row is the length of its text.                          *)
(***************************************************************************)
inst_newline(in) ==
    [in EXCEPT !.row = (@ + 1) % ROWS, !.col = 0, !.filled = @ \/ (in.row + 1) % ROWS = 0]

shellwin_record_char(in, c) ==
    CASE c = "nl" -> inst_newline(in)
      [] c = "bs" -> [in EXCEPT !.col = Max2(0, @ - 1)]
      [] OTHER -> LET at == IF in.col >= COLS THEN inst_newline(in) ELSE in
                  IN  [at EXCEPT !.col = @ + 1]
uart_puts(in, s) == FoldLeft(shellwin_record_char, in, s)
Prompt == <<"p">>

\* Return runs the line (its output is the program's, one line here) and prompts again.
shellwin_handle_key(e, c) ==
    LET in == e.insts[e.active]
        ran == uart_puts(in, IF in.inlen > 0 THEN <<"nl", "o", "nl">> \o Prompt
                             ELSE <<"nl">> \o Prompt)
    IN  [e EXCEPT !.insts[e.active] =
            CASE c = "ret" -> [ran EXCEPT !.inlen = 0]
              [] c = "bs" /\ in.inlen > 0 ->
                     [uart_puts(in, <<"bs", " ", "bs">>) EXCEPT !.inlen = @ - 1]
              [] c = "a" /\ in.inlen < INBUF - 1 -> [uart_puts(in, <<"a">>) EXCEPT !.inlen = @ + 1]
              [] OTHER -> in]

shellwin_set_active(e, w) == IF w \in 0..(e.n_inst - 1) THEN [e EXCEPT !.active = w] ELSE e

\* Right-click menu "Shell": the next of SHELLWIN_MAX windows, cascaded into the view.
shellwin_spawn(e, view) ==
    LET idx == e.n_inst
        g == e.geo[idx]
        on == wm_add([e EXCEPT !.n_inst = @ + 1, !.focused = @ \ {idx},
                               !.geo[idx] = <<view[1] + g[1], view[2] + g[2], g[3], g[4]>>], idx)
        up == wm_focus_at(on, <<view[1] + g[1] + g[3] \div 2, view[2] + g[2]>>)
    IN  IF idx >= SHELLWIN_MAX THEN e
        ELSE [up EXCEPT !.active = idx, !.insts[idx] = uart_puts(inst_reset, <<"o", "nl">> \o Prompt)]

\* Keys reach the active shell only while a shell is selected (main.c).
xhci_keyboard_event(e, c) ==
    IF wm_focused(e) \in Shell THEN shellwin_handle_key(e, c) ELSE e

\* The on-screen keys: Shift is dropped by the next character, Caps stays.
kb_key_char(e, k) ==
    CASE k = "Shift" -> [e EXCEPT !.shift = ~@]
      [] k = "Caps" -> [e EXCEPT !.caps = ~@]
      [] k = "Ctrl" -> e
      [] OTHER -> xhci_keyboard_event([e EXCEPT !.shift = FALSE], k)
\* The key under a point: the keys fill the rows below the title bar.
Keys == <<"a", "bs", "ret", "Shift", "Caps", "Ctrl">>
softkbd_hit(e, p) ==
    LET g == e.geo[Kbd]
        i == (p[1] - g[1]) + (p[2] - g[2] - TITLE) * g[3]
    IN  kb_key_char(e, Keys[(i % Len(Keys)) + 1])

-----------------------------------------------------------------------------
(***************************************************************************)
(* A mouse report: xhci_mouse_event.                                       *)
(***************************************************************************)
Items == <<"Shell", "App", "TextSize", "Update">>   \* the menu, one row each

\* A left click while the menu is open picks an item, or dismisses it.
MenuPick(e, c, view) ==
    LET it == c[2] - e.menu[2] + 1
        inside == In(c, <<e.menu[1], e.menu[2], 1, Len(Items)>>)
        done == IF ~inside THEN e
                ELSE CASE Items[it] = "Shell" -> shellwin_spawn(e, view)
                       [] Items[it] = "App" -> wm_show(e, App)
                       [] OTHER -> e     \* font_scale, the update page: no window changes place
    IN  [done EXCEPT !.menu = << >>, !.wipe = TRUE]

\* A left press with no menu: close, the soft keyboard, or focus and then grip or title bar.
AfterClose(e) == shellwin_set_active(e, wm_focused(e))
Press(e, p) ==
    LET top == wm_window_at(e, p)
        foc == wm_focus_at(e, p)
        w == IF top = << >> THEN None ELSE top[1]
        up == shellwin_set_active(foc, w)
        g == e.geo[w]
    IN  CASE top # << >> /\ wm_close_hit(e, w, p) -> AfterClose(wm_remove(e, w))
          [] wm_is_shown(e, Kbd) /\ In(p, e.geo[Kbd]) /\ ~(top # << >> /\ wm_close_hit(e, w, p)) ->
                IF p[2] >= e.geo[Kbd][2] + TITLE THEN softkbd_hit(e, p)
                ELSE [e EXCEPT !.drag = Kbd,
                               !.off = <<p[1] - e.geo[Kbd][1], p[2] - e.geo[Kbd][2]>>]
          [] top = << >> -> e
          [] OTHER -> IF In(p, <<g[1] + g[3] - GRIP, g[2] + g[4] - GRIP, GRIP, GRIP>>)
                      THEN [up EXCEPT !.resize = w]
                      ELSE IF p[2] < g[2] + TITLE
                      THEN [up EXCEPT !.drag = w, !.off = <<p[1] - g[1], p[2] - g[2]>>]
                      ELSE up           \* on_click: the window's own business

\* The corner follows the pointer; the larger of the two footprints is cleared.
ResizeBy(e, p) ==
    LET w == e.resize
        g == e.geo[w]
        nw == Max2(MIN_W, p[1] - g[1])
        nh == Max2(MIN_H, p[2] - g[2])
    IN  IF <<nw, nh>> = <<g[3], g[4]>> THEN e
        ELSE wm_clear_bg_rect([e EXCEPT !.geo[w] = <<g[1], g[2], nw, nh>>],
                              <<g[1], g[2], Max2(nw, g[3]), Max2(nh, g[4])>>)

\* The window follows the pointer; the union of its old and new places is cleared.
DragBy(e, p) ==
    LET w == e.drag
        g == e.geo[w]
        nx == Min2(Max2(p[1] - e.off[1], -(g[3] - KEEP)), DW - KEEP)
        ny == Min2(Max2(p[2] - e.off[2], 0), DH - TITLE)
        ux == Min2(g[1], nx)
        uy == Min2(g[2], ny)
    IN  IF <<nx, ny>> = <<g[1], g[2]>> THEN e
        ELSE [wm_clear_bg_rect(e, <<ux, uy, Max2(g[1], nx) + g[3] - ux, Max2(g[2], ny) + g[4] - uy>>)
                 EXCEPT !.geo[w] = <<nx, ny, g[3], g[4]>>]

\* Edge pan: the camera is moved now and clamped at the next frame.
Pan(c, size) == IF c >= size - 1 - EDGE THEN STEP ELSE IF c <= EDGE THEN -STEP ELSE 0

xhci_mouse_event(btn, mv) ==
    LET c == <<Clamp(0, cursor[1] + mv[1], SW - 1), Clamp(0, cursor[2] + mv[2], SH - 1)>>
        view == <<vp[1] + Pan(c[1], SW), vp[2] + Pan(c[2], SH)>>
        p == <<c[1] + view[1], c[2] + view[2]>>
        left == "l" \in btn /\ "l" \notin prev_btn
        e0 == IF "r" \in btn /\ "r" \notin prev_btn THEN [d EXCEPT !.menu = c] ELSE d
        e1 == IF ~left THEN e0
              ELSE IF e0.menu # << >> THEN MenuPick(e0, c, view) ELSE Press(e0, p)
        e2 == IF "l" \in btn THEN e1 ELSE [e1 EXCEPT !.drag = None, !.resize = None]
    IN  /\ reports < REPORTS /\ reports' = reports + 1
        /\ cursor' = c /\ vp' = view /\ prev_btn' = btn
        /\ d' = CASE e2.resize # None -> ResizeBy(e2, p)
                  [] e2.resize = None /\ e2.drag # None -> DragBy(e2, p)
                  [] OTHER -> e2
        /\ fresh' = FALSE
        /\ UNCHANGED <<last_vp, screen>>

\* A byte or a layout command of the debug UART (serial_io_tick).
serial_io_tick(cmd, id, g) ==
    /\ reports < REPORTS /\ reports' = reports + 1
    /\ d' = CASE cmd = "M" -> wm_move_window(d, id, g)
              [] cmd = "R" -> wm_resize_window(d, id, g)
              [] OTHER -> shellwin_handle_key(d, cmd)
    /\ fresh' = FALSE
    /\ UNCHANGED <<vp, last_vp, cursor, prev_btn, screen>>

-----------------------------------------------------------------------------
(***************************************************************************)
(* One frame of wm_run: wipe or clear, paint the windows in order, then    *)
(* the menu on top of them.                                                *)
(***************************************************************************)
clamp_viewport(v) == <<Clamp(0, v[1], Max2(0, DW - SW)), Clamp(0, v[2], Max2(0, DH - SH))>>

Composed(v, wiped) ==
    LET At(c) == <<c[1] + v[1], c[2] + v[2]>>
        Ground(c) == IF wiped \/ (d.clr # << >> /\ In(At(c), d.clr)) THEN Bg ELSE screen[c]
        Pixel(c) == LET top == wm_window_at(d, At(c)) IN IF top = << >> THEN Ground(c) ELSE top[1]
    IN  [c \in Cell |-> IF d.menu # << >> /\ In(c, <<d.menu[1], d.menu[2], 1, Len(Items)>>)
                       THEN Menu ELSE Pixel(c)]

wm_run ==
    LET v == clamp_viewport(vp)
        wiped == v # last_vp \/ d.wipe
    IN  /\ ~fresh /\ fresh' = TRUE
        /\ screen' = Composed(v, wiped)
        /\ vp' = v /\ last_vp' = v
        /\ d' = [d EXCEPT !.wipe = FALSE, !.clr = << >>]
        /\ UNCHANGED <<cursor, prev_btn, reports>>

WNext ==
    \/ \E btn \in {{}, {"l"}, {"r"}}, mv \in Moves : xhci_mouse_event(btn, mv)
    \/ \E cmd \in {"a", "ret", "bs"} : serial_io_tick(cmd, 0, << >>)
    \/ \E cmd \in {"M", "R"}, id \in 1..3, g \in Layout : serial_io_tick(cmd, id, g)
    \/ wm_run

WSpec == WInit /\ [][WNext]_winvars

-----------------------------------------------------------------------------
\* After a frame no cell still shows a window that is not the topmost one there: nothing
\* of a window that was dragged, resized, raised over or closed is left behind, whatever
\* reports came since the frame before (wm_clear_bg_rect and s_force_wipe are all that erases).
ScreenRight ==
    fresh => \A c \in Cell :
        LET top == wm_window_at(d, <<c[1] + vp[1], c[2] + vp[2]>>)
        IN  screen[c] \in {Menu, IF top = << >> THEN Bg ELSE top[1]}

\* Exactly one window of a desktop that has any is selected, and when it is a shell the
\* keys and the captured output go to it (shellwin_set_active at every change of focus).
FocusRouted ==
    /\ d.list # << >> => \E w \in Range(d.list) : d.focused \cap Range(d.list) = {w}
    /\ wm_focused(d) \in Shell => d.active = wm_focused(d)
=============================================================================
