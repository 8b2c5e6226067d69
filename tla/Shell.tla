------------------------------- MODULE Shell -------------------------------
(***************************************************************************)
(* The shell commands of shell/shell.c that keep state of their own: the   *)
(* full-screen editor, make and run over the file tree, the ping-pong      *)
(* demonstration and the remembered WiFi credentials.  A file is a         *)
(* sequence of tokens; the editor's text is the flat array the code        *)
(* declares, so that a line longer than its row runs into the next row.    *)
(***************************************************************************)
EXTENDS Integers, Sequences, SequencesExt

CONSTANTS
    ED_ROWS, ED_COLS, ED_VIEW,   \* the editor's array and its window
    Files,          \* the files at boot: name -> contents
    Target,         \* make_target_name: source name -> name without its extension
    EditKeys,       \* keys a user types in the editor
    Args,           \* file names a user gives to make, run and edit
    KEYS, COMMANDS, \* bounds on keys and on commands
    ROUNDS          \* rounds asked of pingpong

VARIABLES
    file,           \* name -> contents, "none" when there is no such file
    ed,             \* the editor: [open, mem, llen, n, cy, cx, top, dirty, prefix]
    built,          \* what the last make compiled and where it wrote it
    ran,            \* the executable last run
    pp,             \* the two demonstration actors and the rounds
    creds,          \* g_wifi_ssid and the credentials the last join used
    keys, commands

shvars == <<file, ed, built, ran, pp, creds, keys, commands>>

Name == DOMAIN Files
Missing == <<"none">>
Cells == 0..(ED_ROWS * ED_COLS - 1)
Rows == 0..(ED_ROWS - 1)
Closed == [open |-> "", mem |-> [c \in Cells |-> ""], llen |-> [r \in Rows |-> 0],
           n |-> 0, cy |-> 0, cx |-> 0, top |-> 0, dirty |-> FALSE, prefix |-> FALSE]

SInit ==
    /\ file = Files /\ ed = Closed /\ built = << >> /\ ran = Missing
    /\ pp = [on |-> FALSE, box |-> {}, sent |-> <<0, 0>>, recv |-> <<0, 0>>, rounds |-> 0]
    /\ creds = [known |-> "none", used |-> "none"]
    /\ keys = 0 /\ commands = 0

-----------------------------------------------------------------------------
(***************************************************************************)
(* The editor.                                                             *)
(***************************************************************************)
Ats(n) == [i \in 1..n |-> i - 1]
Upto(a, b) == [i \in 1..(IF b < a THEN 0 ELSE b - a + 1) |-> a + i - 1]
\* A copy of n characters forward from address src to dst; past the array is not ours.
Copy(mem, dst, src, n) ==
    FoldLeft(LAMBDA m, i : IF dst + i \in Cells /\ src + i \in Cells
                           THEN [m EXCEPT ![dst + i] = m[src + i]] ELSE m, mem, Ats(n))
Row(y) == y * ED_COLS
Line(e, y) == [i \in 1..e.llen[y] |-> IF Row(y) + i - 1 \in Cells THEN e.mem[Row(y) + i - 1] ELSE ""]
Lines(e) == [y \in 1..e.n |-> Line(e, y - 1)]
Joined(ls) == FoldLeft(LAMBDA s, i : s \o (IF i = 1 THEN ls[i] ELSE <<"nl">> \o ls[i]),
                       << >>, [i \in 1..Len(ls) |-> i])
Serialized(e) == Joined(Lines(e))

\* cmd_edit reads the file in: rows past ED_ROWS and characters past the row are dropped.
Load(text) ==
    LET One(s, ch) ==
            IF s.row >= ED_ROWS THEN s
            ELSE IF ch = "nl" THEN [s EXCEPT !.llen[s.row] = s.col, !.row = @ + 1, !.col = 0]
            ELSE IF s.col < ED_COLS - 1
            THEN [s EXCEPT !.mem[Row(s.row) + s.col] = ch, !.col = @ + 1] ELSE s
        all == FoldLeft(One, [mem |-> ed.mem, llen |-> ed.llen, row |-> 0, col |-> 0], text)
    IN  IF all.row < ED_ROWS
        THEN [mem |-> all.mem, llen |-> [all.llen EXCEPT ![all.row] = all.col], n |-> all.row + 1]
        ELSE [mem |-> all.mem, llen |-> all.llen, n |-> all.row]

ed_scroll(e) ==
    LET up == IF e.cy < e.top THEN e.cy ELSE e.top
    IN  [e EXCEPT !.top = IF e.cy >= up + ED_VIEW THEN e.cy - ED_VIEW + 1 ELSE up]

\* Rows from+1..n-1 move one up.
CloseUp(e, from) ==
    [FoldLeft(LAMBDA s, y : [s EXCEPT !.mem = Copy(s.mem, Row(y), Row(y + 1), s.llen[y + 1]),
                                      !.llen[y] = s.llen[y + 1]], e, Upto(from, e.n - 2))
        EXCEPT !.n = @ - 1]

\* Row y + 1 is appended to row y: the copy stops at the end of the row, the length does not.
JoinNext(e, y) ==
    LET l == e.llen[y]
        room == ED_COLS - 1 - l
        k == IF e.llen[y + 1] < room THEN e.llen[y + 1] ELSE IF room < 0 THEN 0 ELSE room
    IN  CloseUp([e EXCEPT !.mem = Copy(@, Row(y) + l, Row(y + 1), k),
                          !.llen[y] = l + e.llen[y + 1], !.dirty = TRUE], y + 1)

DeleteAt(e, at) ==
    [e EXCEPT !.mem = Copy(@, Row(e.cy) + at, Row(e.cy) + at + 1, e.llen[e.cy] - 1 - at),
              !.llen[e.cy] = @ - 1, !.cx = at, !.dirty = TRUE]

Split(e) ==
    LET down == FoldLeft(LAMBDA s, y : [s EXCEPT !.mem = Copy(s.mem, Row(y), Row(y - 1), s.llen[y - 1]),
                                                 !.llen[y] = s.llen[y - 1]],
                         e, Reverse(Upto(e.cy + 2, e.n)))
        tail == e.llen[e.cy] - e.cx
    IN  [down EXCEPT !.mem = Copy(@, Row(e.cy + 1), Row(e.cy) + e.cx, tail),
                     !.llen[e.cy + 1] = tail, !.llen[e.cy] = e.cx,
                     !.n = @ + 1, !.cy = @ + 1, !.cx = 0, !.dirty = TRUE]

Insert(e, c) ==
    LET shifted == FoldLeft(LAMBDA m, i : [m EXCEPT ![Row(e.cy) + i] = m[Row(e.cy) + i - 1]],
                            e.mem, Reverse(Upto(e.cx + 1, e.llen[e.cy])))
    IN  [e EXCEPT !.mem = [shifted EXCEPT ![Row(e.cy) + e.cx] = c],
                  !.llen[e.cy] = @ + 1, !.cx = @ + 1, !.dirty = TRUE]

Kill(e) == [e EXCEPT !.llen[e.cy] = e.cx, !.dirty = TRUE]

\* One key of the editing loop; ed_cx is first brought back into its line.
EdKey(e0, k) ==
    LET e == [e0 EXCEPT !.cx = IF @ > e0.llen[e0.cy] THEN e0.llen[e0.cy] ELSE @]
        l == e.llen[e.cy]
        To(y) == [e EXCEPT !.cy = y, !.cx = IF @ > e.llen[y] THEN e.llen[y] ELSE @]
    IN  CASE k = "C-f" -> IF e.cx < l THEN [e EXCEPT !.cx = @ + 1]
                          ELSE IF e.cy < e.n - 1 THEN [e EXCEPT !.cy = @ + 1, !.cx = 0] ELSE e
          [] k = "C-b" -> IF e.cx > 0 THEN [e EXCEPT !.cx = @ - 1]
                          ELSE IF e.cy > 0 THEN [e EXCEPT !.cy = @ - 1, !.cx = e.llen[e.cy - 1]] ELSE e
          [] k = "C-n" -> IF e.cy < e.n - 1 THEN To(e.cy + 1) ELSE e
          [] k = "C-p" -> IF e.cy > 0 THEN To(e.cy - 1) ELSE e
          [] k = "C-a" -> [e EXCEPT !.cx = 0]
          [] k = "C-e" -> [e EXCEPT !.cx = l]
          [] k = "C-k" -> Kill(e)
          [] k = "BS" -> IF e.cx > 0 THEN DeleteAt(e, e.cx - 1)
                         ELSE IF e.cy > 0
                         THEN [JoinNext(e, e.cy - 1) EXCEPT !.cy = @ - 1, !.cx = e.llen[e.cy - 1]] ELSE e
          [] k = "C-d" -> IF e.cx < l THEN DeleteAt(e, e.cx)
                          ELSE IF e.cy < e.n - 1 THEN JoinNext(e, e.cy) ELSE e
          [] k = "Ret" -> IF e.n < ED_ROWS THEN Split(e) ELSE e
          [] OTHER -> IF l < ED_COLS - 1 THEN Insert(e, k) ELSE e

\* The output buffer ob holds ED_ROWS * ED_COLS bytes; two are kept back.
OB == ED_ROWS * ED_COLS - 2
fs_open_or_create(n) == n \in Name
ed_save(e) ==
    LET text == Serialized(e)
    IN  /\ fs_open_or_create(e.open)
        /\ file' = [file EXCEPT ![e.open] = SubSeq(text, 1, IF Len(text) < OB THEN Len(text) ELSE OB)]
        /\ ed' = [e EXCEPT !.dirty = FALSE]

Idle == ed.open = "" /\ ~pp.on
Command == Idle /\ commands < COMMANDS /\ commands' = commands + 1

cmd_edit(a) ==
    /\ Command
    /\ ed' = LET text == IF file[a] = Missing THEN << >> ELSE file[a]
                 at == Load(text)
             IN  [Closed EXCEPT !.open = a, !.mem = at.mem, !.llen = at.llen, !.n = at.n]
    /\ UNCHANGED <<file, built, ran, pp, creds, keys>>

\* C-x is a prefix; C-x C-s saves and C-x C-c quits, with unsaved changes discarded.
EditKey(k) ==
    /\ ed.open # "" /\ keys < KEYS /\ keys' = keys + 1
    /\ IF ed.prefix
       THEN CASE k = "C-s" -> ed_save([ed EXCEPT !.prefix = FALSE])
              [] k = "C-c" -> ed' = [ed EXCEPT !.open = "", !.prefix = FALSE] /\ UNCHANGED file
              [] OTHER -> ed' = [ed EXCEPT !.prefix = FALSE] /\ UNCHANGED file
       ELSE /\ UNCHANGED file
            /\ ed' = CASE k = "C-x" -> [ed EXCEPT !.prefix = TRUE]
                      [] k \in {"C-s", "C-c"} -> ed_scroll(ed)
                      [] OTHER -> ed_scroll(EdKey(ed, k))
    /\ UNCHANGED <<built, ran, pp, creds, commands>>

-----------------------------------------------------------------------------
(***************************************************************************)
(* make and run: an executable is the token "exe" before its source.       *)
(***************************************************************************)
mk_get(i, default) ==
    LET mk == file["Makefile"] IN IF Len(mk) = 3 /\ mk[1] = "mk" THEN mk[i] ELSE default
Compiles(text) == text # << >> /\ Head(text) \notin {"exe", "none", "mk"}

\* An argument names the source and derives the target; else the Makefile, else hello.c.
cmd_make(arg) ==
    LET have == file["Makefile"] # Missing
        src == IF arg # "" THEN arg ELSE mk_get(2, "hello.c")
        target == IF arg # "" \/ ~have THEN Target[src] ELSE mk_get(3, "hello")
        with == IF have THEN file ELSE [file EXCEPT !["Makefile"] = <<"mk", src, target>>]
        exe == <<"exe">> \o with[src]
    IN  /\ Command
        /\ IF Compiles(with[src])
           THEN /\ file' = [with EXCEPT ![target] = exe]
                /\ built' = <<src, target, with[src]>> /\ ran' = exe
           ELSE file' = with /\ UNCHANGED <<built, ran>>
        /\ UNCHANGED <<ed, pp, creds, keys>>

cmd_run(a) ==
    /\ Command /\ file[a] # Missing
    /\ ran' = IF file[a] # << >> /\ Head(file[a]) = "exe" THEN file[a] ELSE ran
    /\ UNCHANGED <<file, ed, built, pp, creds, keys>>

-----------------------------------------------------------------------------
\* pingpong: actor 1 posts to actor 2; then whichever inbox is full is served, 2 first.
cmd_pingpong(r) ==
    /\ Command
    /\ pp' = [on |-> TRUE, box |-> {2}, sent |-> <<1, 0>>, recv |-> <<0, 0>>, rounds |-> r]
    /\ UNCHANGED <<file, ed, built, ran, creds, keys>>

Spent(self) == pp.sent[self] >= pp.rounds
pp_step ==
    LET self == IF 2 \in pp.box THEN 2 ELSE 1
        got == [pp EXCEPT !.box = @ \ {self}, !.recv[self] = @ + 1]
    IN  /\ pp.on
        /\ pp' = CASE pp.box = {} -> [pp EXCEPT !.on = FALSE]
                   [] pp.box # {} /\ Spent(self) -> got
                   [] OTHER -> [got EXCEPT !.box = @ \cup {3 - self}, !.sent[self] = @ + 1]
        /\ UNCHANGED <<file, ed, built, ran, creds, keys, commands>>

\* wifi on [ssid pass]: given credentials are remembered, else the remembered ones, else
\* the ones of wifi.conf; they are remembered before the join is tried.
cmd_wifi(given, conf) ==
    LET ssid == IF given # "" THEN given ELSE IF creds.known # "none" THEN creds.known ELSE conf
    IN  /\ Command
        /\ \E ok \in BOOLEAN :    \* wifi_probe, wifi_join_run, wifi_dhcp
               creds' = [known |-> ssid, used |-> IF ok THEN ssid ELSE creds.used]
        /\ UNCHANGED <<file, ed, built, ran, pp, keys>>

\* tokenise and the command table.
shell_dispatch_line ==
    \/ \E a \in Args : cmd_edit(a) \/ cmd_run(a)
    \/ \E a \in Args \cup {""} : cmd_make(a)
    \/ cmd_pingpong(ROUNDS)
    \/ \E g \in {"", "lab"} : cmd_wifi(g, "home")

ShNext == shell_dispatch_line \/ (\E k \in EditKeys : EditKey(k)) \/ pp_step
ShSpec == SInit /\ [][ShNext]_shvars

-----------------------------------------------------------------------------
\* The status line's [saved] is true: an unmodified buffer is the text of its file, unless
\* the file or the text is too large for the editor's arrays (cmd_edit drops the rest on
\* loading; the save buffer is one byte short of a full text); and the cursor is in view.
Fits(text) ==
    /\ Len(text) <= OB
    /\ Len(SelectSeq(text, LAMBDA c : c = "nl")) < ED_ROWS
    /\ \A i \in 0..(Len(text) - ED_COLS) : \E j \in 1..ED_COLS : text[i + j] = "nl"
EditorSaves ==
    ed.open # "" =>
        /\ ~ed.dirty /\ file[ed.open] # Missing /\ Fits(file[ed.open])
                 /\ Len(Serialized(ed)) <= OB => Serialized(ed) = file[ed.open]
        /\ ed.top <= ed.cy /\ ed.cy < ed.top + ED_VIEW /\ ed.cy < ed.n

\* The demonstration ends with each actor having sent and received every round (one inbox
\* slot each, so nothing may be posted over a message that was not read).
PingPongCounts == ~pp.on => pp.sent = pp.recv /\ pp.sent = <<pp.rounds, pp.rounds>>
=============================================================================
