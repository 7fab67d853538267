------------------------------ MODULE Console -------------------------------
(***************************************************************************)
(* The text console of kernel/drivers/gpu/drm.c: the cells, the pixels they *)
(* are rendered to, the cursor, and the escape sequences that steer it.     *)
(* print and sys_write hand it one character at a time.                     *)
(*                                                                          *)
(* A glyph on the screen is its character with the two colours it is drawn  *)
(* in, so a drawn cell and the cell itself compare directly. The screens of *)
(* the code (1024x768, 1920x1080, 640x480) are within MAX_CONS_COLS and     *)
(* MAX_CONS_ROWS: text_cols = cons_cols and text_rows = cons_rows.          *)
(***************************************************************************)
EXTENDS Integers, Sequences, FiniteSets

CONSTANTS Screens,     \* <<columns, rows>> of the screens drm_switch_fb is given
          BootScreen,  \* the one of drm_use_scratch
          Glyphs,      \* printable characters a program writes outside sequences
          Digits,      \* digits it writes in them
          Finals,      \* the letters that end them
          MaxParams,   \* 16, the length of cons_params
          MaxDigits    \* bound: digits of one parameter

\* Every screen the drivers set up has cells: at least 640x480, in 8x16 pixels each.
ASSUME ConsoleAssumption ==
    /\ BootScreen \in (Nat \ {0}) \X (Nat \ {0})
    /\ Screens \subseteq (Nat \ {0}) \X (Nat \ {0})
    /\ Digits \subseteq 0 .. 9

VARIABLES con,   \* drm_dev's cursor and colours, cons_screen and the pixels
          esc    \* cons_state and the parameters read so far

convars == <<con, esc>>

White == 15
Black == 0
Pen0 == [fg |-> White, bg |-> Black]

Cell(ch, pen) == [ch |-> ch, fg |-> pen.fg, bg |-> pen.bg]

Blank == Cell(" ", Pen0)

CellAt(c) == (0 .. c.cols - 1) \X (0 .. c.rows - 1)

Least(a, b) == IF a < b THEN a ELSE b

Inverted(cell) == [cell EXCEPT !.fg = cell.bg, !.bg = cell.fg]

-----------------------------------------------------------------------------
(* Rendering.                                                              *)

\* cons_render_cell on every cell of a set, without the cursor.
Render(c, places) ==
    [c EXCEPT !.shown = [p \in DOMAIN @ |-> IF p \in places THEN c.cells[p] ELSE @[p]]]

RefreshLeavesTrail(c) ==
    LET now == <<Least(c.x, c.cols - 1), Least(c.y, c.rows - 1)>>
    IN  [c EXCEPT !.shown[now] = Inverted(c.cells[now]), !.drawn = {now}]

\* cons_cursor_refresh: the old place is drawn again, the new one inverted. A
\* cursor past the last column is drawn on it.
Refresh(c) ==
    LET now == <<Least(c.x, c.cols - 1), Least(c.y, c.rows - 1)>>
        old == Render(c, c.drawn \ {now})
    IN  [old EXCEPT !.shown[now] = Inverted(c.cells[now]), !.drawn = {now}]

\* cons_clear_cell on a set of cells, in the current colours.
Clear(c, places) ==
    Render([c EXCEPT !.cells = [p \in DOMAIN @ |->
                IF p \in places THEN Cell(" ", c.pen) ELSE @[p]]], places)

\* scroll_one: the new line is blank in the default colours.
Scroll(c) ==
    Render([c EXCEPT !.cells = [p \in DOMAIN @ |->
                IF p[2] = c.rows - 1 THEN Blank ELSE @[<<p[1], p[2] + 1>>]]],
           CellAt(c))

NewLine(c) ==
    IF c.y + 1 >= c.rows
    THEN [Scroll(c) EXCEPT !.x = 0, !.y = c.rows - 1]
    ELSE [c EXCEPT !.x = 0, !.y = @ + 1]

\* console_emit. The line is wrapped by the character after the last column.
ConsoleEmit(c, ch) ==
    IF ch = "nl" THEN NewLine(c)
    ELSE IF ch = "cr" THEN [c EXCEPT !.x = 0]
    ELSE IF ch = "bs" THEN [c EXCEPT !.x = IF @ > 0 THEN @ - 1 ELSE 0]
    ELSE LET w == IF c.x >= c.cols THEN NewLine(c) ELSE c
             p == <<w.x, w.y>>
         IN  IF w.y < w.rows
             THEN [Render([w EXCEPT !.cells[p] = Cell(ch, w.pen)], {p})
                      EXCEPT !.x = @ + 1]
             ELSE [w EXCEPT !.x = @ + 1]

-----------------------------------------------------------------------------
(* Escape sequences.                                                       *)

\* cons_param: -1 stands for a parameter left out.
Param(ps, i, default) ==
    IF i <= Len(ps) /\ ps[i] >= 0 THEN ps[i] ELSE default

\* The cells of line row from column a up to, and without, column b.
Line(c, row, a, b) == {p \in CellAt(c) : p[2] = row /\ p[1] >= a /\ p[1] < b}

Before(c) == Line(c, c.y, 0, c.x + 1)

After(c) == Line(c, c.y, c.x, c.cols)

\* What J erases in the screen and K in the line.
Erased(c, final, mode) ==
    IF final = "K"
    THEN IF mode = 1 THEN Before(c)
         ELSE IF mode = 2 THEN Line(c, c.y, 0, c.cols) ELSE After(c)
    ELSE IF mode \in {2, 3} THEN CellAt(c)
         ELSE IF mode = 1 THEN Before(c) \union {p \in CellAt(c) : p[2] < c.y}
         ELSE After(c) \union {p \in CellAt(c) : p[2] > c.y}

\* Select graphic rendition, one parameter.
Sgr(pen, v) ==
    IF v <= 0 THEN Pen0
    ELSE IF v = 7 THEN [fg |-> pen.bg, bg |-> pen.fg]
    ELSE IF v \in 30 .. 37 THEN [pen EXCEPT !.fg = v - 30]
    ELSE IF v \in 40 .. 47 THEN [pen EXCEPT !.bg = v - 40]
    ELSE IF v \in 90 .. 97 THEN [pen EXCEPT !.fg = v - 82]
    ELSE IF v \in 100 .. 107 THEN [pen EXCEPT !.bg = v - 92]
    ELSE pen

\* All parameters of the sequence, in order.
Rendition(pen, ps) ==
    LET sgr[i \in 0 .. Len(ps)] == IF i = 0 THEN pen ELSE Sgr(sgr[i - 1], ps[i])
    IN  sgr[Len(ps)]

\* cons_csi_dispatch.
Dispatch(c, ps, final) ==
    LET n == Param(ps, 1, 1)
        mode == Param(ps, 1, 0)
        atLeast1(v) == IF v < 1 THEN 1 ELSE v
    IN CASE final = "H" ->
              [c EXCEPT !.y = Least(atLeast1(n) - 1, c.rows - 1),
                        !.x = Least(atLeast1(Param(ps, 2, 1)) - 1, c.cols - 1)]
         [] final \in {"J", "K"} ->
              LET d == Clear(c, Erased(c, final, mode))
              IN  IF final = "J" /\ mode \in {2, 3} THEN [d EXCEPT !.x = 0, !.y = 0] ELSE d
         [] final = "A" -> [c EXCEPT !.y = IF @ >= n THEN @ - n ELSE 0]
         [] final = "B" -> [c EXCEPT !.y = Least(@ + n, c.rows - 1)]
         [] final = "C" -> [c EXCEPT !.x = Least(@ + n, c.cols - 1)]
         [] final = "D" -> [c EXCEPT !.x = IF @ >= n THEN @ - n ELSE 0]
         [] final = "s" -> [c EXCEPT !.saved = <<c.x, c.y>>]
         [] final = "u" -> [c EXCEPT !.x = c.saved[1], !.y = c.saved[2]]
         [] final = "m" -> [c EXCEPT !.pen = Rendition(@, ps)]
         [] OTHER -> c

Normal == [st |-> "normal", ps |-> <<>>, cur |-> 0, n |-> 0]

\* The parameters with the one being read; the seventeenth is dropped.
Params == IF Len(esc.ps) < MaxParams
          THEN Append(esc.ps, IF esc.n > 0 THEN esc.cur ELSE -1)
          ELSE esc.ps

-----------------------------------------------------------------------------
Screen(size) ==
    [cols |-> size[1], rows |-> size[2], x |-> 0, y |-> 0, saved |-> <<0, 0>>,
     pen |-> Pen0, drawn |-> {},
     cells |-> [p \in (0 .. size[1] - 1) \X (0 .. size[2] - 1) |-> Blank],
     shown |-> [p \in (0 .. size[1] - 1) \X (0 .. size[2] - 1) |-> Blank]]

\* kernel_main: drm_parse_multiboot, drm_init and print_clear.
ConInit == con = Refresh(Screen(BootScreen)) /\ esc = Normal

\* console_putchar, by the state of the sequence.
PutNormal(ch) ==
    /\ esc.st = "normal"
    /\ IF ch = "esc"
       THEN esc' = [Normal EXCEPT !.st = "esc"] /\ UNCHANGED con
       ELSE con' = Refresh(ConsoleEmit(con, ch)) /\ UNCHANGED esc

PutEsc(ch) ==
    /\ esc.st = "esc"
    /\ esc' = IF ch = "[" THEN [Normal EXCEPT !.st = "csi"] ELSE Normal
    /\ UNCHANGED con

PutDigit(d) ==
    /\ esc.st = "csi" /\ esc.n < MaxDigits
    /\ esc' = [esc EXCEPT !.cur = @ * 10 + d, !.n = @ + 1]
    /\ UNCHANGED con

PutSemicolon ==
    /\ esc.st = "csi"
    /\ esc' = [esc EXCEPT !.ps = Params, !.cur = 0, !.n = 0]
    /\ UNCHANGED con

PutFinal(ch) ==
    /\ esc.st = "csi"
    /\ con' = Refresh(Dispatch(con, Params, ch))
    /\ esc' = Normal

\* print_clear, by sys_clear: the colours stay, and so does a sequence begun.
PrintClear ==
    /\ con' = Refresh([Screen(<<con.cols, con.rows>>) EXCEPT
                  !.saved = con.saved, !.pen = con.pen])
    /\ UNCHANGED esc

\* drm_switch_fb, by the virtio driver's probe. The saved cursor is kept.
SwitchFb(size) ==
    /\ con' = Refresh([Screen(size) EXCEPT !.saved = con.saved, !.pen = con.pen])
    /\ UNCHANGED esc

\* print_setcolor, by sys_setcolor.
SetColor(fg, bg) ==
    con' = [con EXCEPT !.pen = [fg |-> fg, bg |-> bg]] /\ UNCHANGED esc

ConNext ==
    \/ \E ch \in Glyphs \union {"nl", "cr", "bs", "esc"} : PutNormal(ch)
    \/ \E ch \in Finals \union {"["} : PutEsc(ch)
    \/ \E d \in Digits : PutDigit(d)
    \/ PutSemicolon
    \/ \E ch \in Finals : PutFinal(ch)
    \/ PrintClear
    \/ \E size \in Screens : SwitchFb(size)
    \/ SetColor(Black, White)

ConSpec == ConInit /\ [][ConNext]_convars

-----------------------------------------------------------------------------
(* Properties.                                                             *)

\* After every character the pixels show exactly the cells, each in its own
\* colours, with one inverted cell: the cursor, which a sequence of moves,
\* wraps, scrolls, erasures, restored positions and screen changes never
\* leaves behind (cons_cursor_refresh redraws only the place it remembers).
ShownIsScreen ==
    LET cursor == <<Least(con.x, con.cols - 1), Least(con.y, con.rows - 1)>>
    IN  con.shown = [con.cells EXCEPT ![cursor] = Inverted(@)]
=============================================================================
