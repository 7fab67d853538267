--------------------------- MODULE DisplayProofs ----------------------------
(***************************************************************************)
(* What the display drivers promise, for every size of screen, queue and   *)
(* memory: the text console shows its cells (Console), the virtio adapter  *)
(* shows what was drawn before a flush (VirtioGpu), and the buffers of     *)
(* mode setting do not share memory (Drm).                                 *)
(***************************************************************************)
EXTENDS Console, VirtioGpu, Drm, TLAPS, WellFoundedInduction

USE ZenonT(30), SMTT(30)

-----------------------------------------------------------------------------
(* Console.                                                                *)

Cursor(c) == <<Least(c.x, c.cols - 1), Least(c.y, c.rows - 1)>>

ConFields == {"cols", "rows", "x", "y", "saved", "pen", "drawn", "cells", "shown"}

\* A console between two steps of its code: cells and pixels of one size, and
\* only the place where the cursor was drawn shows something else than its cell.
Drawing(c) ==
    /\ c = [f \in ConFields |-> c[f]]
    /\ c.cols \in Nat \ {0} /\ c.rows \in Nat \ {0}
    /\ c.x \in Nat /\ c.y \in Nat /\ c.saved \in Nat \X Nat
    /\ c.cells = [p \in CellAt(c) |-> c.cells[p]]
    /\ c.shown = [p \in CellAt(c) |-> c.shown[p]]
    /\ \A p \in CellAt(c) \ c.drawn : c.shown[p] = c.cells[p]

\* A console between two characters: the cursor is drawn where it is.
Showing(c) ==
    /\ Drawing(c)
    /\ c.drawn = {Cursor(c)}
    /\ c.shown[Cursor(c)] = Inverted(c.cells[Cursor(c)])

EscType(e) == e \in [st : {"normal", "esc", "csi"}, ps : Seq(Int), cur : Nat, n : Nat]

ConInv == Showing(con) /\ EscType(esc)

LEMMA CursorInside ==
  ASSUME NEW c, Drawing(c) PROVE Cursor(c) \in CellAt(c)
  BY SMTT(30) DEF Drawing, ConFields, Cursor, CellAt, Least

\* The invariant says what ShownIsScreen does.
LEMMA ConInvShown == ConInv => ShownIsScreen
<1> SUFFICES ASSUME ConInv PROVE ShownIsScreen
  OBVIOUS
<1>1. Cursor(con) \in CellAt(con)
  BY CursorInside DEF ConInv, Showing
<1>2. con.shown = [con.cells EXCEPT ![Cursor(con)] = Inverted(@)]
  BY <1>1 DEF ConInv, Showing, Drawing
<1> QED BY <1>2 DEF ShownIsScreen, Cursor

\* cons_cursor_refresh draws the old place again and inverts the new one.
LEMMA RefreshDraws ==
  ASSUME NEW c, Drawing(c) PROVE Showing(Refresh(c))
<1> DEFINE now == Cursor(c)
           shown == [p \in CellAt(c) |-> IF p = now THEN Inverted(c.cells[now])
                                         ELSE IF p \in c.drawn THEN c.cells[p] ELSE c.shown[p]]
<1>1. now \in CellAt(c)
  BY CursorInside
<1>2. Refresh(c) = [c EXCEPT !.shown = shown, !.drawn = {now}]
  BY ZenonT(60), <1>1 DEF Refresh, Render, Drawing, ConFields, Cursor
<1>3. /\ Refresh(c).cols = c.cols /\ Refresh(c).rows = c.rows
      /\ Refresh(c).x = c.x /\ Refresh(c).y = c.y
      /\ Refresh(c).cells = c.cells /\ Refresh(c).shown = shown
      /\ Refresh(c).drawn = {now} /\ Refresh(c).saved = c.saved
  BY <1>2 DEF Drawing, ConFields
<1>4. Cursor(Refresh(c)) = now
  BY <1>3 DEF Cursor
<1>5. Drawing(Refresh(c))
  <2> DEFINE d == Refresh(c)
  <2>1. d = [f \in ConFields |-> d[f]]
    BY <1>2 DEF Drawing, ConFields
  <2>2. CellAt(d) = CellAt(c)
    BY <1>3 DEF CellAt
  <2>3. \A p \in CellAt(d) \ d.drawn : d.shown[p] = d.cells[p]
    BY SMTT(30), <1>3, <2>2 DEF Drawing, ConFields
  <2> HIDE DEF d, shown, now
  <2> QED BY <1>3, <2>1, <2>2, <2>3 DEF Drawing, ConFields, d, shown
<1> QED BY <1>1, <1>3, <1>4, <1>5 DEF Showing

\* A step that moves the cursor, or paints what it writes, keeps a console drawn.
SameSize(c, d) == d.cols = c.cols /\ d.rows = c.rows

At(c, x, y) == c.x = x /\ c.y = y

Moved(c, x, y) == [c EXCEPT !.x = x, !.y = y]

LEMMA MoveDraws ==
  ASSUME NEW c, Drawing(c), NEW x \in Nat, NEW y \in Nat
  PROVE  LET d == Moved(c, x, y)
         IN  Drawing(d) /\ SameSize(c, d) /\ At(d, x, y)
<1> DEFINE d == Moved(c, x, y)
<1>1. /\ d.cols = c.cols /\ d.rows = c.rows /\ d.x = x /\ d.y = y
      /\ d.saved = c.saved /\ d.drawn = c.drawn /\ d.cells = c.cells /\ d.shown = c.shown
  BY DEF Drawing, ConFields, Moved
<1>2. d = [f \in ConFields |-> d[f]]
  BY DEF Drawing, ConFields, Moved
<1>3. CellAt(d) = CellAt(c)
  BY <1>1 DEF CellAt
<1> HIDE DEF d
<1>4. Drawing(d)
  BY <1>1, <1>2, <1>3 DEF Drawing
<1> QED BY <1>1, <1>4 DEF d, SameSize, At

LEMMA PaintDraws ==
  ASSUME NEW c, Drawing(c), NEW cells, cells = [p \in CellAt(c) |-> cells[p]],
         NEW places, \A p \in CellAt(c) \ places : cells[p] = c.cells[p]
  PROVE  LET d == Render([c EXCEPT !.cells = cells], places)
         IN  Drawing(d) /\ SameSize(c, d) /\ At(d, c.x, c.y)
<1> DEFINE d == Render([c EXCEPT !.cells = cells], places)
           shown == [p \in CellAt(c) |-> IF p \in places THEN cells[p] ELSE c.shown[p]]
<1>1. d = [c EXCEPT !.cells = cells, !.shown = shown]
  BY DEF Render, Drawing, ConFields
<1>2. /\ d.cols = c.cols /\ d.rows = c.rows /\ d.x = c.x /\ d.y = c.y
      /\ d.saved = c.saved /\ d.drawn = c.drawn /\ d.cells = cells /\ d.shown = shown
  BY ZenonT(60), <1>1 DEF Drawing, ConFields
<1>3. d = [f \in ConFields |-> d[f]]
  BY <1>1 DEF Drawing, ConFields
<1>4. CellAt(d) = CellAt(c)
  BY <1>2 DEF CellAt
<1>5. \A p \in CellAt(d) \ d.drawn : d.shown[p] = d.cells[p]
  BY SMTT(30), <1>2, <1>4 DEF Drawing, ConFields
<1>6. d.cells = [p \in CellAt(d) |-> d.cells[p]] /\ d.shown = [p \in CellAt(d) |-> d.shown[p]]
  BY <1>2, <1>4
<1> HIDE DEF d, shown
<1>7. Drawing(d)
  BY <1>2, <1>3, <1>4, <1>5, <1>6 DEF Drawing, ConFields
<1> QED BY <1>2, <1>7 DEF d, SameSize, At

\* A step that saves the cursor or takes another pen changes nothing in sight.
LEMMA KeepDraws ==
  ASSUME NEW c, Drawing(c), NEW v
  PROVE  /\ Drawing([c EXCEPT !.pen = v])
         /\ v \in Nat \X Nat => Drawing([c EXCEPT !.saved = v])
<1>1. Drawing([c EXCEPT !.pen = v])
  <2> DEFINE d == [c EXCEPT !.pen = v]
  <2>1. /\ d.cols = c.cols /\ d.rows = c.rows /\ d.x = c.x /\ d.y = c.y
        /\ d.saved = c.saved /\ d.drawn = c.drawn /\ d.cells = c.cells /\ d.shown = c.shown
    BY DEF Drawing, ConFields
  <2>2. d = [f \in ConFields |-> d[f]]
    BY DEF Drawing, ConFields
  <2>3. CellAt(d) = CellAt(c)
    BY <2>1 DEF CellAt
  <2> HIDE DEF d
  <2>4. Drawing(d)
    BY <2>1, <2>2, <2>3 DEF Drawing
  <2> QED BY <2>4 DEF d
<1>2. ASSUME v \in Nat \X Nat PROVE Drawing([c EXCEPT !.saved = v])
  <2> DEFINE d == [c EXCEPT !.saved = v]
  <2>1. /\ d.cols = c.cols /\ d.rows = c.rows /\ d.x = c.x /\ d.y = c.y
        /\ d.saved = v /\ d.drawn = c.drawn /\ d.cells = c.cells /\ d.shown = c.shown
    BY DEF Drawing, ConFields
  <2>2. d = [f \in ConFields |-> d[f]]
    BY DEF Drawing, ConFields
  <2>3. CellAt(d) = CellAt(c)
    BY <2>1 DEF CellAt
  <2> HIDE DEF d
  <2>4. Drawing(d)
    BY <1>2, <2>1, <2>2, <2>3 DEF Drawing
  <2> QED BY <2>4 DEF d
<1> QED BY <1>1, <1>2

\* cons_clear_cell, on any set of cells.
LEMMA ClearDraws ==
  ASSUME NEW c, Drawing(c), NEW places
  PROVE  LET d == Clear(c, places)
         IN  Drawing(d) /\ SameSize(c, d) /\ At(d, c.x, c.y)
<1> DEFINE cells == [p \in CellAt(c) |-> IF p \in places THEN Cell(" ", c.pen) ELSE c.cells[p]]
<1>1. Clear(c, places) = Render([c EXCEPT !.cells = cells], places)
  BY DEF Clear, Drawing, ConFields
<1>2. /\ cells = [p \in CellAt(c) |-> cells[p]]
      /\ \A p \in CellAt(c) \ places : cells[p] = c.cells[p]
  OBVIOUS
<1> HIDE DEF cells
<1> QED BY SMTT(30), <1>1, <1>2, PaintDraws

\* scroll_one and the new line around it.
LEMMA NewLineDraws ==
  ASSUME NEW c, Drawing(c)
  PROVE  LET d == NewLine(c)
         IN  Drawing(d) /\ SameSize(c, d) /\ d.x = 0
<1>1. CASE c.y + 1 >= c.rows
  <2> DEFINE cells == [p \in CellAt(c) |->
                         IF p[2] = c.rows - 1 THEN Blank ELSE c.cells[<<p[1], p[2] + 1>>]]
             d == Scroll(c)
  <2>1. d = Render([c EXCEPT !.cells = cells], CellAt(c))
    BY DEF Scroll, Drawing, ConFields
  <2>2. cells = [p \in CellAt(c) |-> cells[p]]
    OBVIOUS
  <2> HIDE DEF cells
  <2>3. Drawing(d) /\ SameSize(c, d)
    BY <2>1, <2>2, PaintDraws
  <2> HIDE DEF d
  <2>4. c.rows - 1 \in Nat
    BY SMTT(30) DEF Drawing, ConFields
  <2>5. NewLine(c) = Moved(d, 0, c.rows - 1)
    BY <1>1 DEF NewLine, d, Moved
  <2>6. Drawing(NewLine(c)) /\ SameSize(d, NewLine(c)) /\ At(NewLine(c), 0, c.rows - 1)
    BY <2>3, <2>4, <2>5, MoveDraws
  <2> QED BY <2>3, <2>6 DEF SameSize, At
<1>2. CASE ~(c.y + 1 >= c.rows)
  <2>1. NewLine(c) = Moved(c, 0, c.y + 1)
    BY <1>2 DEF NewLine, Drawing, ConFields, Moved
  <2>2. c.y + 1 \in Nat
    BY SMTT(30) DEF Drawing
  <2>3. Drawing(NewLine(c)) /\ SameSize(c, NewLine(c)) /\ At(NewLine(c), 0, c.y + 1)
    BY <2>1, <2>2, MoveDraws
  <2> QED BY <2>3 DEF At
<1> QED BY <1>1, <1>2

\* console_emit: a character goes to the cursor's cell, after a line break when
\* the line is full.
LEMMA EmitDraws ==
  ASSUME NEW c, Drawing(c), NEW ch PROVE Drawing(ConsoleEmit(c, ch))
<1>1. CASE ch = "nl"
  BY <1>1, NewLineDraws DEF ConsoleEmit
<1>2. CASE ch \in {"cr", "bs"}
  <2> DEFINE x == IF ch = "cr" THEN 0 ELSE IF c.x > 0 THEN c.x - 1 ELSE 0
  <2>1. ConsoleEmit(c, ch) = Moved(c, x, c.y)
    BY <1>2 DEF ConsoleEmit, Moved, Drawing, ConFields
  <2>2. x \in Nat /\ c.y \in Nat
    BY SMTT(30) DEF Drawing
  <2> HIDE DEF x
  <2> QED BY <2>1, <2>2, MoveDraws
<1>3. CASE ch \notin {"nl", "cr", "bs"}
  <2> DEFINE w == IF c.x >= c.cols THEN NewLine(c) ELSE c
             p == <<w.x, w.y>>
             cells == [w.cells EXCEPT ![p] = Cell(ch, w.pen)]
             d == Render([w EXCEPT !.cells = cells], {p})
  <2>1. Drawing(w) /\ w.x < w.cols
    <3>1. CASE c.x >= c.cols
      <4>1. Drawing(w) /\ SameSize(c, w) /\ w.x = 0
        BY <3>1, NewLineDraws
      <4> HIDE DEF w
      <4> QED BY SMTT(30), <4>1 DEF Drawing, SameSize
    <3>2. CASE ~(c.x >= c.cols)
      BY SMTT(30), <3>2 DEF Drawing
    <3> QED BY <3>1, <3>2
  <2>2. ConsoleEmit(c, ch) = IF w.y < w.rows
                             THEN [Render([w EXCEPT !.cells[p] = Cell(ch, w.pen)], {p})
                                      EXCEPT !.x = @ + 1]
                             ELSE [w EXCEPT !.x = @ + 1]
    BY <1>3 DEF ConsoleEmit
  <2> HIDE DEF w
  <2>3. w.x \in Nat /\ w.y \in Nat /\ w.x + 1 \in Nat
    BY SMTT(30), <2>1 DEF Drawing
  <2>4. CASE w.y < w.rows
    <3>1. p \in CellAt(w)
      BY SMTT(30), <2>1, <2>3, <2>4 DEF CellAt, Drawing
    <3>2. [w EXCEPT !.cells[p] = Cell(ch, w.pen)] = [w EXCEPT !.cells = cells]
      BY <2>1 DEF Drawing, ConFields
    <3>3. /\ cells = [q \in CellAt(w) |-> cells[q]]
          /\ \A q \in CellAt(w) \ {p} : cells[q] = w.cells[q]
      BY <2>1, <3>1 DEF Drawing
    <3> HIDE DEF cells
    <3>4. Drawing(d) /\ SameSize(w, d) /\ At(d, w.x, w.y)
      BY <2>1, <3>3, PaintDraws
    <3>5. ConsoleEmit(c, ch) = [d EXCEPT !.x = @ + 1]
      BY <2>2, <2>4, <3>2
    <3> HIDE DEF d
    <3>6. [d EXCEPT !.x = @ + 1] = Moved(d, w.x + 1, w.y)
      BY <3>4, <2>3 DEF At, Moved, Drawing, ConFields
    <3> QED BY SMTT(30), <2>3, <3>4, <3>5, <3>6, MoveDraws
  <2>5. CASE ~(w.y < w.rows)
    <3>1. ConsoleEmit(c, ch) = Moved(w, w.x + 1, w.y)
      BY <2>1, <2>2, <2>5 DEF Moved, Drawing, ConFields
    <3> QED BY <2>1, <2>3, <3>1, MoveDraws
  <2> QED BY <2>4, <2>5
<1> QED BY <1>1, <1>2, <1>3

\* A parameter of a sequence is a number.
LEMMA ParamType ==
  ASSUME NEW ps \in Seq(Int), NEW i \in Nat \ {0}, NEW default \in Nat
  PROVE  Param(ps, i, default) \in Nat
  BY SMTT(30) DEF Param

LEMMA MoveTypes ==
  ASSUME NEW a \in Nat, NEW b \in Nat
  PROVE  /\ Least(a, b) \in Nat /\ a + b \in Nat
         /\ (IF a >= b THEN a - b ELSE 0) \in Nat
         /\ (IF a < 1 THEN 1 ELSE a) - 1 \in Nat
         /\ a # 0 => a - 1 \in Nat
  BY SMTT(30) DEF Least

\* cons_csi_dispatch moves the cursor to a place in sight or where it was saved,
\* clears cells, or changes what neither cells nor pixels depend on.
LEMMA DispatchDraws ==
  ASSUME NEW c, Drawing(c), NEW ps \in Seq(Int), NEW final
  PROVE  Drawing(Dispatch(c, ps, final))
<1> DEFINE n == Param(ps, 1, 1)
           mode == Param(ps, 1, 0)
           atLeast1(v) == IF v < 1 THEN 1 ELSE v
<1>1. n \in Nat /\ mode \in Nat /\ Param(ps, 2, 1) \in Nat
  BY SMTT(30), ParamType
<1>2. c.x \in Nat /\ c.y \in Nat /\ c.cols \in Nat \ {0} /\ c.rows \in Nat \ {0}
  BY DEF Drawing
<1>8. c.saved[1] \in Nat /\ c.saved[2] \in Nat
  BY DEF Drawing
<1>3. CASE final = "H"
  <2> DEFINE x == Least(atLeast1(Param(ps, 2, 1)) - 1, c.cols - 1)
             y == Least(atLeast1(n) - 1, c.rows - 1)
  <2>0. Dispatch(c, ps, final) =
          [c EXCEPT !.y = Least(atLeast1(n) - 1, c.rows - 1),
                    !.x = Least(atLeast1(Param(ps, 2, 1)) - 1, c.cols - 1)]
    BY <1>3 DEF Dispatch
  <2>1. Dispatch(c, ps, final) = Moved(c, x, y)
    BY <2>0 DEF Moved, Drawing, ConFields
  <2>2. x \in Nat /\ y \in Nat
    <3>1. /\ atLeast1(Param(ps, 2, 1)) - 1 \in Nat /\ atLeast1(n) - 1 \in Nat
          /\ c.cols - 1 \in Nat /\ c.rows - 1 \in Nat
      BY <1>1, <1>2, MoveTypes
    <3> QED BY <3>1, MoveTypes
  <2> HIDE DEF x, y
  <2> QED BY <2>1, <2>2, MoveDraws
<1>4. CASE final \in {"A", "B"}
  <2> DEFINE y == IF final = "A" THEN IF c.y >= n THEN c.y - n ELSE 0
                  ELSE Least(c.y + n, c.rows - 1)
  <2>1. Dispatch(c, ps, final) = Moved(c, c.x, y)
    BY <1>4 DEF Dispatch, Moved, Drawing, ConFields
  <2>2. y \in Nat
    <3>1. c.y + n \in Nat /\ c.rows - 1 \in Nat /\ (IF c.y >= n THEN c.y - n ELSE 0) \in Nat
      BY <1>1, <1>2, MoveTypes
    <3> QED BY <3>1, MoveTypes
  <2> HIDE DEF y
  <2> QED BY <1>2, <2>1, <2>2, MoveDraws
<1>5. CASE final \in {"C", "D"}
  <2> DEFINE x == IF final = "D" THEN IF c.x >= n THEN c.x - n ELSE 0
                  ELSE Least(c.x + n, c.cols - 1)
  <2>1. Dispatch(c, ps, final) = Moved(c, x, c.y)
    BY <1>5 DEF Dispatch, Moved, Drawing, ConFields
  <2>2. x \in Nat
    <3>1. c.x + n \in Nat /\ c.cols - 1 \in Nat /\ (IF c.x >= n THEN c.x - n ELSE 0) \in Nat
      BY <1>1, <1>2, MoveTypes
    <3> QED BY <3>1, MoveTypes
  <2> HIDE DEF x
  <2> QED BY <1>2, <2>1, <2>2, MoveDraws
<1>6. CASE final = "u"
  <2>0. Dispatch(c, ps, final) = [c EXCEPT !.x = c.saved[1], !.y = c.saved[2]]
    BY <1>6 DEF Dispatch
  <2>1. Dispatch(c, ps, final) = Moved(c, c.saved[1], c.saved[2])
    BY <2>0 DEF Moved
  <2> QED BY <1>8, <2>1, MoveDraws
<1>7. CASE final \in {"J", "K"}
  <2> DEFINE d == Clear(c, Erased(c, final, mode))
  <2>1. Dispatch(c, ps, final) = IF final = "J" /\ mode \in {2, 3} THEN Moved(d, 0, 0) ELSE d
    BY <1>7 DEF Dispatch, Moved
  <2>2. Drawing(d)
    BY ClearDraws
  <2> HIDE DEF d
  <2> QED BY <2>1, <2>2, MoveDraws
<1>9. CASE final = "s"
  <2>1. PICK v : v = <<c.x, c.y>>
    BY Zenon
  <2>2. Dispatch(c, ps, final) = [c EXCEPT !.saved = v]
    BY <1>9, <2>1 DEF Dispatch
  <2>3. v \in Nat \X Nat
    BY <1>2, <2>1
  <2>4. Drawing([c EXCEPT !.saved = v])
    BY <2>3, KeepDraws
  <2> QED BY <2>2, <2>4
<1>10. CASE final = "m"
  <2>1. \E pen : Dispatch(c, ps, final) = [c EXCEPT !.pen = pen]
    BY <1>10 DEF Dispatch
  <2> QED BY ZenonT(60), <2>1, KeepDraws
<1>11. CASE final \notin {"H", "A", "B", "C", "D", "u", "J", "K", "s", "m"}
  BY <1>11 DEF Dispatch
<1> QED BY <1>3, <1>4, <1>5, <1>6, <1>7, <1>9, <1>10, <1>11

\* A new screen, and one that is cleared, shows blanks.
LEMMA ScreenDraws ==
  ASSUME NEW size \in (Nat \ {0}) \X (Nat \ {0}), NEW saved \in Nat \X Nat, NEW pen
  PROVE  /\ Drawing(Screen(size))
         /\ Drawing([Screen(size) EXCEPT !.saved = saved, !.pen = pen])
<1>1. size[1] \in Nat \ {0} /\ size[2] \in Nat \ {0}
  OBVIOUS
<1>2. CellAt(Screen(size)) = (0 .. size[1] - 1) \X (0 .. size[2] - 1)
  BY DEF CellAt, Screen
<1>3. Drawing(Screen(size))
  BY <1>1, <1>2 DEF Drawing, ConFields, Screen
<1>4. Drawing([Screen(size) EXCEPT !.saved = saved])
  BY <1>3, KeepDraws
<1>5. Drawing([[Screen(size) EXCEPT !.saved = saved] EXCEPT !.pen = pen])
  BY <1>4, KeepDraws
<1> QED BY <1>3, <1>5

LEMMA NormalType ==
  /\ EscType(Normal)
  /\ \A st \in {"esc", "csi"} : EscType([Normal EXCEPT !.st = st])
<1>1. <<>> \in Seq(Int) /\ 0 \in Nat
  BY SMTT(30)
<1>2. \A st \in {"normal", "esc", "csi"} :
        EscType([st |-> st, ps |-> <<>>, cur |-> 0, n |-> 0])
  BY <1>1 DEF EscType
<1>3. \A st : [Normal EXCEPT !.st = st] = [st |-> st, ps |-> <<>>, cur |-> 0, n |-> 0]
  BY SMTT(30) DEF Normal
<1> QED BY <1>2, <1>3 DEF Normal

LEMMA ConInitInv == ConInit => ConInv
<1> SUFFICES ASSUME ConInit PROVE ConInv
  OBVIOUS
<1>1. Drawing(Screen(BootScreen))
  <2>1. <<0, 0>> \in Nat \X Nat
    OBVIOUS
  <2> QED BY <2>1, ConsoleAssumption, ScreenDraws
<1>2. con = Refresh(Screen(BootScreen)) /\ esc = Normal
  BY DEF ConInit
<1>3. Showing(con)
  BY <1>1, <1>2, RefreshDraws
<1> QED BY <1>2, <1>3, NormalType DEF ConInv

\* One lemma per action.
LEMMA PutNormalInv ==
  ASSUME NEW ch, ConInv, PutNormal(ch) PROVE ConInv'
<1>1. CASE ch = "esc"
  <2>1. con' = con /\ esc' = [Normal EXCEPT !.st = "esc"]
    BY <1>1 DEF PutNormal
  <2> QED BY <2>1, NormalType DEF ConInv, EscType
<1>2. CASE ch # "esc"
  <2>1. con' = Refresh(ConsoleEmit(con, ch)) /\ esc' = esc
    BY <1>2 DEF PutNormal
  <2>2. Drawing(ConsoleEmit(con, ch))
    BY EmitDraws DEF ConInv, Showing
  <2> QED BY <2>1, <2>2, RefreshDraws DEF ConInv
<1> QED BY <1>1, <1>2

LEMMA PutEscInv == ASSUME NEW ch, ConInv, PutEsc(ch) PROVE ConInv'
<1>1. con' = con /\ esc' = IF ch = "[" THEN [Normal EXCEPT !.st = "csi"] ELSE Normal
  BY DEF PutEsc
<1> QED BY <1>1, NormalType DEF ConInv, EscType

LEMMA PutDigitInv == ASSUME NEW d \in Digits, ConInv, PutDigit(d) PROVE ConInv'
<1>1. con' = con /\ esc' = [esc EXCEPT !.cur = @ * 10 + d, !.n = @ + 1]
  BY DEF PutDigit
<1>2. d \in Nat
  BY SMTT(30), ConsoleAssumption
<1>3. EscType(esc')
  <2>1. esc.cur * 10 + d \in Nat /\ esc.n + 1 \in Nat
    BY SMTT(30), <1>2 DEF ConInv, EscType
  <2> QED BY <1>1, <2>1 DEF ConInv, EscType
<1> QED BY <1>1, <1>3 DEF ConInv

LEMMA ParamsType == ASSUME ConInv PROVE Params \in Seq(Int)
<1>1. esc.ps \in Seq(Int) /\ (IF esc.n > 0 THEN esc.cur ELSE -1) \in Int
  BY SMTT(30) DEF ConInv, EscType
<1> QED BY SMTT(30), <1>1 DEF Params

LEMMA PutSemicolonInv == ASSUME ConInv, PutSemicolon PROVE ConInv'
<1>1. con' = con /\ esc' = [esc EXCEPT !.ps = Params, !.cur = 0, !.n = 0]
  BY DEF PutSemicolon
<1>2. EscType(esc')
  BY ZenonT(60), <1>1, ParamsType DEF ConInv, EscType
<1> QED BY <1>1, <1>2 DEF ConInv

LEMMA PutFinalInv == ASSUME NEW ch, ConInv, PutFinal(ch) PROVE ConInv'
<1>1. con' = Refresh(Dispatch(con, Params, ch)) /\ esc' = Normal
  BY DEF PutFinal
<1>2. Drawing(Dispatch(con, Params, ch))
  BY ParamsType, DispatchDraws DEF ConInv, Showing
<1> QED BY <1>1, <1>2, RefreshDraws, NormalType DEF ConInv

LEMMA NewScreenInv ==
  ASSUME ConInv, NEW size \in (Nat \ {0}) \X (Nat \ {0}),
         con' = Refresh([Screen(size) EXCEPT !.saved = con.saved, !.pen = con.pen]),
         esc' = esc
  PROVE  ConInv'
<1>1. con.saved \in Nat \X Nat
  BY DEF ConInv, Showing, Drawing
<1>2. Drawing([Screen(size) EXCEPT !.saved = con.saved, !.pen = con.pen])
  BY <1>1, ScreenDraws
<1> QED BY <1>2, RefreshDraws DEF ConInv

LEMMA SetColorInv == ASSUME NEW fg, NEW bg, ConInv, SetColor(fg, bg) PROVE ConInv'
<1> DEFINE pen == [fg |-> fg, bg |-> bg]
<1>1. con' = [con EXCEPT !.pen = pen] /\ esc' = esc
  BY DEF SetColor
<1>2. Drawing(con) /\ con = [f \in ConFields |-> con[f]]
  BY DEF ConInv, Showing, Drawing
<1> HIDE DEF pen
<1>3. Drawing(con')
  BY <1>1, <1>2, KeepDraws
<1>4. /\ con'.x = con.x /\ con'.y = con.y /\ con'.cols = con.cols /\ con'.rows = con.rows
      /\ con'.drawn = con.drawn /\ con'.shown = con.shown /\ con'.cells = con.cells
  BY <1>1, <1>2 DEF ConFields
<1>5. Cursor(con') = Cursor(con)
  BY <1>4 DEF Cursor
<1> QED BY <1>1, <1>3, <1>4, <1>5 DEF ConInv, Showing

\* console_putchar and the calls around it: whatever is written, in whatever
\* sequence of escape codes, erasures and screen changes, on screens of every
\* size, the pixels show the cells and one inverted cell, the cursor's.
THEOREM ConsoleShown == ConSpec => []ShownIsScreen
<1>1. ConInit => ConInv
  BY ConInitInv
<1>2. ConInv /\ [ConNext]_convars => ConInv'
  <2> SUFFICES ASSUME ConInv, [ConNext]_convars PROVE ConInv'
    OBVIOUS
  <2>1. CASE UNCHANGED convars
    BY <2>1 DEF convars, ConInv
  <2>2. ASSUME NEW ch, PutNormal(ch) \/ PutEsc(ch) \/ PutFinal(ch) PROVE ConInv'
    BY <2>2, PutNormalInv, PutEscInv, PutFinalInv
  <2>3. ASSUME NEW d \in Digits, PutDigit(d) PROVE ConInv'
    BY <2>3, PutDigitInv
  <2>4. CASE PutSemicolon
    BY <2>4, PutSemicolonInv
  <2>5. CASE PrintClear
    <3>1. <<con.cols, con.rows>> \in (Nat \ {0}) \X (Nat \ {0})
      BY DEF ConInv, Showing, Drawing
    <3> QED BY <2>5, <3>1, NewScreenInv DEF PrintClear
  <2>6. ASSUME NEW size \in Screens, SwitchFb(size) PROVE ConInv'
    BY <2>6, ConsoleAssumption, NewScreenInv DEF SwitchFb
  <2>7. CASE SetColor(Black, White)
    BY <2>7, SetColorInv
  <2> QED BY <2>1, <2>2, <2>3, <2>4, <2>5, <2>6, <2>7 DEF ConNext
<1>3. ConInv => ShownIsScreen
  BY ConInvShown
<1> QED BY <1>1, <1>2, <1>3, PTL DEF ConSpec

-----------------------------------------------------------------------------
(* VirtioGpu.                                                              *)

\* Min picks an element of the set.
LEMMA MinInSet ==
  ASSUME NEW S \in SUBSET Nat, S # {} PROVE Min(S) \in S /\ \A y \in S : Min(S) <= y
<1>1. PICK x \in S : \A y \in S : ~(<<y, x>> \in OpToRel(<, Nat))
  BY NatLessThanWellFounded, WFMin
<1>2. ASSUME NEW y \in S PROVE x <= y
  <2>1. ~(<<y, x>> \in {ss \in Nat \X Nat : ss[1] < ss[2]})
    BY <1>1 DEF OpToRel
  <2>2. <<y, x>> \in Nat \X Nat /\ <<y, x>>[1] = y /\ <<y, x>>[2] = x
    OBVIOUS
  <2>3. ~(y < x)
    BY <2>1, <2>2
  <2> QED BY SMTT(30), <2>3
<1> QED BY <1>2 DEF Min

VIndices == 0 .. IdxMod - 1

VRequests == {"none", "create", "attach", "scanout", "transfer", "flush"}

VAnswers == {"none", "ok", "error"}

VProbeScripts == {ProbeScript, <<"attach", "scanout">>, <<"scanout">>}

VFlushScripts == {FlushScript, <<"flush">>}

VgType ==
    /\ vq \in [avail : [0 .. QSize - 1 -> 0 .. NSlots], aidx : VIndices,
               used : [0 .. QSize - 1 -> 0 .. NSlots], uidx : VIndices, seen : VIndices,
               busy : SUBSET VSlots, done : SUBSET VSlots,
               out : [VSlots -> VRequests], in : [VSlots -> VAnswers],
               resp : [VSlots -> VAnswers]]
    /\ vdev \in [at : VIndices, job : 0 .. NSlots]
    /\ vrun.slot \in 0 .. NSlots
    /\ vrun = [who |-> vrun.who, script |-> vrun.script, slot |-> vrun.slot,
               again |-> vrun.again]
    /\ \/ vrun.who = "none" /\ vrun.script = <<>> /\ vrun.slot = NoSlot
       \/ vrun.who = "probe" /\ vrun.script \in VProbeScripts
       \/ vrun.who \notin {"none", "probe"} /\ vrun.script \in VFlushScripts
    /\ vfb \in Nat /\ vres \in Nat /\ vshown \in Nat /\ vowed \in Nat
    /\ vowed <= vfb

\* What a good answer to the request in hand means.
VEffect(answer) ==
    answer = "ok" => /\ Head(vrun.script) = "transfer" => vres >= vowed
                     /\ Head(vrun.script) = "flush" => vshown >= vowed

\* Where the one request in hand is: in the available ring, with the device, in
\* the used ring, or taken from it. Both rings are otherwise empty.
VPlace ==
    LET s == vrun.slot
    IN  IF s = NoSlot
        THEN vdev.job = NoSlot /\ vdev.at = vq.aidx /\ vq.uidx = vq.aidx /\ vq.seen = vq.aidx
        ELSE /\ vq.out[s] = Head(vrun.script)
             /\ \/ /\ s \notin vq.done /\ vdev.job = NoSlot
                   /\ vq.uidx = vdev.at /\ vq.seen = vdev.at /\ vq.aidx = Inc16(vdev.at)
                   /\ vq.avail[vdev.at % QSize] = s
                \/ /\ s \notin vq.done /\ vdev.job = s /\ vdev.at = vq.aidx
                   /\ vq.seen = vq.uidx /\ vq.aidx = Inc16(vq.uidx)
                \/ /\ s \notin vq.done /\ vdev.job = NoSlot /\ vdev.at = vq.aidx
                   /\ vq.uidx = vq.aidx /\ vq.uidx = Inc16(vq.seen)
                   /\ vq.used[vq.seen % QSize] = s /\ VEffect(vq.in[s])
                \/ /\ s \in vq.done /\ vdev.job = NoSlot /\ vdev.at = vq.aidx
                   /\ vq.uidx = vq.aidx /\ vq.seen = vq.aidx /\ VEffect(vq.resp[s])

VgInv ==
    /\ VgType
    /\ VPlace
    /\ vrun.script = <<"flush">> => vres >= vowed
    /\ ~vdirty => vshown >= vowed

\* The requests of a sequence, and what is left of it after each.
LEMMA ProbeScripts ==
  ASSUME NEW x \in VProbeScripts
  PROVE  /\ x # <<>> /\ x # <<"flush">> /\ Head(x) \notin {"transfer", "flush"}
         /\ Len(x) > 1 => Tail(x) \in VProbeScripts
<1>1. CASE x = <<"create", "attach", "scanout">>
  <2>1. Len(x) = 3 /\ Head(x) = "create" /\ Tail(x) = <<"attach", "scanout">>
    BY SMTT(30), <1>1
  <2>2. Len(<<>>) = 0 /\ Len(<<"flush">>) = 1
    OBVIOUS
  <2> QED BY SMTT(30), <2>1, <2>2 DEF VProbeScripts
<1>2. CASE x = <<"attach", "scanout">>
  <2>1. Len(x) = 2 /\ Head(x) = "attach" /\ Tail(x) = <<"scanout">>
    BY SMTT(30), <1>2
  <2>2. Len(<<>>) = 0 /\ Len(<<"flush">>) = 1
    OBVIOUS
  <2> QED BY SMTT(30), <2>1, <2>2 DEF VProbeScripts
<1>3. CASE x = <<"scanout">>
  <2>1. Len(x) = 1 /\ Head(x) = "scanout"
    BY SMTT(30), <1>3
  <2>2. Len(<<>>) = 0 /\ Head(<<"flush">>) = "flush"
    BY SMTT(30)
  <2> QED BY SMTT(30), <2>1, <2>2 DEF VProbeScripts
<1> QED BY <1>1, <1>2, <1>3 DEF VProbeScripts, ProbeScript

LEMMA FlushScripts ==
  ASSUME NEW x \in VFlushScripts
  PROVE  /\ x # <<>>
         /\ Len(x) > 1 => Tail(x) = <<"flush">> /\ Head(x) = "transfer"
         /\ ~(Len(x) > 1) => Head(x) = "flush"
         /\ Head(x) = "flush" => x = <<"flush">>
<1>1. CASE x = <<"transfer", "flush">>
  <2>1. Len(x) = 2 /\ Head(x) = "transfer" /\ Tail(x) = <<"flush">>
    BY SMTT(30), <1>1
  <2>2. Len(<<>>) = 0
    OBVIOUS
  <2> QED BY SMTT(30), <2>1, <2>2
<1>2. CASE x = <<"flush">>
  <2>1. Len(x) = 1 /\ Head(x) = "flush" /\ Len(<<>>) = 0
    BY SMTT(30), <1>2
  <2> QED BY SMTT(30), <1>2, <2>1
<1> QED BY <1>1, <1>2 DEF VFlushScripts, FlushScript

\* An index that has moved on is another one, and still an index.
LEMMA NextIndex ==
  ASSUME NEW i \in VIndices
  PROVE  Inc16(i) \in VIndices /\ Inc16(i) # i /\ i % QSize \in 0 .. QSize - 1
<1>1. IdxMod \in Nat \ {0, 1} /\ QSize \in Nat \ {0}
  BY SMTT(30), VgConstants
<1> QED BY SMTT(30), <1>1 DEF Inc16, VIndices

LEMMA VgInitInv == VgInit => VgInv
<1> SUFFICES ASSUME VgInit PROVE VgInv
  OBVIOUS
<1>1. NSlots \in Nat \ {0} /\ QSize \in Nat \ {0} /\ IdxMod \in Nat \ {0}
  BY VgConstants
<1>2. VgType
  BY SMTT(30), <1>1 DEF VgInit, VgType, EmptyQueue, DeviceReset, Run, ProbeScript, VProbeScripts,
              VIndices, VSlots, VRequests, VAnswers, NoSlot
<1>3. VPlace
  BY DEF VgInit, VPlace, EmptyQueue, DeviceReset, Run
<1>4. vrun.script # <<"flush">>
  BY DEF VgInit, Run, ProbeScript
<1> QED BY <1>2, <1>3, <1>4 DEF VgInv, VgInit

\* vg_ctrl puts the next request of its script into the rings, which are empty.
LEMMA SubmitInv == VgInv /\ Submit => VgInv'
<1> SUFFICES ASSUME VgInv, Submit PROVE VgInv'
  OBVIOUS
<1> DEFINE s == Min(VSlots \ vq.busy)
<1>1. s \in VSlots
  <2>1. VSlots \ vq.busy \in SUBSET Nat /\ VSlots \ vq.busy # {}
    BY SMTT(30) DEF Submit, VSlots
  <2> QED BY <2>1, MinInSet
<1>2. /\ vrun.script # <<>> /\ vrun.slot = NoSlot
      /\ vq' = [vq EXCEPT !.busy = @ \union {s}, !.done = @ \ {s},
                          !.resp[s] = "none", !.out[s] = Head(vrun.script),
                          !.avail[vq.aidx % QSize] = s, !.aidx = Inc16(@)]
      /\ vrun' = [vrun EXCEPT !.slot = s]
      /\ UNCHANGED <<vdev, vmode, vfb, vdirty, vowed, vres, vshown, vcount>>
  BY DEF Submit, vgpicture
<1> HIDE DEF s
<1>3. NSlots \in Nat /\ NoSlot = 0 /\ s \in 0 .. NSlots /\ s # NoSlot
  BY SMTT(30), <1>1, VgConstants DEF VSlots, NoSlot
<1>4. Inc16(vq.aidx) \in VIndices /\ vq.aidx % QSize \in 0 .. QSize - 1
  BY NextIndex DEF VgInv, VgType
<1>5. Head(vrun.script) \in VRequests
  BY SMTT(30), <1>2 DEF VgInv, VgType, VProbeScripts, VFlushScripts, ProbeScript, FlushScript, VRequests
<1>6. /\ vrun'.who = vrun.who /\ vrun'.script = vrun.script /\ vrun'.slot = s
      /\ vrun' = [who |-> vrun'.who, script |-> vrun'.script, slot |-> vrun'.slot,
                  again |-> vrun'.again]
  BY <1>2 DEF VgInv, VgType
<1>7. /\ vq'.busy = vq.busy \union {s} /\ vq'.done = vq.done \ {s}
      /\ vq'.resp = [vq.resp EXCEPT ![s] = "none"]
      /\ vq'.out = [vq.out EXCEPT ![s] = Head(vrun.script)]
      /\ vq'.avail = [vq.avail EXCEPT ![vq.aidx % QSize] = s]
      /\ vq'.aidx = Inc16(vq.aidx) /\ vq'.uidx = vq.uidx /\ vq'.seen = vq.seen
  BY <1>2 DEF VgInv, VgType
<1>8. VgType'
  <2>1. vq' \in [avail : [0 .. QSize - 1 -> 0 .. NSlots], aidx : VIndices,
                 used : [0 .. QSize - 1 -> 0 .. NSlots], uidx : VIndices, seen : VIndices,
                 busy : SUBSET VSlots, done : SUBSET VSlots,
                 out : [VSlots -> VRequests], in : [VSlots -> VAnswers],
                 resp : [VSlots -> VAnswers]]
    BY ZenonT(60), <1>1, <1>2, <1>3, <1>4, <1>5 DEF VgInv, VgType, VAnswers
  <2> QED BY SMTT(30), <1>2, <1>3, <1>6, <2>1 DEF VgInv, VgType
<1>9. VPlace'
  <2>1. vq.aidx = vdev.at /\ vq.uidx = vdev.at /\ vq.seen = vdev.at /\ vdev.job = NoSlot
    BY <1>2 DEF VgInv, VPlace
  <2>2. vq'.avail[vdev.at % QSize] = s /\ vq'.out[s] = Head(vrun.script)
    BY <1>1, <1>4, <1>7, <2>1 DEF VgInv, VgType
  <2> QED BY <1>2, <1>3, <1>6, <1>7, <2>1, <2>2 DEF VPlace
<1> QED BY <1>2, <1>6, <1>8, <1>9 DEF VgInv

\* vg_poll_used: the only answer in the used ring is the one to this request.
LEMMA PollUsedInv == VgInv /\ PollUsed => VgInv'
<1> SUFFICES ASSUME VgInv, PollUsed PROVE VgInv'
  OBVIOUS
<1> DEFINE s == vrun.slot
<1>1. /\ s # NoSlot /\ s \notin vq.done /\ vq.seen # vq.uidx
      /\ UNCHANGED <<vdev, vrun, vmode, vfb, vdirty, vowed, vres, vshown, vcount>>
  BY DEF PollUsed, vgpicture
<1>2. /\ vdev.job = NoSlot /\ vdev.at = vq.aidx
      /\ vq.uidx = vq.aidx /\ vq.uidx = Inc16(vq.seen)
      /\ vq.used[vq.seen % QSize] = s /\ VEffect(vq.in[s]) /\ vq.out[s] = Head(vrun.script)
  BY <1>1 DEF VgInv, VPlace
<1>3. vq' = [vq EXCEPT !.resp[s] = vq.in[s], !.done = @ \union {s}, !.seen = Inc16(@)]
  BY <1>2 DEF PollUsed
<1>4. s \in VSlots
  BY SMTT(30), <1>1, VgConstants DEF VgInv, VgType, VSlots, NoSlot
<1>5. Inc16(vq.seen) \in VIndices
  BY NextIndex DEF VgInv, VgType
<1>6. VgType'
  <2>1. vq.in[s] \in VAnswers
    BY <1>4 DEF VgInv, VgType
  <2>2. vq' \in [avail : [0 .. QSize - 1 -> 0 .. NSlots], aidx : VIndices,
                 used : [0 .. QSize - 1 -> 0 .. NSlots], uidx : VIndices, seen : VIndices,
                 busy : SUBSET VSlots, done : SUBSET VSlots,
                 out : [VSlots -> VRequests], in : [VSlots -> VAnswers],
                 resp : [VSlots -> VAnswers]]
    BY <1>3, <1>4, <1>5, <2>1 DEF VgInv, VgType
  <2> QED BY <1>1, <2>2 DEF VgInv, VgType
<1>7. VPlace'
  <2>1. /\ s \in vq'.done /\ vq'.out = vq.out /\ vq'.aidx = vq.aidx /\ vq'.uidx = vq.uidx
        /\ vq'.seen = Inc16(vq.seen) /\ vq'.resp[s] = vq.in[s]
    BY <1>3, <1>4 DEF VgInv, VgType
  <2>2. VEffect(vq.resp[s])'
    BY <1>1, <1>2, <2>1 DEF VEffect
  <2> QED BY <1>1, <1>2, <2>1, <2>2 DEF VPlace
<1> QED BY <1>1, <1>6, <1>7 DEF VgInv

\* The rings are empty and the device has nothing in hand.
VIdle == vdev.job = NoSlot /\ vdev.at = vq.aidx /\ vq.uidx = vq.aidx /\ vq.seen = vq.aidx

VQueueType ==
    /\ vq \in [avail : [0 .. QSize - 1 -> 0 .. NSlots], aidx : VIndices,
               used : [0 .. QSize - 1 -> 0 .. NSlots], uidx : VIndices, seen : VIndices,
               busy : SUBSET VSlots, done : SUBSET VSlots,
               out : [VSlots -> VRequests], in : [VSlots -> VAnswers],
               resp : [VSlots -> VAnswers]]
    /\ vdev \in [at : VIndices, job : 0 .. NSlots]

\* The end of a sequence, good or not, leaves the promise about the display: a
\* flush that empties the dirty rectangle without a message was answered.
LEMMA EndsInv ==
  ASSUME VgInv, vrun.script # <<>>, NEW ok \in BOOLEAN, Ends(ok),
         VIdle', VQueueType', UNCHANGED <<vres, vshown>>,
         ok /\ vrun.who # "probe" => vshown >= vowed
  PROVE  VgInv'
<1>0. /\ vfb \in Nat /\ vres \in Nat /\ vshown \in Nat /\ vowed \in Nat /\ vowed <= vfb
      /\ 0 \in 0 .. NSlots
  BY SMTT(30), VgConstants DEF VgInv, VgType
<1>1. CASE vrun.who = "probe"
  <2>1. /\ vfb' = IF ok THEN vfb + 1 ELSE vfb
        /\ vowed' = vfb' /\ vdirty' = TRUE
        /\ vrun' = IF ok THEN Run("call", FlushScript, TRUE) ELSE Resting
    BY <1>1 DEF Ends, ProbeEnds
  <2>2. VgType' /\ vrun'.slot = NoSlot /\ vrun'.script # <<"flush">>
    <3>1. vfb' \in Nat /\ vowed' \in Nat /\ vres' \in Nat /\ vshown' \in Nat /\ vowed' <= vfb'
      BY SMTT(30), <1>0, <2>1
    <3>2. CASE ok
      BY <1>0, <2>1, <3>1, <3>2 DEF VgType, VQueueType, Run, NoSlot, VFlushScripts, FlushScript
    <3>3. CASE ~ok
      BY <1>0, <2>1, <3>1, <3>3 DEF VgType, VQueueType, Resting, NoSlot
    <3> QED BY <3>2, <3>3
  <2> QED BY <2>1, <2>2 DEF VgInv, VPlace, VIdle
<1>2. CASE vrun.who # "probe"
  <2> DEFINE says == vrun.again \/ (IF ok THEN vcount.ok = 0 ELSE vcount.err = 0)
  <2>1. /\ vfb' = IF says THEN vfb + 1 ELSE vfb
        /\ vdirty' = (says \/ (vdirty /\ ~ok))
        /\ vowed' = IF says THEN vfb' ELSE vowed
        /\ vrun' = IF vrun.again THEN Run("call", FlushScript, FALSE) ELSE Resting
    BY <1>2 DEF Ends, FlushEnds
  <2> HIDE DEF says
  <2>2. VgType' /\ vrun'.slot = NoSlot /\ vrun'.script # <<"flush">>
    <3>1. vfb' \in Nat /\ vowed' \in Nat /\ vres' \in Nat /\ vshown' \in Nat /\ vowed' <= vfb'
      BY SMTT(30), <1>0, <2>1
    <3>2. CASE vrun.again
      BY <1>0, <2>1, <3>1, <3>2 DEF VgType, VQueueType, Run, NoSlot, VFlushScripts, FlushScript
    <3>3. CASE ~vrun.again
      BY <1>0, <2>1, <3>1, <3>3 DEF VgType, VQueueType, Resting, NoSlot
    <3> QED BY <3>2, <3>3
  <2>3. ~vdirty' => ~says /\ (~vdirty \/ ok)
    BY <2>1
  <2>4. ~vdirty' => vshown >= vowed
    BY <1>2, <2>3 DEF VgInv
  <2>5. ~vdirty' => vshown' >= vowed'
    BY <2>1, <2>3, <2>4
  <2> QED BY <2>2, <2>5 DEF VgInv, VPlace, VIdle
<1> QED BY <1>1, <1>2

\* vg_ctrl returns: the next request of the sequence, or its end.
LEMMA AnsweredInv == VgInv /\ Answered => VgInv'
<1> SUFFICES ASSUME VgInv, Answered PROVE VgInv'
  OBVIOUS
<1> DEFINE s == vrun.slot
<1>1. /\ s # NoSlot /\ s \in vq.done
      /\ vq' = [vq EXCEPT !.busy = @ \ {s}]
      /\ UNCHANGED <<vdev, vres, vshown>>
  BY DEF Answered
<1>2. VIdle /\ VEffect(vq.resp[s])
  BY <1>1 DEF VgInv, VPlace, VIdle
<1>3. VQueueType' /\ VIdle'
  BY <1>1, <1>2 DEF VgInv, VgType, VQueueType, VIdle
<1>4. vrun.script # <<>>
  BY <1>1, ProbeScripts, FlushScripts DEF VgInv, VgType
<1>5. CASE vq.resp[s] = "ok" /\ Len(vrun.script) > 1
  <2>1. /\ vrun' = [vrun EXCEPT !.script = Tail(@), !.slot = NoSlot]
        /\ UNCHANGED <<vfb, vdirty, vowed>>
    BY <1>5 DEF Answered, vgpicture
  <2>2. /\ vrun'.who = vrun.who /\ vrun'.script = Tail(vrun.script) /\ vrun'.slot = NoSlot
        /\ vrun' = [who |-> vrun'.who, script |-> vrun'.script, slot |-> vrun'.slot,
                    again |-> vrun'.again]
    BY <2>1 DEF VgInv, VgType
  <2>3. \/ vrun.who = "probe" /\ vrun'.script \in VProbeScripts /\ vrun'.script # <<"flush">>
        \/ /\ vrun.who \notin {"none", "probe"} /\ vrun'.script \in VFlushScripts
           /\ Head(vrun.script) = "transfer"
    <3>1. <<"flush">> \in VFlushScripts
      BY DEF VFlushScripts
    <3> QED BY ZenonT(60), <1>4, <1>5, <2>2, <3>1, ProbeScripts, FlushScripts DEF VgInv, VgType
  <2>4. vrun'.script = <<"flush">> => vres >= vowed
    BY <1>2, <1>5, <2>3 DEF VEffect
  <2>5. 0 \in 0 .. NSlots
    BY SMTT(30), VgConstants
  <2>6. VgType'
    BY <1>1, <1>3, <2>1, <2>2, <2>3, <2>5 DEF VgInv, VgType, VQueueType, NoSlot
  <2> QED BY <1>1, <1>3, <2>1, <2>2, <2>4, <2>6 DEF VgInv, VPlace, VIdle
<1>6. CASE ~(vq.resp[s] = "ok" /\ Len(vrun.script) > 1)
  <2>1. Ends(vq.resp[s] = "ok")
    BY <1>6 DEF Answered
  <2>2. vq.resp[s] = "ok" /\ vrun.who # "probe" => vshown >= vowed
    <3>1. SUFFICES ASSUME vq.resp[s] = "ok", vrun.who # "probe" PROVE vshown >= vowed
      OBVIOUS
    <3>2. Head(vrun.script) = "flush"
      BY <1>4, <1>6, <3>1, FlushScripts DEF VgInv, VgType
    <3> QED BY <1>2, <3>1, <3>2 DEF VEffect
  <2> QED BY <1>1, <1>3, <1>4, <2>1, <2>2, EndsInv
<1> QED BY <1>5, <1>6

\* A timeout: the rings are empty again, whatever the device was about to do.
LEMMA TimesOutInv == VgInv /\ TimesOut => VgInv'
<1> SUFFICES ASSUME VgInv, TimesOut PROVE VgInv'
  OBVIOUS
<1>1. /\ vrun.slot # NoSlot /\ vq' = ResetQueue(vq) /\ vdev' = DeviceReset
      /\ Ends(FALSE) /\ UNCHANGED <<vres, vshown>>
  BY DEF TimesOut
<1>2. 0 \in VIndices /\ 0 \in 0 .. NSlots
  BY SMTT(30), VgConstants DEF VIndices
<1>3. VQueueType' /\ VIdle'
  <2>1. vq' = [avail |-> vq.avail, aidx |-> 0, used |-> vq.used, uidx |-> 0, seen |-> 0,
               busy |-> {}, done |-> {}, out |-> vq.out, in |-> vq.in, resp |-> vq.resp]
    BY <1>1 DEF ResetQueue, EmptyQueue
  <2>2. vq \in [avail : [0 .. QSize - 1 -> 0 .. NSlots], aidx : VIndices,
                used : [0 .. QSize - 1 -> 0 .. NSlots], uidx : VIndices, seen : VIndices,
                busy : SUBSET VSlots, done : SUBSET VSlots,
                out : [VSlots -> VRequests], in : [VSlots -> VAnswers],
                resp : [VSlots -> VAnswers]]
    BY DEF VgInv, VgType
  <2> QED BY SMTT(30), <1>1, <1>2, <2>1, <2>2 DEF VQueueType, VIdle, DeviceReset, NoSlot
<1>4. vrun.script # <<>>
  BY <1>1, ProbeScripts, FlushScripts DEF VgInv, VgType
<1> QED BY <1>1, <1>3, <1>4, EndsInv

\* Drawing never takes back what was owed: outside a flush the debt is the new
\* picture and the rectangle is dirty, inside one the debt stays.
LEMMA DrawInv ==
  ASSUME VgInv, NEW p \in BOOLEAN, Draw(p) \/ ClearScreen(p) PROVE VgInv'
<1>1. vfb' \in Nat /\ vfb <= vfb'
  <2>1. vfb' = Drawn(p, vfb)
    BY DEF Draw, ClearScreen
  <2>2. vfb \in Nat
    BY DEF VgInv, VgType
  <2> QED BY SMTT(30), <2>1, <2>2 DEF Drawn
<1>2. /\ vdirty' = TRUE /\ UNCHANGED <<vq, vdev, vres, vshown>>
      /\ vowed' = IF vrun.who = "none" THEN vfb' ELSE vowed
      /\ vrun' = vrun \/ (vrun.who = "none" /\ vrun' = Run("call", FlushScript, FALSE))
  BY DEF Draw, ClearScreen
<1>3. vowed' \in Nat /\ vowed' <= vfb' /\ vres' \in Nat /\ vshown' \in Nat
  BY SMTT(30), <1>1, <1>2 DEF VgInv, VgType
<1>4. VQueueType'
  BY <1>2 DEF VgInv, VgType, VQueueType
<1>5. CASE vrun.who = "none"
  <2>1. vrun.slot = NoSlot /\ vrun.script = <<>>
    BY <1>5 DEF VgInv, VgType
  <2>2. VIdle'
    BY <1>2, <2>1 DEF VgInv, VPlace, VIdle
  <2>3. VgType' /\ vrun'.slot = NoSlot /\ vrun'.script # <<"flush">>
    <3>1. CASE vrun' = vrun
      <4>1. Len(<<>>) = 0 /\ Len(<<"flush">>) = 1
        OBVIOUS
      <4>2. vrun'.script # <<"flush">>
        BY SMTT(30), <2>1, <3>1, <4>1
      <4> QED BY <1>1, <1>3, <1>4, <2>1, <3>1, <4>2 DEF VgInv, VgType, VQueueType
    <3>2. CASE vrun' = Run("call", FlushScript, FALSE)
      <4>1. 0 \in 0 .. NSlots
        BY SMTT(30), VgConstants
      <4> QED BY <1>1, <1>3, <1>4, <3>2, <4>1
              DEF VgType, VQueueType, Run, NoSlot, VFlushScripts, FlushScript
    <3> QED BY <1>2, <3>1, <3>2
  <2> QED BY <1>2, <2>2, <2>3 DEF VgInv, VPlace, VIdle
<1>6. CASE vrun.who # "none"
  <2>1. vrun' = vrun /\ vowed' = vowed
    BY <1>2, <1>6
  <2>2. VgType'
    BY <1>1, <1>3, <1>4, <2>1 DEF VgInv, VgType, VQueueType
  <2>3. VPlace'
    BY <1>2, <2>1 DEF VgInv, VPlace, VEffect
  <2> QED BY <1>2, <2>1, <2>2, <2>3 DEF VgInv
<1> QED BY <1>5, <1>6

\* vg_deferred starts a flush, with the rings empty.
LEMMA DeferredInv ==
  ASSUME VgInv, NEW who \in {"irq", "idle"}, Deferred(who) PROVE VgInv'
<1>1. /\ vrun.who = "none" /\ vrun' = Run(who, FlushScript, FALSE)
      /\ UNCHANGED <<vq, vdev, vfb, vdirty, vowed, vres, vshown>>
  BY DEF Deferred, vgpicture
<1>2. vrun.slot = NoSlot
  BY <1>1 DEF VgInv, VgType
<1>3. VIdle'
  BY <1>1, <1>2 DEF VgInv, VPlace, VIdle
<1>4. VgType' /\ vrun'.slot = NoSlot /\ vrun'.script # <<"flush">>
  <2>1. 0 \in 0 .. NSlots
    BY SMTT(30), VgConstants
  <2> QED BY <1>1, <2>1 DEF VgInv, VgType, Run, NoSlot, VFlushScripts, FlushScript
<1> QED BY <1>1, <1>3, <1>4 DEF VgInv, VPlace, VIdle

\* The device takes the one request in the available ring.
LEMMA DevTakesInv == VgInv /\ DevTakes => VgInv'
<1> SUFFICES ASSUME VgInv, DevTakes PROVE VgInv'
  OBVIOUS
<1> DEFINE s == vrun.slot
<1>1. /\ vdev.job = NoSlot /\ vdev.at # vq.aidx
      /\ vdev' = [at |-> Inc16(vdev.at), job |-> vq.avail[vdev.at % QSize]]
      /\ UNCHANGED <<vq, vrun, vfb, vdirty, vowed, vres, vshown>>
  BY DEF DevTakes, vgpicture
<1>2. /\ s # NoSlot /\ s \notin vq.done /\ vq.out[s] = Head(vrun.script)
      /\ vq.uidx = vdev.at /\ vq.seen = vdev.at /\ vq.aidx = Inc16(vdev.at)
      /\ vq.avail[vdev.at % QSize] = s
  BY <1>1 DEF VgInv, VPlace
<1>3. vdev'.at = vq.aidx /\ vdev'.job = s
  BY <1>1, <1>2
<1>4. VgType'
  BY <1>1, <1>2 DEF VgInv, VgType
<1>5. VPlace'
  BY <1>1, <1>2, <1>3 DEF VPlace
<1> QED BY <1>1, <1>4, <1>5 DEF VgInv

\* The device answers: a transfer has copied what the framebuffer holds now, a
\* flush shows the copy its own sequence made.
LEMMA DevAnswersInv ==
  ASSUME VgInv, NEW resp \in {"ok", "error"}, DevAnswers(resp) PROVE VgInv'
<1> DEFINE s == vrun.slot
<1>1. /\ vdev.job # NoSlot
      /\ vq' = [vq EXCEPT !.in[vdev.job] = resp, !.uidx = Inc16(@),
                          !.used[vq.uidx % QSize] = vdev.job]
      /\ vdev' = [vdev EXCEPT !.job = NoSlot]
      /\ vres' = IF resp = "ok" /\ vq.out[vdev.job] = "transfer" THEN vfb ELSE vres
      /\ vshown' = IF resp = "ok" /\ vq.out[vdev.job] = "flush" THEN vres ELSE vshown
      /\ UNCHANGED <<vrun, vfb, vdirty, vowed>>
  BY DEF DevAnswers, vgpicture
<1>2. /\ s # NoSlot /\ s \notin vq.done /\ vq.out[s] = Head(vrun.script)
      /\ vdev.job = s /\ vdev.at = vq.aidx /\ vq.seen = vq.uidx /\ vq.aidx = Inc16(vq.uidx)
  BY <1>1 DEF VgInv, VPlace
<1>3. s \in VSlots /\ s \in 0 .. NSlots
  BY SMTT(30), <1>2, VgConstants DEF VgInv, VgType, VSlots, NoSlot
<1>4. Inc16(vq.uidx) \in VIndices /\ vq.uidx % QSize \in 0 .. QSize - 1
  BY NextIndex DEF VgInv, VgType
<1>5. /\ vq'.in = [vq.in EXCEPT ![s] = resp] /\ vq'.uidx = vq.aidx
      /\ vq'.used = [vq.used EXCEPT ![vq.uidx % QSize] = s]
      /\ vq'.seen = vq.seen /\ vq'.aidx = vq.aidx /\ vq'.out = vq.out /\ vq'.done = vq.done
      /\ vdev'.job = NoSlot /\ vdev'.at = vdev.at
  BY <1>1, <1>2 DEF VgInv, VgType
<1>6. vq'.in[s] = resp /\ vq'.used[vq.seen % QSize] = s
  BY <1>2, <1>3, <1>4, <1>5 DEF VgInv, VgType
<1>7. Head(vrun.script) = "flush" => vres >= vowed
  <2>1. Head(vrun.script) = "flush" => vrun.script = <<"flush">>
    BY SMTT(30), <1>2 DEF VgInv, VgType, VProbeScripts, VFlushScripts, ProbeScript, FlushScript
  <2> QED BY <2>1 DEF VgInv
<1>8. /\ vres' \in Nat /\ vshown' \in Nat
      /\ resp = "ok" /\ Head(vrun.script) = "transfer" => vres' >= vowed
      /\ resp = "ok" /\ Head(vrun.script) = "flush" => vshown' >= vowed
      /\ vres >= vowed => vres' >= vowed
      /\ vshown >= vowed => vshown' >= vowed
  BY <1>1, <1>2, <1>7 DEF VgInv, VgType
<1>9. VgType'
  <2>1. vq' \in [avail : [0 .. QSize - 1 -> 0 .. NSlots], aidx : VIndices,
                 used : [0 .. QSize - 1 -> 0 .. NSlots], uidx : VIndices, seen : VIndices,
                 busy : SUBSET VSlots, done : SUBSET VSlots,
                 out : [VSlots -> VRequests], in : [VSlots -> VAnswers],
                 resp : [VSlots -> VAnswers]]
    BY <1>1, <1>2, <1>3, <1>4 DEF VgInv, VgType, VAnswers
  <2>2. vdev' \in [at : VIndices, job : 0 .. NSlots]
    <3>1. NoSlot \in 0 .. NSlots
      BY SMTT(30), VgConstants DEF NoSlot
    <3> QED BY <1>1, <3>1 DEF VgInv, VgType
  <2> QED BY <1>1, <1>8, <2>1, <2>2 DEF VgInv, VgType
<1>10. VPlace'
  <2>1. VEffect(vq.in[s])'
    BY <1>1, <1>6, <1>8 DEF VEffect
  <2> QED BY SMTT(30), <1>1, <1>2, <1>5, <1>6, <2>1 DEF VPlace
<1> QED BY <1>1, <1>8, <1>9, <1>10 DEF VgInv

\* vg_ctrl, vg_flush_now and the device: for every number of request slots, of
\* ring entries and of index values, and whatever timed out or was refused on
\* the way, an empty dirty rectangle means the display shows what was owed.
THEOREM GpuShowsDrawn == VgSpec => []DrawnIsShown
<1>1. VgInit => VgInv
  BY VgInitInv
<1>2. VgInv /\ [VgNext]_vgvars => VgInv'
  <2> SUFFICES ASSUME VgInv, [VgNext]_vgvars PROVE VgInv'
    OBVIOUS
  <2>1. CASE UNCHANGED vgvars
    BY <2>1 DEF vgvars, VgInv, VgType, VPlace, VEffect
  <2>2. CASE Submit \/ PollUsed \/ Answered \/ TimesOut
    BY <2>2, SubmitInv, PollUsedInv, AnsweredInv, TimesOutInv
  <2>3. ASSUME NEW p \in BOOLEAN, Draw(p) \/ ClearScreen(p) PROVE VgInv'
    BY <2>3, DrawInv
  <2>4. ASSUME NEW who \in {"irq", "idle"}, Deferred(who) PROVE VgInv'
    BY <2>4, DeferredInv
  <2>5. CASE DevTakes
    BY <2>5, DevTakesInv
  <2>6. ASSUME NEW resp \in {"ok", "error"}, DevAnswers(resp) PROVE VgInv'
    BY <2>6, DevAnswersInv
  <2> QED BY <2>1, <2>2, <2>3, <2>4, <2>5, <2>6 DEF VgNext
<1>3. VgInv => DrawnIsShown
  BY DEF VgInv, DrawnIsShown
<1> QED BY <1>1, <1>2, <1>3, PTL DEF VgSpec

-----------------------------------------------------------------------------
(* Drm.                                                                    *)

Apart(b, c) == b.at + b.len <= c.at \/ c.at + c.len <= b.at

PieceType == [at : Nat \ {0}, len : Nat \ {0}]

InTable == {i \in 1 .. NDumb : dumb[i].used}

PieceOf(d) == [at |-> d.at, len |-> d.len]

InStolen(d) == d.at > HeapUnits /\ d.at + d.len <= HeapUnits + stolen + 1

PrimaryPiece == [at |-> primary.at, len |-> primary.w * primary.h]

DrmType ==
    /\ i915 \in BOOLEAN /\ heap \subseteq PieceType /\ stolen \in Nat
    /\ dumb \in [1 .. NDumb -> [used : BOOLEAN, at : Nat, len : Nat]]
    /\ primary \in [used : BOOLEAN, at : Nat, w : Nat, h : Nat]

\* What kmalloc has given out lies in the heap and apart, and every buffer has
\* one of those blocks, or a part of stolen memory, that no other one has.
DrmInv ==
    /\ DrmType
    /\ \A b \in heap : b.at + b.len <= HeapUnits + 1
    /\ \A b, c \in heap : b # c => Apart(b, c)
    /\ \A i \in InTable : /\ PieceOf(dumb[i]) \in PieceType
                          /\ PieceOf(dumb[i]) \in heap \/ InStolen(dumb[i])
    /\ \A i, j \in InTable : i # j => Apart(dumb[i], dumb[j])
    /\ primary.at > 0 => /\ PrimaryPiece \in heap
                         /\ \A i \in InTable : Apart(dumb[i], PrimaryPiece)

\* Pieces without a common unit are apart, and the other way round.
LEMMA UnitsApart ==
  ASSUME NEW a \in Nat, NEW m \in Nat \ {0}, NEW c \in Nat, NEW n \in Nat \ {0}
  PROVE  (Units(a, m) \intersect Units(c, n) = {}) <=> (a + m <= c \/ c + n <= a)
<1>1. ASSUME Units(a, m) \intersect Units(c, n) = {} PROVE a + m <= c \/ c + n <= a
  <2>1. a \in Units(a, m) /\ c \in Units(c, n)
    BY SMTT(30) DEF Units
  <2>2. a \notin c .. c + n - 1 /\ c \notin a .. a + m - 1
    BY <1>1, <2>1 DEF Units
  <2> QED BY SMTT(30), <2>2
<1>2. ASSUME a + m <= c \/ c + n <= a PROVE Units(a, m) \intersect Units(c, n) = {}
  BY SMTT(30), <1>2 DEF Units
<1> QED BY <1>1, <1>2

LEMMA PictureUnits ==
  ASSUME NEW size \in Pictures \union {GpuPicture} PROVE size[1] * size[2] \in Nat \ {0}
<1>1. PICK w \in Nat \ {0}, h \in Nat \ {0} : size = <<w, h>>
  BY SMTT(30), DrmConstants
<1>2. w * h \in Nat \ {0}
  BY SMTT(30)
<1> QED BY <1>1, <1>2

\* Where kmalloc finds room nothing else is.
LEMMA PlaceIsFree ==
  ASSUME DrmInv, NEW len \in Nat \ {0}, NEW at \in Places(len)
  PROVE  /\ at \in Nat \ {0} /\ at + len <= HeapUnits + 1
         /\ \A b \in heap : Apart([at |-> at, len |-> len], b)
<1>1. HeapUnits \in Nat
  BY DrmConstants
<1>2. at \in Nat \ {0} /\ at + len <= HeapUnits + 1
  BY SMTT(30), <1>1 DEF Places
<1>3. ASSUME NEW b \in heap PROVE Apart([at |-> at, len |-> len], b)
  <2>1. b.at \in Nat \ {0} /\ b.len \in Nat \ {0}
    BY DEF DrmInv, DrmType, PieceType
  <2>2. Units(at, len) \intersect Units(b.at, b.len) = {}
    BY DEF Places
  <2>3. at + len <= b.at \/ b.at + b.len <= at
    BY <1>2, <2>1, <2>2, UnitsApart
  <2> QED BY <2>3 DEF Apart
<1> QED BY <1>2, <1>3

LEMMA DrmInitInv == DrmInit => DrmInv
<1> SUFFICES ASSUME DrmInit PROVE DrmInv
  OBVIOUS
<1>1. InTable = {}
  BY DEF DrmInit, InTable, NoBuffer
<1>2. BootPicture[1] \in Nat /\ BootPicture[2] \in Nat
  BY DrmConstants
<1> QED BY SMTT(30), <1>1, <1>2 DEF DrmInit, DrmInv, DrmType, NoBuffer

LEMMA FirstUnusedIs ==
  ASSUME DrmInv, ~Full(dumb)
  PROVE  FirstUnused(dumb) \in 1 .. NDumb /\ ~dumb[FirstUnused(dumb)].used
<1>1. DOMAIN dumb = 1 .. NDumb /\ NDumb \in Nat
  BY DrmConstants DEF DrmInv, DrmType
<1> DEFINE S == {i \in DOMAIN dumb : ~dumb[i].used}
<1>2. S \in SUBSET Nat /\ S # {}
  BY SMTT(30), <1>1 DEF Full
<1>3. Min(S) \in S
  BY <1>2, MinInSet
<1> QED BY <1>1, <1>3 DEF FirstUnused

\* A buffer enters the table with memory that is apart from everything in use.
LEMMA PaintedInv ==
  ASSUME DrmInv, NEW at \in Nat \ {0}, NEW len \in Nat \ {0}, ~Full(dumb),
         Painted(at, len), UNCHANGED <<i915, primary>>,
         heap \subseteq heap', heap' \subseteq PieceType, stolen' \in Nat, stolen <= stolen',
         \A b \in heap' : b.at + b.len <= HeapUnits + 1,
         \A b, c \in heap' : b # c => Apart(b, c),
         \/ [at |-> at, len |-> len] \in heap'
         \/ at > HeapUnits /\ at + len <= HeapUnits + stolen' + 1,
         \A b \in heap : Apart([at |-> at, len |-> len], b),
         \A i \in InTable : InStolen(dumb[i]) => Apart([at |-> at, len |-> len], dumb[i])
  PROVE  DrmInv'
<1> DEFINE h == FirstUnused(dumb)
           new == [used |-> TRUE, at |-> at, len |-> len]
<1>1. h \in 1 .. NDumb /\ ~dumb[h].used
  BY FirstUnusedIs
<1>2. dumb' = [dumb EXCEPT ![h] = new]
  BY DEF Painted
<1> HIDE DEF h
<1>3. dumb \in [1 .. NDumb -> [used : BOOLEAN, at : Nat, len : Nat]]
  BY DEF DrmInv, DrmType
<1>4. /\ dumb'[h] = new /\ InTable' = InTable \union {h} /\ h \notin InTable
      /\ \A i \in InTable : dumb'[i] = dumb[i]
  BY <1>1, <1>2, <1>3 DEF InTable
<1>a. dumb'[h].at = at /\ dumb'[h].len = len
  BY ONLY <1>4
<1>5. DrmType'
  BY <1>1, <1>2, <1>3 DEF DrmInv, DrmType
<1>6. ASSUME NEW i \in InTable PROVE Apart([at |-> at, len |-> len], dumb[i])
  <2>1. CASE InStolen(dumb[i])
    BY <2>1
  <2>2. CASE PieceOf(dumb[i]) \in heap
    <3>1. Apart([at |-> at, len |-> len], PieceOf(dumb[i]))
      BY <2>2
    <3> QED BY <3>1 DEF Apart, PieceOf
  <2> QED BY <2>1, <2>2 DEF DrmInv
<1>7. ASSUME NEW i \in InTable'
      PROVE  /\ PieceOf(dumb'[i]) \in PieceType
             /\ PieceOf(dumb'[i]) \in heap' \/ InStolen(dumb[i])'
  <2>1. CASE i = h
    <3>1. PieceOf(dumb'[i]) = [at |-> at, len |-> len] /\ dumb'[i].at = at /\ dumb'[i].len = len
      BY <1>a, <2>1 DEF PieceOf
    <3>2. PieceOf(dumb'[i]) \in PieceType
      BY SMTT(30), <3>1 DEF PieceType
    <3> QED BY <3>1, <3>2 DEF InStolen
  <2>2. CASE i # h
    <3>1. i \in InTable /\ dumb'[i] = dumb[i]
      BY <1>4, <2>2
    <3>2. /\ PieceOf(dumb[i]) \in PieceType
          /\ PieceOf(dumb[i]) \in heap \/ InStolen(dumb[i])
      BY ZenonT(60), <3>1 DEF DrmInv
    <3>3. dumb[i].at \in Nat /\ dumb[i].len \in Nat /\ HeapUnits \in Nat /\ stolen \in Nat
      BY ZenonT(60), <1>3, <3>1, DrmConstants DEF InTable, DrmInv, DrmType
    <3> QED BY SMTT(30), <3>1, <3>2, <3>3 DEF InStolen
  <2> QED BY <2>1, <2>2
<1>8. ASSUME NEW i \in InTable', NEW j \in InTable', i # j PROVE Apart(dumb'[i], dumb'[j])
  <2>1. CASE i = h
    <3>1. j \in InTable /\ dumb'[j] = dumb[j]
      BY <1>4, <1>8, <2>1
    <3>2. Apart([at |-> at, len |-> len], dumb[j])
      BY <1>6, <3>1
    <3>3. dumb'[i].at = at /\ dumb'[i].len = len
      BY <1>a, <2>1
    <3> QED BY <3>1, <3>2, <3>3 DEF Apart
  <2>2. CASE j = h
    <3>1. i \in InTable /\ dumb'[i] = dumb[i]
      BY <1>4, <1>8, <2>2
    <3>2. Apart([at |-> at, len |-> len], dumb[i])
      BY <1>6, <3>1
    <3>3. dumb'[j].at = at /\ dumb'[j].len = len
      BY <1>a, <2>2
    <3> QED BY <3>1, <3>2, <3>3 DEF Apart
  <2>3. CASE i # h /\ j # h
    BY ZenonT(60), <1>4, <1>8, <2>3 DEF DrmInv
  <2> QED BY <2>1, <2>2, <2>3
<1>9. ASSUME primary'.at > 0
      PROVE  PrimaryPiece' \in heap' /\ \A i \in InTable' : Apart(dumb'[i], PrimaryPiece')
  <2>1. /\ PrimaryPiece' = PrimaryPiece /\ PrimaryPiece \in heap
        /\ \A i \in InTable : Apart(dumb[i], PrimaryPiece)
    BY <1>9 DEF DrmInv, PrimaryPiece
  <2>2. Apart(dumb'[h], PrimaryPiece)
    <3>1. Apart([at |-> at, len |-> len], PrimaryPiece)
      BY <2>1
    <3> QED BY SMTT(30), <1>4, <3>1 DEF Apart
  <2> QED BY ZenonT(60), <1>4, <2>1, <2>2
<1> QED BY ZenonT(60), <1>5, <1>7, <1>8, <1>9 DEF DrmInv

LEMMA FromHeapInv ==
  ASSUME DrmInv, NEW len \in Nat \ {0}, ~Full(dumb), FromHeap(len),
         UNCHANGED <<i915, stolen, primary>>
  PROVE  DrmInv'
<1>1. PICK at \in Places(len) : Painted(at, len) /\ heap' = heap \union {[at |-> at, len |-> len]}
  BY DEF FromHeap
<1> DEFINE new == [at |-> at, len |-> len]
<1>2. /\ at \in Nat \ {0} /\ at + len <= HeapUnits + 1
      /\ \A b \in heap : Apart(new, b)
  BY <1>1, PlaceIsFree
<1>3. heap \subseteq heap' /\ heap' \subseteq PieceType /\ new \in heap'
  BY SMTT(30), <1>1, <1>2 DEF DrmInv, DrmType, PieceType
<1>4. \A b \in heap' : b.at + b.len <= HeapUnits + 1
  <2>1. new.at + new.len <= HeapUnits + 1 /\ heap' = heap \union {new}
    BY <1>1, <1>2
  <2>2. \A b \in heap : b.at + b.len <= HeapUnits + 1
    BY DEF DrmInv
  <2> HIDE DEF new
  <2> QED BY <2>1, <2>2
<1>5. \A b, c \in heap' : b # c => Apart(b, c)
  <2>1. /\ \A b \in heap : Apart(b, new) /\ Apart(new, b)
        /\ heap' = heap \union {new}
    BY <1>1, <1>2 DEF Apart
  <2>2. \A b, c \in heap : b # c => Apart(b, c)
    BY DEF DrmInv
  <2> HIDE DEF new
  <2> QED BY <2>1, <2>2
<1>6. ASSUME NEW i \in InTable, InStolen(dumb[i]) PROVE Apart(new, dumb[i])
  <2>1. dumb[i].at \in Nat /\ HeapUnits \in Nat
    BY DrmConstants DEF DrmInv, DrmType, InTable
  <2> QED BY SMTT(30), <1>2, <1>6, <2>1 DEF InStolen, Apart
<1>7. stolen \in Nat /\ stolen <= stolen' /\ stolen' \in Nat
  BY SMTT(30) DEF DrmInv, DrmType
<1> QED BY <1>1, <1>2, <1>3, <1>4, <1>5, <1>6, <1>7, PaintedInv

LEMMA FromGemInv ==
  ASSUME DrmInv, NEW len \in Nat \ {0}, ~Full(dumb), FromGem(len),
         UNCHANGED <<i915, primary>>
  PROVE  DrmInv'
<1>1. CASE ~(stolen + len <= StolenUnits)
  <2>1. FromHeap(len) /\ UNCHANGED stolen
    BY <1>1 DEF FromGem
  <2> QED BY <2>1, FromHeapInv
<1>2. CASE stolen + len <= StolenUnits
  <2> DEFINE at == HeapUnits + stolen + 1
             new == [at |-> at, len |-> len]
  <2>1. Painted(at, len) /\ stolen' = stolen + len /\ heap' = heap
    BY <1>2 DEF FromGem
  <2>2. HeapUnits \in Nat /\ stolen \in Nat
    BY DrmConstants DEF DrmInv, DrmType
  <2>3. /\ at \in Nat \ {0} /\ stolen' \in Nat /\ stolen <= stolen'
        /\ at > HeapUnits /\ at + len <= HeapUnits + stolen' + 1
    BY SMTT(30), <2>1, <2>2
  <2>4. ASSUME NEW b \in heap PROVE Apart(new, b)
    <3>1. b.at + b.len <= HeapUnits + 1 /\ b.at \in Nat /\ b.len \in Nat
      BY DEF DrmInv, DrmType, PieceType
    <3> QED BY SMTT(30), <2>2, <3>1 DEF Apart
  <2>5. ASSUME NEW i \in InTable, InStolen(dumb[i]) PROVE Apart(new, dumb[i])
    <3>1. dumb[i].at \in Nat /\ dumb[i].len \in Nat
      BY DEF DrmInv, DrmType, InTable
    <3> QED BY <2>2, <2>5, <3>1 DEF InStolen, Apart
  <2>6. heap \subseteq heap' /\ heap' \subseteq PieceType
        /\ (\A b \in heap' : b.at + b.len <= HeapUnits + 1)
        /\ (\A b, c \in heap' : b # c => Apart(b, c))
    BY <2>1 DEF DrmInv, DrmType
  <2> HIDE DEF at
  <2> QED BY <2>1, <2>3, <2>4, <2>5, <2>6, PaintedInv
<1> QED BY <1>1, <1>2

LEMMA CreateDumbInv ==
  ASSUME DrmInv, NEW size \in Pictures, CreateDumb(size) PROVE DrmInv'
<1> DEFINE len == size[1] * size[2]
<1>1. len \in Nat \ {0}
  BY PictureUnits
<1>2. ~Full(dumb) /\ UNCHANGED <<i915, primary>>
  BY DEF CreateDumb
<1>3. FromGem(len) \/ (FromHeap(len) /\ UNCHANGED stolen)
  BY DEF CreateDumb
<1> HIDE DEF len
<1> QED BY <1>1, <1>2, <1>3, FromHeapInv, FromGemInv

LEMMA DestroyDumbInv ==
  ASSUME DrmInv, NEW h \in 1 .. NDumb, DestroyDumb(h) PROVE DrmInv'
<1>1. dumb \in [1 .. NDumb -> [used : BOOLEAN, at : Nat, len : Nat]]
  BY DEF DrmInv, DrmType
<1>2. /\ h \in InTable /\ UNCHANGED <<i915, stolen, primary>>
      /\ dumb' = [dumb EXCEPT ![h] = NoBuffer]
      /\ heap' \subseteq heap /\ \A b \in heap : b.at # dumb[h].at => b \in heap'
  BY DEF DestroyDumb, InTable
<1>3. InTable' = InTable \ {h} /\ \A i \in InTable' : dumb'[i] = dumb[i]
  BY <1>1, <1>2 DEF InTable, NoBuffer
<1>4. DrmType'
  BY <1>1, <1>2 DEF DrmInv, DrmType, NoBuffer
<1>5. ASSUME NEW i \in InTable', PieceOf(dumb[i]) \in heap PROVE PieceOf(dumb[i]) \in heap'
  <2>1. i \in InTable /\ i # h
    BY <1>3
  <2>2. PieceOf(dumb[i]) \in PieceType /\ PieceOf(dumb[h]) \in PieceType /\ Apart(dumb[i], dumb[h])
    BY <1>2, <2>1 DEF DrmInv
  <2>3. dumb[i].at # dumb[h].at
    BY SMTT(30), <2>2 DEF Apart, PieceOf, PieceType
  <2> QED BY <1>2, <1>5, <2>3 DEF PieceOf
<1>6. ASSUME primary'.at > 0 PROVE PrimaryPiece' \in heap'
  <2>1. PrimaryPiece' = PrimaryPiece /\ PrimaryPiece \in heap /\ Apart(dumb[h], PrimaryPiece)
    BY <1>2, <1>6 DEF DrmInv, PrimaryPiece
  <2>2. PieceOf(dumb[h]) \in PieceType /\ PrimaryPiece \in PieceType
    BY <1>2, <2>1 DEF DrmInv, DrmType
  <2>3. PrimaryPiece.at # dumb[h].at
    BY SMTT(30), <2>1, <2>2 DEF Apart, PieceOf, PieceType
  <2> QED BY <1>2, <2>1, <2>3
<1>7. \A i \in InTable' : /\ PieceOf(dumb'[i]) \in PieceType
                          /\ PieceOf(dumb'[i]) \in heap' \/ InStolen(dumb[i])'
  <2> TAKE i \in InTable'
  <2>1. i \in InTable /\ dumb'[i] = dumb[i]
    BY <1>3
  <2> QED BY <1>2, <1>5, <2>1 DEF DrmInv, InStolen
<1>8. primary'.at > 0 => \A i \in InTable' : Apart(dumb'[i], PrimaryPiece')
  BY <1>2, <1>3 DEF DrmInv, PrimaryPiece
<1> QED BY <1>2, <1>3, <1>4, <1>6, <1>7, <1>8 DEF DrmInv

LEMMA SwitchPrimaryInv ==
  ASSUME DrmInv, SwitchPrimary PROVE DrmInv'
<1> DEFINE len == GpuPicture[1] * GpuPicture[2]
<1>1. len \in Nat \ {0} /\ GpuPicture[1] \in Nat /\ GpuPicture[2] \in Nat
  BY PictureUnits, DrmConstants
<1>2. PICK at \in Places(len) :
        /\ primary' = [used |-> TRUE, at |-> at, w |-> GpuPicture[1], h |-> GpuPicture[2]]
        /\ heap' = heap \union {[at |-> at, len |-> len]}
  BY DEF SwitchPrimary
<1>3. PrimaryPiece' = [at |-> at, len |-> len]
  BY <1>2 DEF PrimaryPiece
<1> HIDE DEF len
<1>4. /\ at \in Nat \ {0} /\ at + len <= HeapUnits + 1
      /\ \A b \in heap : Apart([at |-> at, len |-> len], b)
  BY <1>1, <1>2, PlaceIsFree
<1>5. InTable = {} /\ InTable' = {} /\ UNCHANGED <<i915, stolen, dumb>>
  BY DEF SwitchPrimary, InTable, NoBuffer
<1>6. DrmType'
  BY SMTT(30), <1>1, <1>2, <1>4, <1>5 DEF DrmInv, DrmType, PieceType
<1>7. \A b \in heap : Apart(b, [at |-> at, len |-> len])
  BY <1>4 DEF Apart
<1>8. /\ \A b \in heap' : b.at + b.len <= HeapUnits + 1
      /\ \A b, c \in heap' : b # c => Apart(b, c)
  <2> DEFINE new == [at |-> at, len |-> len]
  <2>1. new.at + new.len <= HeapUnits + 1
    BY <1>4
  <2>2. heap' = heap \union {new}
    BY <1>2
  <2>3. /\ \A b \in heap : Apart(new, b) /\ Apart(b, new) /\ b.at + b.len <= HeapUnits + 1
        /\ \A b, c \in heap : b # c => Apart(b, c)
    BY <1>4, <1>7 DEF DrmInv
  <2> HIDE DEF new
  <2>4. \A b \in heap' : b.at + b.len <= HeapUnits + 1
    BY <2>1, <2>2, <2>3
  <2>5. \A b, c \in heap' : b # c => Apart(b, c)
    BY <2>2, <2>3
  <2> QED BY <2>4, <2>5
<1>9. PrimaryPiece' \in heap'
  BY <1>2, <1>3
<1>10. /\ \A i \in InTable' : /\ PieceOf(dumb'[i]) \in PieceType
                              /\ PieceOf(dumb'[i]) \in heap' \/ InStolen(dumb[i])'
       /\ \A i, j \in InTable' : i # j => Apart(dumb'[i], dumb'[j])
       /\ \A i \in InTable' : Apart(dumb'[i], PrimaryPiece')
  BY <1>5
<1> QED BY <1>6, <1>8, <1>9, <1>10 DEF DrmInv

LEMMA DrmNextInv == DrmInv /\ [DrmNext]_drmvars => DrmInv'
<1> SUFFICES ASSUME DrmInv, [DrmNext]_drmvars PROVE DrmInv'
  OBVIOUS
<1>1. ASSUME UNCHANGED <<i915, heap, stolen, dumb, primary>> PROVE DrmInv'
  BY <1>1 DEF DrmInv, DrmType, InTable, PieceOf, InStolen, PrimaryPiece
<1>2. CASE \E size \in Pictures : CreateDumb(size)
  BY <1>2, CreateDumbInv
<1>3. CASE \E h \in 1 .. NDumb : DestroyDumb(h)
  BY <1>3, DestroyDumbInv
<1>4. CASE \E h \in 1 .. NDumb, size \in Pictures : AddFb2(h, size)
  BY <1>1, <1>4 DEF AddFb2
<1>5. CASE \E id \in FbIds : RmFb(id)
  BY <1>1, <1>5 DEF RmFb
<1>6. CASE \E id \in FbIds \union {PrimaryId}, x \in {0, 1}, m \in modes \union Pictures :
             SetCrtc(id, x, 0, m)
  BY <1>1, <1>6 DEF SetCrtc
<1>7. CASE SwitchPrimary
  BY <1>7, SwitchPrimaryInv
<1>8. CASE UNCHANGED drmvars
  BY <1>1, <1>8 DEF drmvars
<1> QED BY <1>2, <1>3, <1>4, <1>5, <1>6, <1>7, <1>8 DEF DrmNext

LEMMA DrmInvApart == DrmInv => BuffersApart
<1> SUFFICES ASSUME DrmInv PROVE BuffersApart
  OBVIOUS
<1> DEFINE mem(i) == Units(MmapFb(i), dumb[i].len)
           blocks == UNION {Units(b.at, b.len) : b \in heap}
           held == blocks \union Units(HeapUnits + 1, stolen)
<1>1. ASSUME NEW i \in InTable
      PROVE  /\ mem(i) = Units(dumb[i].at, dumb[i].len)
             /\ dumb[i].at \in Nat \ {0} /\ dumb[i].len \in Nat \ {0}
  <2>1. PieceOf(dumb[i]) \in PieceType
    BY DEF DrmInv
  <2>2. i # 0 /\ NDumb \in Nat
    BY SMTT(30), DrmConstants DEF InTable
  <2> QED BY <2>1, <2>2 DEF PieceOf, PieceType, MmapFb, InTable
<1>2. ASSUME NEW i \in InTable PROVE mem(i) \subseteq held
  <2>1. CASE PieceOf(dumb[i]) \in heap
    <3>1. Units(PieceOf(dumb[i]).at, PieceOf(dumb[i]).len) \subseteq held
      BY <2>1
    <3> QED BY <1>1, <3>1 DEF PieceOf
  <2>2. CASE InStolen(dumb[i])
    <3>1. HeapUnits \in Nat /\ stolen \in Nat
      BY DrmConstants DEF DrmInv, DrmType
    <3> HIDE DEF blocks
    <3>2. Units(dumb[i].at, dumb[i].len) \subseteq Units(HeapUnits + 1, stolen)
      BY SMTT(30), <1>1, <2>2, <3>1 DEF InStolen, Units
    <3>3. Units(HeapUnits + 1, stolen) \subseteq held
      OBVIOUS
    <3> QED BY <1>1, <3>2, <3>3
  <2> QED BY <2>1, <2>2 DEF DrmInv
<1>3. ASSUME NEW i \in InTable, NEW j \in InTable \ {i} PROVE mem(i) \intersect mem(j) = {}
  <2>1. Apart(dumb[i], dumb[j])
    BY DEF DrmInv
  <2> QED BY SMTT(30), <1>1, <2>1, UnitsApart DEF Apart
<1>4. ASSUME primary.at > 0, NEW i \in InTable
      PROVE  mem(i) \intersect Units(primary.at, primary.w * primary.h) = {}
  <2>1. PrimaryPiece \in PieceType /\ Apart(dumb[i], PrimaryPiece)
    BY <1>4 DEF DrmInv, DrmType
  <2>2. primary.at \in Nat /\ primary.w * primary.h \in Nat \ {0}
    BY <2>1 DEF PrimaryPiece, PieceType
  <2>3. \/ dumb[i].at + dumb[i].len <= primary.at
        \/ primary.at + primary.w * primary.h <= dumb[i].at
    BY <2>1 DEF Apart, PrimaryPiece
  <2> DEFINE n == primary.w * primary.h
  <2> HIDE DEF n
  <2> QED BY <1>1, <2>2, <2>3, UnitsApart DEF n
<1> HIDE DEF mem, held, blocks
<1>5. \A i \in InTable : /\ mem(i) \subseteq held
                         /\ \A j \in InTable \ {i} : mem(i) \intersect mem(j) = {}
                         /\ primary.at > 0 =>
                              mem(i) \intersect Units(primary.at, primary.w * primary.h) = {}
  BY <1>2, <1>3, <1>4
<1>6. InTable = {i \in 1 .. NDumb : dumb[i].used}
  BY DEF InTable
<1>7. /\ \A i : mem(i) = Units(MmapFb(i), dumb[i].len)
      /\ held = (UNION {Units(b.at, b.len) : b \in heap}) \union Units(HeapUnits + 1, stolen)
  BY DEF mem, held, blocks
<1> QED BY <1>5, <1>6, <1>7, ZenonT(60) DEF BuffersApart

\* Through any sequence of creating and destroying dumb buffers and of switching
\* the primary framebuffer, with stolen memory or without, every buffer a handle
\* names has memory that is given out to it and to nothing else (create_dumb,
\* destroy_dumb, i915_gem_create, drm_switch_fb).
THEOREM DrmBuffersApart == DrmSpec => []BuffersApart
<1>1. DrmInit => DrmInv
  BY DrmInitInv
<1>2. DrmInv /\ [DrmNext]_drmvars => DrmInv'
  BY DrmNextInv
<1>3. DrmInv => BuffersApart
  BY DrmInvApart
<1> QED BY <1>1, <1>2, <1>3, PTL DEF DrmSpec
=============================================================================
