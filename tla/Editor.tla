------------------------------- MODULE Editor -------------------------------
(***************************************************************************)
(* The text editor, apps/core/editor.c: its lines, its cursor and its two  *)
(* modes, one action per key or command. The text of a line is the first   *)
(* len characters of its array. Drawing is left out.                       *)
(*                                                                         *)
(* The library's memmove to a higher address moves the bytes one place too *)
(* far (lib/string.c): insert_char and insert_newline are modelled with    *)
(* what it does. Where memory outside the lines decides, with the cursor   *)
(* above or left of the text or with a memmove into the length field, the  *)
(* model stops (wild).                                                     *)
(***************************************************************************)
EXTENDS Integers, Sequences, SequencesExt

CONSTANTS MaxLines,    \* MAX_LINES
          LineLen,     \* MAX_LINE_LEN
          FileBuffer,  \* the bytes load_file reads at most
          Letters,     \* characters that are typed
          Texts,       \* files there are to edit
          MaxEdits     \* bound: keys that change the text

VARIABLES ed,    \* the lines, cursor_row, cursor_col, insert_mode and modified
          edfile, \* the file on disk
          edat,  \* "edit", "wild", "done"
          edits  \* keys that changed the text

edvars == <<ed, edfile, edat, edits>>

Newline == "nl"

Lesser(a, b) == IF a < b THEN a ELSE b

\* What save_file writes.
Written(lines) == FoldLeft(LAMBDA out, line : out \o <<Newline>> \o line,
                           Head(lines), Tail(lines))

\* The loop of load_file over the bytes it has read.
Split(text) ==
    LET ends == SetToSortSeq({i \in DOMAIN text : text[i] = Newline} \union {Len(text) + 1},
                             <)
        line(k) == SubSeq(text, IF k = 1 THEN 1 ELSE ends[k - 1] + 1, ends[k] - 1)
    IN  [k \in 1 .. Lesser(Len(ends), MaxLines) |->
            SubSeq(line(k), 1, Lesser(Len(line(k)), LineLen - 1))]

LoadFile(text) == Split(SubSeq(text, 1, Lesser(Len(text), FileBuffer)))

\* main, up to its loop.
EdInit ==
    /\ edfile \in Texts
    /\ ed = [lines |-> LoadFile(edfile), row |-> 1, col |-> 0, insert |-> FALSE,
             modified |-> FALSE]
    /\ edat = "edit"
    /\ edits = 0

-----------------------------------------------------------------------------
(* Editing. The first line is 1, the first column 0.                       *)

CursorLine(e) == e.lines[e.row]

\* clamp_cursor: from above and from the right only. The column is looked up
\* in the line, so the row has to be one.
ClampCursor(e) ==
    LET row == Lesser(e.row, Len(e.lines))
    IN  [e EXCEPT !.row = row, !.col = Lesser(e.col, Len(e.lines[row]))]

\* insert_char: the lines it may leave. Before another character, that one is
\* lost and the one after it doubled; past the last one lies the line's end or
\* what was there before.
InsertChar(e, c) ==
    LET line == CursorLine(e)
        before == SubSeq(line, 1, e.col)
        after == SubSeq(line, e.col + 2, Len(line))
        doubled == IF e.col = Len(line) THEN {<<>>}
                   ELSE IF after # <<>> THEN {<<Head(after)>>}
                   ELSE {<<x>> : x \in Letters \union {"nul"}}
    IN  {[e EXCEPT !.lines[e.row] = before \o <<c>> \o d \o after,
                   !.col = @ + 1, !.modified = TRUE] : d \in doubled}

DeleteChar(e) ==
    IF e.col >= Len(CursorLine(e)) THEN e
    ELSE [e EXCEPT !.lines[e.row] = RemoveAt(@, e.col + 1), !.modified = TRUE]

InsertNewline(e) ==
    IF Len(e.lines) >= MaxLines - 1 THEN e
    ELSE LET left == SubSeq(CursorLine(e), 1, e.col)
             right == SubSeq(CursorLine(e), e.col + 1, Len(CursorLine(e)))
         IN  [e EXCEPT !.lines = InsertAt([@ EXCEPT ![e.row] = left], e.row + 1, right),
                       !.row = @ + 1, !.col = 0, !.modified = TRUE]

BackspaceLosesLine(e) ==
    LET prev == e.lines[e.row - 1]
    IN  IF e.col > 0 THEN DeleteChar([e EXCEPT !.col = @ - 1])
        ELSE IF e.row = 1 \/ Len(prev) + Len(CursorLine(e)) >= LineLen THEN e
        ELSE [e EXCEPT !.lines = RemoveAt(@, e.row),
                       !.row = @ - 1, !.col = Len(prev), !.modified = TRUE]

\* backspace: in the first column the line joins the one above, if it fits.
Backspace(e) ==
    LET prev == e.lines[e.row - 1]
    IN  IF e.col > 0 THEN DeleteChar([e EXCEPT !.col = @ - 1])
        ELSE IF e.row = 1 \/ Len(prev) + Len(CursorLine(e)) >= LineLen THEN e
        ELSE [e EXCEPT !.lines = RemoveAt([@ EXCEPT ![e.row - 1] = prev \o CursorLine(e)], e.row),
                       !.row = @ - 1, !.col = Len(prev), !.modified = TRUE]

-----------------------------------------------------------------------------
(* Keys, as main reads them.                                               *)

Typing == edat = "edit" /\ ed.insert

Commanding == edat = "edit" /\ ~ed.insert

Counted == edits < MaxEdits /\ edits' = edits + 1

\* A character; one more in a full line is refused, and the last one that fits
\* has memmove write into the length.
TypeChar(c) ==
    /\ Typing /\ Counted
    /\ IF Len(CursorLine(ed)) >= LineLen - 1 THEN UNCHANGED <<ed, edat>>
       ELSE IF Len(CursorLine(ed)) = LineLen - 2 THEN edat' = "wild" /\ UNCHANGED ed
       ELSE (\E e \in InsertChar(ed, c) : ed' = ClampCursor(e)) /\ UNCHANGED edat
    /\ UNCHANGED edfile

TypeEnter ==
    /\ Typing /\ Counted
    /\ ed' = ClampCursor(InsertNewline(ed))
    /\ UNCHANGED <<edfile, edat>>

TypeBackspace ==
    /\ Typing /\ Counted
    /\ ed' = ClampCursor(Backspace(ed))
    /\ UNCHANGED <<edfile, edat>>

\* The escape key; an arrow key sends it with two more characters, which are
\* taken for it when they come within 50 ms.
Escape ==
    /\ edat = "edit"
    /\ ed' = [ed EXCEPT !.insert = FALSE]
    /\ UNCHANGED <<edfile, edat, edits>>

KeyI ==
    /\ Commanding
    /\ ed' = [ed EXCEPT !.insert = TRUE]
    /\ UNCHANGED <<edfile, edat, edits>>

KeyX ==
    /\ Commanding /\ Counted
    /\ ed' = DeleteChar(ed)
    /\ UNCHANGED <<edfile, edat>>

\* h, j, k, l, or an arrow key in either mode.
MoveCursor(drow, dcol) ==
    /\ edat = "edit"
    /\ IF ed.row + drow < 1 \/ ed.col + dcol < 0
       THEN edat' = "wild" /\ UNCHANGED ed
       ELSE /\ ed' = ClampCursor([ed EXCEPT !.row = @ + drow, !.col = @ + dcol])
            /\ UNCHANGED edat
    /\ UNCHANGED <<edfile, edits>>

\* save_file when the file can be opened, and then written to the end.
SaveFile == edfile' = Written(ed.lines) /\ ed' = [ed EXCEPT !.modified = FALSE]

CommandW(opens) ==
    /\ Commanding
    /\ IF opens THEN SaveFile ELSE UNCHANGED <<ed, edfile>>
    /\ UNCHANGED <<edat, edits>>

CommandWq(opens) ==
    /\ Commanding
    /\ IF opens THEN SaveFile ELSE UNCHANGED <<ed, edfile>>
    /\ edat' = "done"
    /\ UNCHANGED edits

CommandQ(force) ==
    /\ Commanding
    /\ force \/ ~ed.modified
    /\ edat' = "done"
    /\ UNCHANGED <<ed, edfile, edits>>

\* The editor is started again on the file it saved.
Again ==
    /\ edat = "done"
    /\ ed' = [lines |-> LoadFile(edfile), row |-> 1, col |-> 0, insert |-> FALSE,
              modified |-> FALSE]
    /\ edat' = "edit"
    /\ UNCHANGED <<edfile, edits>>

EdNext ==
    \/ \E c \in Letters : TypeChar(c)
    \/ TypeEnter \/ TypeBackspace \/ Escape \/ KeyI \/ KeyX
    \/ \E d \in {<<-1, 0>>, <<1, 0>>, <<0, -1>>, <<0, 1>>} : MoveCursor(d[1], d[2])
    \/ \E opens \in BOOLEAN : CommandW(opens) \/ CommandWq(opens)
    \/ \E force \in BOOLEAN : CommandQ(force)
    \/ Again

EdSpec == EdInit /\ [][EdNext]_edvars

-----------------------------------------------------------------------------
(* Properties.                                                             *)

\* The place of the cursor in the text as one sequence of characters.
Offset(e) == Len(Written(SubSeq(e.lines, 1, e.row - 1) \o <<<<>>>>)) + e.col

Fits(text) ==
    /\ Len(text) <= FileBuffer
    /\ LoadFile(text) = Split(text) /\ Written(Split(text)) = text

\* Seen as one text, a key changes at most the character at the cursor: it puts
\* one in before it, or takes one out there, a line's end being a character too
\* (insert_char before another character excepted: it adds one, but loses that
\* other). And whenever the editor could be left by :q, or was just started
\* again, the text is the file, as long as it fits load_file's buffer and lines.
KeysEditText ==
    [][/\ edat = "edit" /\ edat' = "edit" =>
            LET old == Written(ed.lines)
                new == Written(ed'.lines)
                off == Offset(ed)
            IN  \/ new = old
                \/ \E c \in Letters \union {Newline} : new = InsertAt(old, off + 1, c)
                \/ off > 0 /\ new = RemoveAt(old, off)
                \/ off < Len(old) /\ new = RemoveAt(old, off + 1)
                \/ ed.col < Len(CursorLine(ed)) /\ Len(new) = Len(old) + 1
       /\ edat' # "wild" /\ ~ed'.modified /\ Fits(edfile') =>
            Written(ed'.lines) = edfile'
      ]_edvars
=============================================================================
