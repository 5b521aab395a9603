--------------------------------- MODULE Tui ---------------------------------
(***************************************************************************)
(* The terminal UI of src/src/tui.rs: the scroll state Tui keeps between  *)
(* frames, resize, and draw with the layout of its three areas: the text *)
(* (draw_text), the select list (draw_select) and the status bar.  The    *)
(* styling (colours, token kinds, selections, search highlights) is left  *)
(* out: it never moves the terminal's cursor.  What is kept is where each *)
(* print and each MoveToNextLine leaves that cursor, with the terminal's  *)
(* own autowrap, so that the rows each area really takes can be compared *)
(* with the rows draw gives it.                                            *)
(*                                                                         *)
(* A buffer line is a sequence of "c" (a character one cell wide) and "t" *)
(* (a tab).                                                                *)
(***************************************************************************)
EXTENDS Integers, Sequences

CONSTANTS
    Docs,        \* the buffers a client may show: sequences of lines
    Sizes,       \* the terminal sizes [width, height] resize receives
    TabSizes,    \* config.values.tab_size
    MaxSelect    \* bound on client.select_entries.len()

VARIABLES
    textScroll,     \* Tui.text_scroll
    selectScroll,   \* Tui.select_scroll
    width,          \* Tui.width
    height,         \* Tui.height
    frame           \* the layout the last draw produced

vars == <<textScroll, selectScroll, width, height, frame>>

U16 == 2^16

MinOf(a, b) == IF a < b THEN a ELSE b

NoFrame == [textHeight |-> 0, textRows |-> 0, cursorRow |-> -2,
            selectHeight |-> 0, selectRows |-> 0]

(* Tui::new, then init, which enters the alternate screen and resizes to  *)
(* terminal::size().                                                       *)
Init ==
    /\ textScroll = 0 /\ selectScroll = 0
    /\ \E s \in Sizes : width = s.width /\ height = s.height
    /\ frame = NoFrame

Resize(s) ==
    /\ width' = s.width /\ height' = s.height
    /\ UNCHANGED <<textScroll, selectScroll, frame>>

(***************************************************************************)
(* The terminal.  A print of k cells from column r of row R: the cells    *)
(* fill the row up to its last column, where the cursor waits; the next  *)
(* cell wraps to the start of the next row.  MoveToNextLine goes to       *)
(* column 0 of the next row.                                               *)
(***************************************************************************)
Put(t, k, w) ==
    [t EXCEPT !.row = @ + (t.col + k - 1) \div w,
              !.col = ((t.col + k - 1) % w) + 1]

NextLine(t) == [t EXCEPT !.row = @ + 1, !.col = 0]

(* The row the first of the next cells lands on. *)
CellRow(t, w) == IF t.col = w THEN t.row + 1 ELSE t.row

(* The cells a character prints, and how far it moves x: a tab prints    *)
(* visual_tab_first and (tab_size - 1) - x % tab_size repeats, and adds   *)
(* tab_size to x.                                                          *)
Cells(c, x, ts) == IF c = "t" THEN ts - (x % ts) ELSE 1

Width(c, ts) == IF c = "t" THEN ts ELSE 1

(***************************************************************************)
(* draw_text, one character at a time.  The state t carries the terminal *)
(* cursor (row, col), the loop's x, drawn_line_count, the line and column *)
(* index, the row the main cursor's character was printed on (or -1) and *)
(* whether 'lines_loop was left.  The line's characters are followed by  *)
(* the '\0' that prints the end-of-line cell.                              *)
(***************************************************************************)
RECURSIVE DrawChars(_, _, _, _, _, _)
DrawChars(t, cs, w, h, ts, cur) ==
    IF cs = <<>> THEN t
    ELSE LET wrap == t.x >= w
             t1 == IF wrap
                   THEN [NextLine(t) EXCEPT !.drawn = @ + 1, !.x = @ - w]
                   ELSE t
             c == Head(cs)
             t2 == [Put(t1, Cells(c, t1.x, ts), w)
                        EXCEPT !.x = t1.x + Width(c, ts),
                               !.column = @ + 1,
                               !.cursorRow =
                                   IF <<t1.line, t1.column>> = cur
                                   THEN CellRow(t1, w) ELSE @]
         IN  IF wrap /\ t1.drawn >= h THEN [t1 EXCEPT !.done = TRUE]
             ELSE DrawChars(t2, Tail(cs), w, h, ts, cur)

RECURSIVE DrawLines(_, _, _, _, _, _)
DrawLines(t, ls, w, h, ts, cur) ==
    IF ls = <<>> THEN t
    ELSE LET t1 == DrawChars([t EXCEPT !.x = 0, !.column = 0],
                             Append(Head(ls), "0"), w, h, ts, cur)
             t2 == [NextLine(t1) EXCEPT !.line = @ + 1, !.drawn = @ + 1]
         IN  IF t1.done THEN t1
             ELSE IF t2.drawn >= h THEN t2
             ELSE DrawLines(t2, Tail(ls), w, h, ts, cur)

(* The rows draw_text takes from row 0: the lines from scroll on, then    *)
(* one visual_empty row for each of drawn_line_count..height.              *)
DrawText(doc, scroll, w, h, ts, cur) ==
    LET t0 == [row |-> 0, col |-> 0, x |-> 0, drawn |-> 0, line |-> scroll,
               column |-> 0, cursorRow |-> -1, done |-> FALSE]
        ls == IF scroll < Len(doc) THEN SubSeq(doc, scroll + 1, Len(doc)) ELSE <<>>
        t == DrawLines(t0, ls, w, h, ts, cur)
    IN  [rows |-> t.row + (IF t.drawn < h THEN h - t.drawn ELSE 0),
         cursorRow |-> t.cursorRow]

(* The rows draw_select prints: the entries from scroll on, at most      *)
(* height of them.                                                         *)
SelectRows(count, scroll, h) ==
    MinOf(h, IF count > scroll THEN count - scroll ELSE 0)

(* Tui::draw: text_height = height - 1 (a u16), the select list takes up  *)
(* to half of it when the client has focus, the scrolls follow the main   *)
(* cursor and the selected entry, then the three areas are drawn.         *)
Draw(doc, cur, count, selected, hasFocus, ts) ==
    LET th0 == (height + U16 - 1) % U16
        selectCount == IF hasFocus THEN count ELSE 0
        selectHeight == MinOf(selectCount, th0 \div 2)
        th == th0 - selectHeight
        ts1 == IF cur[1] < textScroll THEN cur[1]
               ELSE IF cur[1] >= textScroll + th THEN cur[1] + 1 - th
               ELSE textScroll
        ss1 == IF selected < selectScroll THEN selected
               ELSE IF selected >= selectScroll + selectHeight
                    THEN selected + 1 - selectHeight
               ELSE selectScroll
        text == DrawText(doc, ts1, width, th, ts, cur)
    IN  /\ textScroll' = ts1
        /\ selectScroll' = ss1
        /\ frame' = [textHeight |-> th, textRows |-> text.rows,
                     cursorRow |-> text.cursorRow, selectHeight |-> selectHeight,
                     selectRows |-> SelectRows(count, ss1, selectHeight)]
        /\ UNCHANGED <<width, height>>

(* The positions the main cursor may be at in a buffer. *)
Positions(doc) == UNION {{<<l, c>> : c \in 0..Len(doc[l + 1])} : l \in 0..Len(doc) - 1}

Next ==
    \/ \E s \in Sizes : Resize(s)
    \/ \E doc \in Docs, ts \in TabSizes, count \in 0..MaxSelect, f \in BOOLEAN :
          \E cur \in Positions(doc), sel \in 0..(IF count > 0 THEN count - 1 ELSE 0) :
              Draw(doc, cur, count, sel, f, ts)

Spec == Init /\ [][Next]_vars

(***************************************************************************)
(* Properties.                                                             *)
(***************************************************************************)

TypeOK ==
    /\ textScroll \in Nat /\ selectScroll \in Nat
    /\ [width |-> width, height |-> height] \in Sizes
    /\ frame.textRows \in Nat /\ frame.selectRows \in Nat

(* Every frame is laid out as draw divides the screen: the text takes    *)
(* exactly text_height rows and shows the main cursor's character in one *)
(* of them (when it has any), the select list takes exactly              *)
(* select_height rows, so the status bar lands on the last row.  draw    *)
(* counts rows in buffer lines and entries, draw_text by its own x and    *)
(* drawn_line_count; the property asks whether the terminal agrees.       *)
FrameLaidOut ==
    frame # NoFrame =>
        /\ frame.textRows = frame.textHeight
        /\ frame.textHeight > 0 => frame.cursorRow \in 0..frame.textHeight - 1
        /\ frame.selectRows = frame.selectHeight

=============================================================================
