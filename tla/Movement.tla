------------------------------ MODULE Movement --------------------------------
(***************************************************************************)
(* The movement engine: BufferView::move_cursors (buffer_view.rs:56-306)   *)
(* on the cursors of one view of a buffer whose content does not change    *)
(* while they move.                                                        *)
(*                                                                         *)
(*   content  the buffer's lines (a sequence of character sequences);      *)
(*   cursors  the view's CursorCollection, sorted and merged;              *)
(*   saved    the collection's saved column indices, <<>> when there are   *)
(*            none.                                                        *)
(*                                                                         *)
(* The word iterator (word_database.rs) and the cursor collection          *)
(* (cursor.rs) are not in src/; they are written from spec 4.E and 4.G.    *)
(* Characters are one byte, so byte and char columns coincide.            *)
(***************************************************************************)
EXTENDS Naturals, Sequences, SequencesExt, FiniteSets, BufferContent, CursorCollection

CONSTANTS
    Contents,     \* the buffer contents the view may be on
    MaxCount,     \* bound on the count n of a counted movement
    MaxCursors    \* bound on the cursors of the view

VARIABLES content, cursors, saved

vars == <<content, cursors, saved>>

(***************************************************************************)
(* WordIter: the words of a text, runs of identifier characters, runs of   *)
(* symbol characters and runs of whitespace (spec 4.G), as [kind, len].    *)
(***************************************************************************)
CharKind(ch) ==
    IF ch = " " THEN "Whitespace"
    ELSE IF ch \in {".", ","} THEN "Symbol"
    ELSE "Identifier"

RECURSIVE WordIter(_)
WordIter(s) ==
    IF s = <<>> THEN <<>>
    ELSE LET k    == CharKind(Head(s))
             rest == WordIter(Tail(s))
         IN  IF rest # <<>> /\ rest[1].kind = k
             THEN <<[kind |-> k, len |-> rest[1].len + 1]>> \o Tail(rest)
             ELSE <<[kind |-> k, len |-> 1]>> \o rest

(* Where word k of ws starts, counted from the start of the text. *)
WordStart(ws, k) == FoldLeft(LAMBDA acc, w : acc + w.len, 0, SubSeq(ws, 1, k - 1))

(* The indices, from first on, of the words of ws that are not           *)
(* whitespace, in order.                                                  *)
NonWhitespace(ws, first) ==
    SelectSeq([j \in 1 .. Len(ws) + 1 - first |-> j + first - 1],
              LAMBDA k : ws[k].kind # "Whitespace")

LineLen(ls, l) == Len(ls[l + 1])

LastLine(ls) == Len(ls) - 1

(***************************************************************************)
(* One cursor position p moved by each movement, as the code's loops move  *)
(* it.  try_nth(iter, n) is Ok(item n) when the iterator has more than n   *)
(* items, else Err(n - items).                                             *)
(***************************************************************************)

(* ColumnsForward, the loop over the following lines with m left. *)
RECURSIVE ColumnsForwardLoop(_, _, _)
ColumnsForwardLoop(ls, l, m) ==
    IF l = LastLine(ls) THEN Pos(l, LineLen(ls, l))
    ELSE IF m < LineLen(ls, l + 1) THEN Pos(l + 1, m)
    ELSE IF m = LineLen(ls, l + 1) THEN Pos(l + 1, m)
    ELSE ColumnsForwardLoop(ls, l + 1, m - LineLen(ls, l + 1) - 1)

ColumnsForward(ls, p, n) ==
    LET rest == LineLen(ls, p.line) - p.col
    IN  IF n < rest THEN Pos(p.line, p.col + n)
        ELSE IF n = rest THEN Pos(p.line, LineLen(ls, p.line))
        ELSE ColumnsForwardLoop(ls, p.line, n - rest - 1)

(* ColumnsBackward, the loop over the preceding lines with m left. *)
RECURSIVE ColumnsBackwardLoop(_, _, _)
ColumnsBackwardLoop(ls, l, m) ==
    IF l = 0 THEN Pos(0, 0)
    ELSE IF m < LineLen(ls, l - 1) THEN Pos(l - 1, LineLen(ls, l - 1) - 1 - m)
    ELSE IF m = LineLen(ls, l - 1)
         THEN IF l - 1 = 0 THEN Pos(0, 0) ELSE Pos(l - 2, LineLen(ls, l - 2))
    ELSE ColumnsBackwardLoop(ls, l - 1, m - LineLen(ls, l - 1) - 1)

(* n >= 1: ColumnsBackward(0) returns from move_cursors before the loop. *)
ColumnsBackward(ls, p, n) ==
    IF n - 1 < p.col THEN Pos(p.line, p.col - 1 - (n - 1))
    ELSE IF n - 1 = p.col
         THEN IF p.line = 0 THEN Pos(0, 0) ELSE Pos(p.line - 1, LineLen(ls, p.line - 1))
    ELSE ColumnsBackwardLoop(ls, p.line, n - 1 - p.col - 1)

(* LinesForward and LinesBackward: the line saturated, the saved column   *)
(* restored if there is one, and the position saturated.                  *)
RestoreColumn(ls, l, c, s) == ClampPosition(ls, Pos(l, IF s = <<>> THEN c ELSE s[1]))

LinesForward(ls, p, n, s) ==
    RestoreColumn(ls, IF p.line + n < LastLine(ls) THEN p.line + n ELSE LastLine(ls), p.col, s)

LinesBackward(ls, p, n, s) ==
    RestoreColumn(ls, IF p.line > n THEN p.line - n ELSE 0, p.col, s)

(* A mutant of WordsForward that forgets skip(1), so a cursor at a word's  *)
(* start stays there.                                                      *)
RECURSIVE WordsForwardNoSkip(_, _, _, _)
WordsForwardNoSkip(ls, l, c, n) ==
    IF n = 0 THEN Pos(l, c)
    ELSE IF c = LineLen(ls, l)
         THEN IF l = LastLine(ls) THEN Pos(l, c) ELSE WordsForwardNoSkip(ls, l + 1, 0, n - 1)
    ELSE LET ws   == WordIter(SubSeq(ls[l + 1], c + 1, LineLen(ls, l)))
             cand == NonWhitespace(ws, 1)
         IN  IF n - 1 < Len(cand) THEN Pos(l, c + WordStart(ws, cand[n]))
             ELSE WordsForwardNoSkip(ls, l, LineLen(ls, l), n - 1 - Len(cand))

(* WordsForward: the start of the n-th non-whitespace word after the one   *)
(* the cursor is in; reaching a line's end, and crossing to the next line, *)
(* take one step each.                                                     *)
RECURSIVE WordsForward(_, _, _, _)
WordsForward(ls, l, c, n) ==
    IF n = 0 THEN Pos(l, c)
    ELSE IF c = LineLen(ls, l)
         THEN IF l = LastLine(ls) THEN Pos(l, c) ELSE WordsForward(ls, l + 1, 0, n - 1)
    ELSE LET ws   == WordIter(SubSeq(ls[l + 1], c + 1, LineLen(ls, l)))
             cand == NonWhitespace(ws, 2)
         IN  IF n - 1 < Len(cand) THEN Pos(l, c + WordStart(ws, cand[n]))
             ELSE WordsForward(ls, l, LineLen(ls, l), n - 1 - Len(cand))

(* WordsBackward: the start of the n-th non-whitespace word before the     *)
(* cursor; a line that starts with whitespace counts its start as a step,  *)
(* and crossing to the previous line's end takes one more.                *)
RECURSIVE WordsBackward(_, _, _, _)
WordsBackward(ls, l, c, n) ==
    IF n = 0 THEN Pos(l, c)
    ELSE LET ws   == WordIter(SubSeq(ls[l + 1], 1, c))
             cand == Reverse(NonWhitespace(ws, 1))
             n1   == n - Len(cand)
             blank == ws # <<>> /\ ws[1].kind = "Whitespace"
             n2   == IF blank THEN n1 - 1 ELSE n1
         IN  IF n - 1 < Len(cand) THEN Pos(l, WordStart(ws, cand[n]))
             ELSE IF blank /\ n2 = 0 THEN Pos(l, 0)
             ELSE IF l = 0 THEN Pos(l, 0)
             ELSE WordsBackward(ls, l - 1, LineLen(ls, l - 1), n2 - 1)

(* HomeNonWhitespace: the length of the first word if it is whitespace.   *)
HomeNonWhitespace(ls, p) ==
    LET ws == WordIter(ls[p.line + 1])
    IN  Pos(p.line, IF ws # <<>> /\ ws[1].kind = "Whitespace" THEN ws[1].len ELSE 0)

(***************************************************************************)
(* The movements, each with its count.                                     *)
(***************************************************************************)
Counted == {"ColumnsForward", "ColumnsBackward", "LinesForward", "LinesBackward",
            "WordsForward", "WordsBackward"}

Uncounted == {"Home", "HomeNonWhitespace", "End", "FirstLine", "LastLine"}

Movements ==
    {[name |-> m, n |-> n] : m \in Counted, n \in 0 .. MaxCount}
        \cup {[name |-> m, n |-> 0] : m \in Uncounted}

Vertical == {"LinesForward", "LinesBackward"}

(* The saved column of cursor i: <<column>>, or <<>> for None. *)
SavedColumn(s, i) == IF i \in DOMAIN s THEN <<s[i]>> ELSE <<>>

(* The position p of cursor i moved by m on lines ls; s the saved columns. *)
Moved(ls, m, p, s, i) ==
    CASE m.name = "ColumnsForward"    -> ColumnsForward(ls, p, m.n)
      [] m.name = "ColumnsBackward"   -> ColumnsBackward(ls, p, m.n)
      [] m.name = "LinesForward"      -> LinesForward(ls, p, m.n, SavedColumn(s, i))
      [] m.name = "LinesBackward"     -> LinesBackward(ls, p, m.n, SavedColumn(s, i))
      [] m.name = "WordsForward"      -> WordsForward(ls, p.line, p.col, m.n)
      [] m.name = "WordsBackward"     -> WordsBackward(ls, p.line, p.col, m.n)
      [] m.name = "Home"              -> Pos(p.line, 0)
      [] m.name = "HomeNonWhitespace" -> HomeNonWhitespace(ls, p)
      [] m.name = "End"               -> Pos(p.line, LineLen(ls, p.line))
      [] m.name = "FirstLine"         -> ClampPosition(ls, Pos(0, p.col))
      [] m.name = "LastLine"          -> ClampPosition(ls, Pos(LastLine(ls), p.col))

(* CursorCollection::save_column_byte_indices: the columns of the cursors, *)
(* unless columns are saved already.                                       *)
SaveColumns(cs, s) == IF s # <<>> THEN s ELSE [k \in DOMAIN cs |-> cs[k].position.col]

(***************************************************************************)
(* Actions.                                                                *)
(***************************************************************************)
(* The carets other commands and the tests' set_cursor leave: one to       *)
(* MaxCursors of them, at distinct positions of the content.               *)
Carets(ls) ==
    {ps \in UNION {[1 .. n -> Positions(ls)] : n \in 1 .. MaxCursors} :
        \A k \in 1 .. Len(ps) - 1 : PosLess(ps[k], ps[k + 1])}

(* The view's cursors start as carets anywhere in the content, with no    *)
(* saved columns.                                                          *)
Init ==
    /\ content \in Contents
    /\ \E ps \in Carets(content) :
          cursors = [k \in DOMAIN ps |-> [anchor |-> ps[k], position |-> ps[k]]]
    /\ saved = <<>>

(* BufferView::move_cursors(movement, movement_kind).  The guard keeps the *)
(* saved columns only through a movement that saved them.                 *)
MoveCursors(m, kind) ==
    LET s  == IF m.name \in Vertical THEN SaveColumns(cursors, saved) ELSE saved
        cs == [k \in DOMAIN cursors |->
                 LET q == Moved(content, m, cursors[k].position, s, k)
                 IN  [anchor |-> IF kind = "PositionAndAnchor" THEN q ELSE cursors[k].anchor,
                      position |-> q]]
    IN  /\ cursors' = IF m.name = "ColumnsBackward" /\ m.n = 0 THEN cursors
                      ELSE ReleaseGuard(cs)
        /\ saved' = IF m.name \in Vertical THEN s ELSE <<>>
        /\ UNCHANGED content

Kinds == {"PositionAndAnchor", "PositionOnly"}

Next == \E m \in Movements, kind \in Kinds : MoveCursors(m, kind)

Spec == Init /\ [][Next]_vars

(***************************************************************************)
(* Properties.                                                             *)
(***************************************************************************)

(* Every cursor lies in the content, and the collection is sorted and      *)
(* apart, with 1 to MaxCursors cursors.                                    *)
TypeOK ==
    /\ content \in Contents
    /\ Len(cursors) \in 1 .. MaxCursors
    /\ \A k \in DOMAIN cursors :
          {cursors[k].anchor, cursors[k].position} \subseteq Positions(content)
    /\ \A k \in 1 .. Len(cursors) - 1 : PosLess(To(cursors[k]), From(cursors[k + 1]))

(* The reading of the movements in spec 4.G, on the flat text (a newline   *)
(* is one character) and on the word stops: every line start, every line   *)
(* end and the start of every word that is not whitespace.                 *)
FlatOffset(ls, p) == FoldLeft(LAMBDA acc, l : acc + Len(l) + 1, 0, SubSeq(ls, 1, p.line)) + p.col

PosAt(ls, o) == CHOOSE q \in Positions(ls) : FlatOffset(ls, q) = o

Stops(ls) ==
    UNION {{Pos(l, 0), Pos(l, LineLen(ls, l))}
              \cup {Pos(l, WordStart(WordIter(ls[l + 1]), k)) : k \in
                      {k \in DOMAIN WordIter(ls[l + 1]) : WordIter(ls[l + 1])[k].kind # "Whitespace"}}
           : l \in 0 .. LastLine(ls)}

EndOfBuffer(ls) == Pos(LastLine(ls), LineLen(ls, LastLine(ls)))

(* The n-th of the stops ss in the order before, or dflt if there are     *)
(* fewer than n.                                                           *)
NthStop(ss, n, before(_, _), dflt) ==
    IF n <= Cardinality(ss)
    THEN CHOOSE q \in ss : Cardinality({r \in ss : before(r, q)}) = n - 1
    ELSE dflt

Reference(ls, m, p) ==
    CASE m.name = "ColumnsForward" ->
            LET o == FlatOffset(ls, p) + m.n
                e == FlatOffset(ls, EndOfBuffer(ls))
            IN  PosAt(ls, IF o < e THEN o ELSE e)
      [] m.name = "ColumnsBackward" ->
            PosAt(ls, IF FlatOffset(ls, p) > m.n THEN FlatOffset(ls, p) - m.n ELSE 0)
      [] m.name = "WordsForward" ->
            IF m.n = 0 THEN p
            ELSE NthStop({q \in Stops(ls) : PosLess(p, q)}, m.n, PosLess, EndOfBuffer(ls))
      [] m.name = "WordsBackward" ->
            IF m.n = 0 THEN p
            ELSE NthStop({q \in Stops(ls) : PosLess(q, p)}, m.n, LAMBDA a, b : PosLess(b, a), Zero)
      [] m.name = "Home" -> Pos(p.line, 0)
      [] m.name = "End"  -> Pos(p.line, LineLen(ls, p.line))
      [] m.name = "HomeNonWhitespace" ->
            LET line == ls[p.line + 1]
                nonws == {c \in 1 .. Len(line) : line[c] # " "}
            IN  Pos(p.line, IF nonws = {} THEN 0 ELSE Min(nonws) - 1)

Horizontal == {"ColumnsForward", "ColumnsBackward", "WordsForward", "WordsBackward", "Home", "End"}

(* Every column, word, Home and End movement of every cursor's position  *)
(* lands where the spec's reading puts it (buffer_view.rs:81-262, 264-267, *)
(* 279-284): the line-crossing loops of ColumnsForward/Backward and the   *)
(* step counting of WordsForward/Backward agree with counting on the flat  *)
(* text and on the word stops.                                             *)
MotionsMatchReference ==
    \A k \in DOMAIN cursors, m \in {m \in Movements : m.name \in Horizontal} :
        Moved(content, m, cursors[k].position, saved, k) = Reference(content, m, cursors[k].position)

(* HomeNonWhitespace puts each cursor on the first non-whitespace          *)
(* character of its line, or at column 0 when there is none (spec 4.G).   *)
HomeNonWhitespaceMatchesSpec ==
    \A k \in DOMAIN cursors, m \in {m \in Movements : m.name = "HomeNonWhitespace"} :
        Moved(content, m, cursors[k].position, saved, k) = Reference(content, m, cursors[k].position)

====
