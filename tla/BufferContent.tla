--------------------------- MODULE BufferContent ----------------------------
(***************************************************************************)
(* BufferContent of src/src/buffer.rs: a non-empty sequence of lines, each *)
(* a sequence of characters without a newline.  The pure operators         *)
(* ClampPosition, ContentInsertText and ContentDeleteRange translate the   *)
(* methods clamp_position, insert_text and delete_range of BufferContent;  *)
(* the Buffer module composes them with the History.                      *)
(*                                                                         *)
(* The module has no state of its own: ContentEdits drives one content    *)
(* with these operators, Buffer pairs it with a History.                   *)
(***************************************************************************)
EXTENDS Naturals, Sequences, SequencesExt, BufferPosition

NL == "\n"

(***************************************************************************)
(* Text helpers.                                                           *)
(***************************************************************************)

(* The lines of a buffer joined by newlines, as BufferContent::write does. *)
Flat(ls) == FoldLeft(LAMBDA acc, l : acc \o <<NL>> \o l, Head(ls), Tail(ls))

(* Split a text at every newline: k newlines give k + 1 pieces. *)
RECURSIVE SplitNL(_)
SplitNL(t) ==
    LET i == SelectInSeq(t, LAMBDA c : c = NL)
    IN  IF i = 0 THEN <<t>>
        ELSE <<SubSeq(t, 1, i - 1)>> \o SplitNL(SubSeq(t, i + 1, Len(t)))

EndsWithNL(t) == t # <<>> /\ Last(t) = NL

(* Rust's str::lines: no line for "", and no empty line after a final \n. *)
RustLines(t) ==
    IF t = <<>> THEN <<>>
    ELSE IF EndsWithNL(t) THEN Front(SplitNL(t))
    ELSE SplitNL(t)

(***************************************************************************)
(* The operations of BufferContent.                                        *)
(***************************************************************************)

ClampPosition(ls, p) ==
    LET l == IF p.line >= Len(ls) THEN Len(ls) - 1 ELSE p.line
        n == Len(ls[l + 1])
    IN  Pos(l, IF p.col > n THEN n ELSE p.col)

(***************************************************************************)
(* insert_text: split the line at the position, append the first line of   *)
(* the text, insert the others after it, then restitch the split-off tail. *)
(* When the text ends with a newline the tail becomes a line of its own;   *)
(* otherwise the code appends it to lines[position.line_index] (the line   *)
(* the insertion started on) and takes the end column from that line.      *)
(* The Char variant of TextRef takes the same path as a one-character Str. *)
(***************************************************************************)
ContentInsertText(ls, p0, t) ==
    LET p      == ClampPosition(ls, p0)
        line   == ls[p.line + 1]
        head   == SubSeq(line, 1, p.col)
        split  == SubSeq(line, p.col + 1, Len(line))
        pieces == RustLines(t)
        first  == IF pieces = <<>> THEN <<>> ELSE Head(pieces)
        rest   == IF pieces = <<>> THEN <<>> ELSE Tail(pieces)
        before == SubSeq(ls, 1, p.line)
        after  == SubSeq(ls, p.line + 2, Len(ls))
    IN  IF EndsWithNL(t)
        THEN [lines |-> before \o <<head \o first>> \o rest \o <<split>> \o after,
              range |-> Between(p, Pos(p.line + Len(rest) + 1, 0))]
        ELSE [lines |-> before \o <<head \o first \o split>> \o rest \o after,
              range |-> Between(p, Pos(p.line + Len(rest), Len(head \o first)))]

(***************************************************************************)
(* delete_range: on one line, drain the span.  Across lines, drain the     *)
(* suffix of the first line; the intermediate lines are drained only under *)
(* `lines_range.start >= lines_range.end`, i.e. never when there are any;  *)
(* then the line right after the first one is removed and its part after   *)
(* to.column is appended.  The deleted text is the two drained parts       *)
(* concatenated.  Rust panics on a drain or slice out of order or out of   *)
(* bounds: panic is TRUE exactly then.                                     *)
(***************************************************************************)
ContentDeleteRange(ls, r0) ==
    LET from  == ClampPosition(ls, r0.from)
        to    == ClampPosition(ls, r0.to)
        fline == ls[from.line + 1]
        kept  == SubSeq(fline, 1, from.col)
    IN  IF from.line = to.line
        THEN [lines |-> ReplaceAt(ls, from.line + 1,
                          kept \o SubSeq(fline, to.col + 1, Len(fline))),
              text  |-> SubSeq(fline, from.col + 1, to.col),
              panic |-> from.col > to.col]
        ELSE IF from.line > to.line
        THEN [lines |-> ls, text |-> <<>>, panic |-> TRUE]
        ELSE LET tline == ls[from.line + 2]
             IN  [lines |-> SubSeq(ls, 1, from.line)
                              \o <<kept \o SubSeq(tline, to.col + 1, Len(tline))>>
                              \o SubSeq(ls, from.line + 3, Len(ls)),
                  text  |-> SubSeq(fline, from.col + 1, Len(fline))
                              \o SubSeq(tline, 1, to.col),
                  panic |-> to.col > Len(tline)]

(***************************************************************************)
(* What the operations mean on the flat text (specification, section 4.B). *)
(***************************************************************************)

(* Offset of a position in the flat text. *)
Offset(ls, p) ==
    IF p.line = 0 THEN p.col ELSE Len(Flat(SubSeq(ls, 1, p.line))) + 1 + p.col

(* Position reached by writing text t starting at p. *)
EndOf(p, t) ==
    LET ps == SplitNL(t)
    IN  IF Len(ps) = 1 THEN Pos(p.line, p.col + Len(t))
        ELSE Pos(p.line + Len(ps) - 1, Len(Last(ps)))

SpliceIn(s, o, t) == SubSeq(s, 1, o) \o t \o SubSeq(s, o + 1, Len(s))
SpliceOut(s, o1, o2) == SubSeq(s, 1, o1) \o SubSeq(s, o2 + 1, Len(s))

Positions(ls) ==
    UNION {{Pos(l, c) : c \in 0 .. Len(ls[l + 1])} : l \in 0 .. Len(ls) - 1}

Ranges(ls) ==
    {r \in [from : Positions(ls), to : Positions(ls)] : PosLeq(r.from, r.to)}

(* The reference operations: what insert_text and delete_range should      *)
(* return, computed on the flat text.                                      *)
RefInsertText(ls, p, t) ==
    [lines |-> SplitNL(SpliceIn(Flat(ls), Offset(ls, p), t)),
     range |-> [from |-> p, to |-> EndOf(p, t)]]

RefDeleteRange(ls, r) ==
    [lines |-> SplitNL(SpliceOut(Flat(ls), Offset(ls, r.from), Offset(ls, r.to))),
     text  |-> SubSeq(Flat(ls), Offset(ls, r.from) + 1, Offset(ls, r.to)),
     panic |-> FALSE]

=============================================================================
