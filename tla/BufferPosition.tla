--------------------------- MODULE BufferPosition ---------------------------
(***************************************************************************)
(* Positions and ranges of a line-oriented buffer (buffer_position.rs).    *)
(* That file is not part of the source snapshot: the arithmetic below is   *)
(* written from the specification (section 4.A) and is what every other   *)
(* module uses to move a position across an insertion or a deletion.      *)
(*                                                                         *)
(* A position is a record [line, col]; both are 0-based like the code's    *)
(* line_index and column_byte_index.  A range is a record [from, to].      *)
(***************************************************************************)
EXTENDS Naturals

Pos(l, c) == [line |-> l, col |-> c]

Zero == Pos(0, 0)

(* Lexicographic order of positions (derived Ord of BufferPosition). *)
PosLess(p, q) == p.line < q.line \/ (p.line = q.line /\ p.col < q.col)

PosLeq(p, q) == p = q \/ PosLess(p, q)

(* BufferRange::between: the range from the smaller to the larger position. *)
Between(a, b) ==
    IF PosLeq(a, b) THEN [from |-> a, to |-> b] ELSE [from |-> b, to |-> a]

(***************************************************************************)
(* BufferPosition::insert: where p ends up once the text occupying range r *)
(* has been inserted.  A position on r.from's line at or after r.from is   *)
(* rebased onto r.to; a position on a later line moves down by the number  *)
(* of lines the insertion added; anything before r.from stays.            *)
(***************************************************************************)
PosInsert(p, r) ==
    IF p.line = r.from.line /\ p.col >= r.from.col
        THEN Pos(r.to.line, r.to.col + (p.col - r.from.col))
    ELSE IF p.line > r.from.line
        THEN Pos(p.line + (r.to.line - r.from.line), p.col)
    ELSE p

(***************************************************************************)
(* BufferPosition::delete: where p ends up once range r has been removed.  *)
(* A position at or after r.to on r.to's line is rebased onto r.from, one  *)
(* on a later line moves up, one inside the range collapses to r.from.     *)
(***************************************************************************)
PosDelete(p, r) ==
    IF p.line = r.to.line /\ p.col >= r.to.col
        THEN Pos(r.from.line, r.from.col + (p.col - r.to.col))
    ELSE IF p.line > r.to.line
        THEN Pos(p.line - (r.to.line - r.from.line), p.col)
    ELSE IF PosLeq(r.from, p)
        THEN r.from
    ELSE p

=============================================================================
