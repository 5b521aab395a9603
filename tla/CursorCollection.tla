-------------------------- MODULE CursorCollection ---------------------------
(***************************************************************************)
(* The cursor collection of spec section 4.E (cursor.rs is not in src/):   *)
(* a cursor is [anchor, position]; the collection is a sequence sorted by  *)
(* position.  Releasing the mutation guard re-sorts the cursors and merges *)
(* those whose ranges touch or overlap, keeping the first one's direction. *)
(* The module has no state: BufferViews and Movement hold collections.    *)
(***************************************************************************)
EXTENDS Naturals, Sequences, SequencesExt, BufferPosition

From(c) == IF PosLeq(c.anchor, c.position) THEN c.anchor ELSE c.position

To(c) == IF PosLeq(c.anchor, c.position) THEN c.position ELSE c.anchor

ToRange(c) == [from |-> From(c), to |-> To(c)]

MergeCursor(a, b) ==
    LET lo == IF PosLeq(From(a), From(b)) THEN From(a) ELSE From(b)
        hi == IF PosLeq(To(a), To(b)) THEN To(b) ELSE To(a)
    IN  IF PosLess(a.position, a.anchor) THEN [anchor |-> hi, position |-> lo]
        ELSE [anchor |-> lo, position |-> hi]

ReleaseGuard(cs) ==
    FoldLeft(LAMBDA acc, c :
                IF acc # <<>> /\ PosLeq(From(c), To(Last(acc)))
                THEN [acc EXCEPT ![Len(acc)] = MergeCursor(Last(acc), c)]
                ELSE Append(acc, c),
             <<>>, SortSeq(cs, LAMBDA a, b : PosLess(a.position, b.position)))

(* CursorCollection::new: one cursor at the origin. *)
NewCursors == <<[anchor |-> Zero, position |-> Zero]>>

(* Cursor::insert and Cursor::delete: both ends moved. *)
CursorInsert(c, r) == [anchor |-> PosInsert(c.anchor, r), position |-> PosInsert(c.position, r)]

CursorDelete(c, r) == [anchor |-> PosDelete(c.anchor, r), position |-> PosDelete(c.position, r)]

=============================================================================
