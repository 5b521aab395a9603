------------------------------ MODULE History -------------------------------
(***************************************************************************)
(* The undo history of a buffer (src/src/history.rs).                      *)
(*                                                                         *)
(*   texts        one string holding the text of every recorded edit;     *)
(*   edits        EditInternal records: kind, range, the slice of texts    *)
(*                holding the edit's text (0-based, end exclusive) and     *)
(*                the cursor index;                                        *)
(*   groupRanges  the committed undo groups, slices of edits;              *)
(*   state        IterIndex(index) or InsertGroup(start..end).             *)
(*                                                                         *)
(* The operations take the edit as a parameter; Buffer calls them with the *)
(* edits its content operations produce.  try_merge_with_last is the pure  *)
(* operator TryMergeWithLast: it returns whether to append, and the edits  *)
(* and texts after an in-place merge, or that Rust panics on a slice.      *)
(***************************************************************************)
EXTENDS Naturals, Sequences, BufferContent

VARIABLES texts, edits, groupRanges, state

historyVars == <<texts, edits, groupRanges, state>>

Iter(i) == [tag |-> "iter", index |-> i]
Group(s, e) == [tag |-> "group", start |-> s, end |-> e]
Slice(s, e) == [start |-> s, end |-> e]

(* EditInternal::as_edit_ref *)
AsEditRef(ed, tx) ==
    [kind   |-> ed.kind,
     range  |-> ed.range,
     text   |-> SubSeq(tx, ed.textsRange.start + 1, ed.textsRange.end),
     cursor |-> ed.cursor]

(* History::new *)
HistoryInit ==
    /\ texts = <<>>
    /\ edits = <<>>
    /\ groupRanges = <<>>
    /\ state = Iter(0)

ClearKeepEdits ==
    /\ texts' = <<>>
    /\ groupRanges' = <<>>
    /\ state' = Iter(0)
    /\ UNCHANGED edits

(* History::clear *)
Clear ==
    /\ texts' = <<>>
    /\ edits' = <<>>
    /\ groupRanges' = <<>>
    /\ state' = Iter(0)

(* A merge: the last edit becomes l2, texts becomes tx2, and the last     *)
(* edit's texts_range.end is set to the new length of texts.              *)
MergeIntoLastNoEnd(es, l2, tx2) ==
    [append |-> FALSE, edits |-> [es EXCEPT ![Len(es)] = l2],
     texts |-> tx2, panic |-> FALSE]

MergeIntoLast(es, l2, tx2) ==
    [append |-> FALSE,
     edits  |-> [es EXCEPT ![Len(es)] = [l2 EXCEPT !.textsRange.end = Len(tx2)]],
     texts  |-> tx2, panic |-> FALSE]

(***************************************************************************)
(* try_merge_with_last, given the edits es and texts tx after add_edit's   *)
(* truncation, the length n of the open group and the new edit e.  Each   *)
(* branch of the match is one arm of the CASE, its guard the conjunction  *)
(* of the branch's own condition with the negation of the earlier ones of *)
(* the same else-if chain; a branch whose text comparison fails returns   *)
(* true (append) without trying the later branches.                       *)
(***************************************************************************)
TryMergeWithLast(es, tx, n, e) ==
    LET last  == es[Len(es)]
        lr    == last.range
        er    == e.range
        s     == last.textsRange.start
        en    == last.textsRange.end
        L     == Len(e.text)
        Keep  == [append |-> TRUE, edits |-> es, texts |-> tx, panic |-> FALSE]
        Panic == [append |-> FALSE, edits |-> es, texts |-> tx, panic |-> TRUE]
        Merged(l2, tx2) == MergeIntoLast(es, l2, tx2)
        InsertAtStart(t) == SubSeq(tx, 1, s) \o t \o SubSeq(tx, s + 1, Len(tx))
        II == last.kind = "Insert" /\ e.kind = "Insert"
        DD == last.kind = "Delete" /\ e.kind = "Delete"
        ID == last.kind = "Insert" /\ e.kind = "Delete"
        \* the four conditions of the Insert-then-Delete chain
        A == lr.from = er.from /\ PosLeq(er.to, lr.to)
        B == er.to = lr.to /\ PosLeq(lr.from, er.from)
        C == er.from = lr.from /\ PosLeq(lr.to, er.to)
        D == lr.to = er.to /\ PosLeq(er.from, lr.from)
        m == en - s
    IN  IF n = 0 \/ last.cursor # e.cursor THEN Keep
        ELSE CASE II /\ er.from = lr.to ->
                    Merged([last EXCEPT !.range.to = er.to], tx \o e.text)
             [] II /\ er.from # lr.to /\ er.from = lr.from ->
                    Merged([last EXCEPT !.range.to = PosInsert(lr.to, er)],
                           InsertAtStart(e.text))
             [] DD /\ er.from = lr.from ->
                    Merged([last EXCEPT !.range.to = PosInsert(lr.to, er)],
                           tx \o e.text)
             [] DD /\ er.from # lr.from /\ er.to = lr.from ->
                    Merged([last EXCEPT !.range.from = er.from],
                           InsertAtStart(e.text))
             [] ID /\ A ->
                    IF s + L > Len(tx) THEN Panic
                    ELSE IF e.text # SubSeq(tx, s + 1, s + L) THEN Keep
                    ELSE Merged([last EXCEPT !.range.to = PosDelete(lr.to, er)],
                                SubSeq(tx, 1, s) \o SubSeq(tx, s + L + 1, Len(tx)))
             [] ID /\ ~A /\ B ->
                    IF L > en THEN Panic
                    ELSE IF e.text # SubSeq(tx, en - L + 1, en) THEN Keep
                    ELSE Merged([last EXCEPT !.range.to = er.from],
                                SubSeq(tx, 1, en - L))
             [] ID /\ ~A /\ ~B /\ C ->
                    IF m > L THEN Panic
                    ELSE IF SubSeq(e.text, 1, m) # SubSeq(tx, s + 1, en) THEN Keep
                    ELSE Merged([last EXCEPT !.kind = "Delete",
                                             !.range.to = PosDelete(er.to, lr)],
                                SubSeq(tx, 1, s) \o SubSeq(e.text, m + 1, L))
             [] ID /\ ~A /\ ~B /\ ~C /\ D ->
                    IF m > L THEN Panic
                    ELSE IF SubSeq(e.text, m + 1, L) # SubSeq(tx, s + 1, en) THEN Keep
                    ELSE Merged([last EXCEPT !.kind = "Delete",
                                             !.range = [from |-> er.from, to |-> lr.from]],
                                SubSeq(tx, 1, s) \o SubSeq(e.text, 1, m))
             [] OTHER -> Keep

(***************************************************************************)
(* add_edit.  From IterIndex(index) the redo tail is discarded: edits are  *)
(* truncated to the start of group index and group_ranges to index, and a  *)
(* new empty group opens; texts is not truncated.  Then the edit is merged *)
(* into the group's last edit or appended to texts and edits.              *)
(***************************************************************************)
OpenGroup ==
    IF state.tag = "group" THEN state
    ELSE LET i == IF state.index < Len(groupRanges)
                  THEN groupRanges[state.index + 1].start ELSE Len(edits)
         IN  Group(i, i)

KeptEdits == IF state.tag = "group" THEN edits ELSE SubSeq(edits, 1, OpenGroup.start)

KeptGroupsNoTruncate == groupRanges

KeptGroups == IF state.tag = "group" THEN groupRanges
              ELSE SubSeq(groupRanges, 1, state.index)

MergeOf(e) == TryMergeWithLast(KeptEdits, texts, OpenGroup.end - OpenGroup.start, e)

(* The merge would slice a string out of bounds: the program panics. *)
AddEditPanics(e) == MergeOf(e).panic

AddEdit(e) ==
    LET mg == MergeOf(e)
        g  == OpenGroup
    IN  /\ groupRanges' = KeptGroups
        /\ IF mg.append
           THEN /\ state' = Group(g.start, g.end + 1)
                /\ texts' = texts \o e.text
                /\ edits' = Append(KeptEdits,
                                   [kind |-> e.kind, range |-> e.range,
                                    textsRange |-> Slice(Len(texts), Len(texts) + Len(e.text)),
                                    cursor |-> e.cursor])
           ELSE /\ state' = g
                /\ texts' = mg.texts
                /\ edits' = mg.edits

(***************************************************************************)
(* commit_edits, and the state undo_edits and redo_edits work from: they   *)
(* commit first, so the open group, if any, is pushed and the index is the *)
(* number of groups.                                                       *)
(***************************************************************************)
CommittedGroupsOf(gr, st) ==
    IF st.tag = "group" THEN Append(gr, Slice(st.start, st.end)) ELSE gr

CommittedIndexOf(gr, st) == IF st.tag = "group" THEN Len(gr) + 1 ELSE st.index

CommittedGroups == CommittedGroupsOf(groupRanges, state)

CommittedIndex == CommittedIndexOf(groupRanges, state)

CommitEdits ==
    /\ groupRanges' = CommittedGroups
    /\ state' = Iter(CommittedIndex)
    /\ UNCHANGED <<texts, edits>>

Flip(k) == IF k = "Insert" THEN "Delete" ELSE "Insert"

(* undo_edits: the edits of group index - 1, last first, kinds flipped. *)
UndoRange ==
    IF CommittedIndex > 0 THEN CommittedGroups[CommittedIndex] ELSE Slice(0, 0)

UndoEditsListInOrder ==
    [i \in 1 .. UndoRange.end - UndoRange.start |->
        LET ed == AsEditRef(edits[UndoRange.start + i], texts)
        IN  [ed EXCEPT !.kind = Flip(@)]]

UndoEditsList ==
    [i \in 1 .. UndoRange.end - UndoRange.start |->
        LET ed == AsEditRef(edits[UndoRange.end - i + 1], texts)
        IN  [ed EXCEPT !.kind = Flip(@)]]

UndoEdits ==
    /\ groupRanges' = CommittedGroups
    /\ state' = Iter(IF CommittedIndex > 0 THEN CommittedIndex - 1 ELSE 0)
    /\ UNCHANGED <<texts, edits>>

(* redo_edits: the edits of group index, in order. *)
RedoRange ==
    IF CommittedIndex < Len(CommittedGroups) THEN CommittedGroups[CommittedIndex + 1]
    ELSE Slice(0, 0)

RedoEditsList ==
    [i \in 1 .. RedoRange.end - RedoRange.start |->
        AsEditRef(edits[RedoRange.start + i], texts)]

RedoEdits ==
    /\ groupRanges' = CommittedGroups
    /\ state' = Iter(IF CommittedIndex < Len(CommittedGroups)
                     THEN CommittedIndex + 1 ELSE CommittedIndex)
    /\ UNCHANGED <<texts, edits>>

=============================================================================
