------------------------------- MODULE Buffer --------------------------------
(***************************************************************************)
(* Buffer of src/src/buffer.rs: a BufferContent with its History.          *)
(* insert_text and delete_range change the content and record the edit    *)
(* they made; undo and redo take the edits of one group from the history   *)
(* and apply them to the content (BufferContent::apply_edits).            *)
(*                                                                         *)
(* The content operations are the CONSTANT operators InsertOp and          *)
(* DeleteOp: the MC modules bind them to the code's InsertText and         *)
(* DeleteRange, or to the reference splices RefInsertText and             *)
(* RefDeleteRange to check the history on its own.  Every edit carries    *)
(* the index of the cursor that made it (history.rs Edit::cursor_index).   *)
(*                                                                         *)
(* versions is a history variable: versions[k + 1] is the content the      *)
(* buffer had when the history stood at IterIndex(k), so that the undo     *)
(* contract can be stated.  A panic of the program is the flag panicked:   *)
(* once set, nothing happens any more.                                     *)
(***************************************************************************)
EXTENDS Naturals, Sequences, SequencesExt, History

CONSTANTS
    InsertOp(_, _, _),  \* (lines, position, text) -> [lines, range]
    DeleteOp(_, _),     \* (lines, range) -> [lines, text, panic]
    Texts,              \* texts the editor inserts
    InitTexts,          \* texts a buffer is created from
    Cursors,            \* cursor indices
    MaxLen,             \* bound on the length of the buffer's text
    MaxTexts,           \* bound on the length of History.texts
    MaxEdits            \* bound on the number of recorded edits

VARIABLES lines, versions, panicked

vars == <<lines, versions, panicked, historyVars>>

(* Buffer::with_contents(BufferContent::from_str(s)) with History::new. *)
Init ==
    /\ lines \in {InsertOp(<<<<>>>>, Zero, s).lines : s \in InitTexts}
    /\ versions = <<lines>>
    /\ panicked = FALSE
    /\ HistoryInit

(* The content each history state stands for, once the state changes:      *)
(* add_edit from IterIndex(i) forgets the versions after i; a commit from  *)
(* an open group records the content the group produced.                   *)
VersionsOnAdd == IF state.tag = "iter" THEN SubSeq(versions, 1, state.index + 1)
                 ELSE versions

VersionsOnCommit(ls) == IF state.tag = "group" THEN Append(versions, ls) ELSE versions

(* history.add_edit after a content operation; a panic in the merge stops  *)
(* the program with the content already changed.                          *)
Record(e) ==
    IF AddEditPanics(e)
    THEN /\ panicked' = TRUE
         /\ UNCHANGED <<versions, historyVars>>
    ELSE /\ AddEdit(e)
         /\ versions' = VersionsOnAdd
         /\ UNCHANGED panicked

Room(t) ==
    /\ Len(texts) + Len(t) <= MaxTexts
    /\ Len(edits) < MaxEdits

(* Buffer::insert_text *)
InsertText(p, t, c) ==
    LET res == InsertOp(lines, p, t)
    IN  /\ ~panicked
        /\ Len(Flat(lines)) + Len(t) <= MaxLen
        /\ Room(t)
        /\ lines' = res.lines
        /\ Record([kind |-> "Insert", range |-> res.range, text |-> t, cursor |-> c])

(* Buffer::delete_range: the history records the range as given. *)
DeleteRange(r, c) ==
    LET res == DeleteOp(lines, r)
    IN  /\ ~panicked
        /\ Room(res.text)
        /\ IF res.panic
           THEN /\ panicked' = TRUE
                /\ UNCHANGED <<lines, versions, historyVars>>
           ELSE /\ lines' = res.lines
                /\ Record([kind |-> "Delete", range |-> r, text |-> res.text,
                           cursor |-> c])

(* BufferContent::apply_edits over a list of edits, stopping at a panic. *)
ApplyEdits(ls, list) ==
    LET step(acc, e) ==
            IF acc.panic THEN acc
            ELSE IF e.kind = "Insert"
            THEN [lines |-> InsertOp(acc.lines, e.range.from, e.text).lines,
                  panic |-> FALSE]
            ELSE LET d == DeleteOp(acc.lines, e.range)
                 IN  [lines |-> IF d.panic THEN acc.lines ELSE d.lines,
                      panic |-> d.panic]
    IN  FoldLeft(step, [lines |-> ls, panic |-> FALSE], list)

Commit ==
    /\ ~panicked
    /\ CommitEdits
    /\ versions' = VersionsOnCommit(lines)
    /\ UNCHANGED <<lines, panicked>>

(* Buffer::undo: content.apply_edits(history.undo_edits()) *)
Undo ==
    LET a == ApplyEdits(lines, UndoEditsList)
    IN  /\ ~panicked
        /\ UndoEdits
        /\ lines' = a.lines
        /\ panicked' = a.panic
        /\ versions' = VersionsOnCommit(lines)

(* Buffer::redo: content.apply_edits(history.redo_edits()) *)
Redo ==
    LET a == ApplyEdits(lines, RedoEditsList)
    IN  /\ ~panicked
        /\ RedoEdits
        /\ lines' = a.lines
        /\ panicked' = a.panic
        /\ versions' = VersionsOnCommit(lines)

(* history.clear(), as done when a buffer is reloaded from disk. *)
ClearHistory ==
    /\ ~panicked
    /\ Clear
    /\ versions' = <<lines>>
    /\ UNCHANGED <<lines, panicked>>

Next ==
    \/ \E p \in Positions(lines), t \in Texts, c \in Cursors : InsertText(p, t, c)
    \/ \E r \in Ranges(lines), c \in Cursors : DeleteRange(r, c)
    \/ Commit
    \/ Undo
    \/ Redo
    \/ ClearHistory

Spec == Init /\ [][Next]_vars

(***************************************************************************)
(* Properties.                                                             *)
(***************************************************************************)

TypeOK ==
    /\ panicked \in BOOLEAN
    /\ Len(lines) >= 1
    /\ state.tag \in {"iter", "group"}
    /\ \A i \in 1 .. Len(edits) :
          /\ edits[i].kind \in {"Insert", "Delete"}
          /\ edits[i].cursor \in Cursors
          /\ 0 <= edits[i].textsRange.start
          /\ edits[i].textsRange.start <= edits[i].textsRange.end
          /\ edits[i].textsRange.end <= Len(texts)
    /\ \A i \in 1 .. Len(groupRanges) :
          /\ groupRanges[i].start < groupRanges[i].end
          /\ groupRanges[i].end <= Len(edits)
    /\ state.tag = "iter" => state.index <= Len(groupRanges)

(* The committed groups partition the edits before the open group, in     *)
(* order, and the open group runs to the last edit.  undo_edits and         *)
(* redo_edits replay edits[group_ranges[i]]: a group range left stale by    *)
(* the truncation in add_edit would replay edits of a discarded branch or   *)
(* of another group.                                                       *)
GroupsPartitionEdits ==
    LET committedEnd == IF state.tag = "group" THEN state.start ELSE Len(edits)
        lastEnd == IF groupRanges = <<>> THEN 0 ELSE Last(groupRanges).end
    IN  /\ \A i \in 1 .. Len(groupRanges) :
              groupRanges[i].start = IF i = 1 THEN 0 ELSE groupRanges[i - 1].end
        /\ lastEnd = committedEnd
        /\ state.tag = "group" => state.end = Len(edits)

(* The undo contract: whenever the history is not inside an open group,   *)
(* undo and redo have brought the buffer back to exactly the content it    *)
(* had when the history was last at that index, and nothing panicked.      *)
(* This takes a chain of typed edits, their merging in try_merge_with_last *)
(* and the replay through apply_edits to break.                            *)
UndoRestoresContent ==
    /\ ~panicked
    /\ state.tag = "iter" => lines = versions[state.index + 1]

(* Every recorded edit's range is the span its text occupies when the text *)
(* is inserted at range.from: what undo of a delete and redo of an insert  *)
(* rely on.  The merges of try_merge_with_last rewrite these ranges.       *)
RecordedRangesMatchTexts ==
    \A i \in 1 .. Len(edits) :
        LET ed == AsEditRef(edits[i], texts)
        IN  ed.range.to = EndOf(ed.range.from, ed.text)

(* An Insert immediately followed, in the same group and by the same      *)
(* cursor, by a Delete that ends where the insertion ends, starts before   *)
(* it and whose text ends with the inserted text (a backspace over the     *)
(* typed text and some more) is coalesced into one Delete of the uncovered *)
(* head (spec section 4.C, last row of the merge table): add_edit never    *)
(* appends such a Delete after such an Insert.                             *)
LeftSupersetPair(x, d, tx) ==
    LET xt == SubSeq(tx, x.textsRange.start + 1, x.textsRange.end)
        dt == SubSeq(tx, d.textsRange.start + 1, d.textsRange.end)
    IN  /\ x.kind = "Insert" /\ d.kind = "Delete"
        /\ x.cursor = d.cursor
        /\ d.range.to = x.range.to
        /\ PosLess(d.range.from, x.range.from)
        /\ xt # <<>> /\ Len(dt) >= Len(xt)
        /\ SubSeq(dt, Len(dt) - Len(xt) + 1, Len(dt)) = xt

LeftSupersetDeleteMerges ==
    [][state.tag = "group" /\ state'.tag = "group" /\ Len(edits') = Len(edits) + 1
         => ~LeftSupersetPair(edits'[Len(edits') - 1], edits'[Len(edits')], texts')]_vars

(***************************************************************************)
(* The refinement mapping to UndoStack (see BufferUndoStack).  It takes   *)
(* nothing from the history variable versions: it rebuilds the content of *)
(* every committed point from a text ls and a History (tx, es, gr, st),    *)
(* undoing the groups below the current point and redoing those above it  *)
(* through apply_edits, as undo and redo would.                            *)
(***************************************************************************)
EditsOf(g, tx, es) == [i \in 1 .. g.end - g.start |-> AsEditRef(es[g.start + i], tx)]

(* The edits that undo list: last first, kinds flipped. *)
UndoneBy(list) == [i \in 1 .. Len(list) |-> [Reverse(list)[i] EXCEPT !.kind = Flip(@)]]

(* The contents at committed points 0 .. Len(CommittedGroups). *)
ContentsOf(ls, tx, es, gr, st) ==
    LET cg   == CommittedGroupsOf(gr, st)
        ci   == CommittedIndexOf(gr, st)
        down == FoldLeft(LAMBDA acc, k :
                             <<ApplyEdits(Head(acc), UndoneBy(EditsOf(cg[k + 1], tx, es))).lines>>
                             \o acc,
                         <<ls>>, [j \in 1 .. ci |-> ci - j])
    IN  FoldLeft(LAMBDA acc, k : Append(acc, ApplyEdits(Last(acc), EditsOf(cg[k], tx, es)).lines),
                 down, [j \in 1 .. Len(cg) - ci |-> ci + j])

(* The committed points' contents; while a group is open, the point it    *)
(* will be committed as is not one yet.                                    *)
AbstractStackOf(ls, tx, es, gr, st) == SubSeq(ContentsOf(ls, tx, es, gr, st), 1, Len(gr) + 1)

AbstractStack == AbstractStackOf(lines, texts, edits, groupRanges, state)

AbstractOpen == state.tag = "group"

AbstractPos == IF AbstractOpen THEN Len(groupRanges) ELSE state.index

=============================================================================
