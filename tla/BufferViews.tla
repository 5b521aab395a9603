----------------------------- MODULE BufferViews -----------------------------
(***************************************************************************)
(* The buffer view registry of src/src/buffer_view.rs over one buffer:     *)
(* the views of several clients, each with its own cursors; the           *)
(* multi-cursor edits a view issues; and the fan-out of each edit event to *)
(* the cursors of every view on the buffer.                                *)
(*                                                                         *)
(*   lines   the buffer's content (BufferContent);                         *)
(*   slots   BufferViewCollection::buffer_views: a view [client, cursors]  *)
(*           per slot (no view is removed in this model, see README);      *)
(*   events  the EditorEventQueue: the edit events not yet fanned out;     *)
(*   group   the buffer history's last group: its edits, whether it is     *)
(*           undone, and (a history variable) the positions the edit that  *)
(*           made it left the editing view's cursors at;                   *)
(*   goal    what the content and every slot's cursors are once the queue  *)
(*           is drained, by the one-shot reading of the last edit (a       *)
(*           history variable);                                            *)
(*   restore the undo or redo last done, by which view, and where it puts  *)
(*           that view's cursors (a history variable).                     *)
(*                                                                         *)
(* The cursor collection (cursor.rs) and the event queue (events.rs) are   *)
(* not in src/: they are written from spec sections 4.E and 5.  The       *)
(* buffer's history is cut down to its last group here; History models it *)
(* whole.                                                                  *)
(***************************************************************************)
EXTENDS Naturals, Sequences, SequencesExt, FiniteSets, TLC, BufferContent, CursorCollection, Strict

CONSTANTS
    Clients,      \* the clients that open a view on the buffer
    Texts,        \* the texts a view inserts at its cursors (one line each)
    InitLine,     \* the buffer's content when the views are opened
    MaxCursors,   \* bound on the cursors of a view
    MaxLen        \* bound on the length of the line

VARIABLES lines, slots, events, group, goal, restore

vars == <<lines, slots, events, group, goal, restore>>

(***************************************************************************)
(* BufferViewCollection.                                                   *)
(***************************************************************************)

(* An empty slot of buffer_views (a None). *)
None == [client |-> "none", cursors |-> <<>>]

(* BufferViewCollection::add: the first empty slot, else a new one. *)
Add(ss, view) ==
    LET free == {i \in 1 .. Len(ss) : ss[i] = None}
    IN  IF free # {} THEN [ss EXCEPT ![Min(free)] = view] ELSE Append(ss, view)

(* The slot of the view of client c, or 0 (the position search of        *)
(* buffer_view_handle_from_buffer_handle; every view is on the buffer).  *)
ViewOf(ss, c) == SelectInSeq(ss, LAMBDA v : v # None /\ v.client = c)

Live == {i \in 1 .. Len(slots) : slots[i] # None}

(* on_buffer_insert_text / on_buffer_delete_text: every cursor of every   *)
(* live view on the buffer, under a guard.                               *)
FanOut(ss, e) ==
    [i \in 1 .. Len(ss) |->
        IF ss[i] = None THEN ss[i]
        ELSE [ss[i] EXCEPT !.cursors =
                 ReleaseGuard([k \in DOMAIN @ |->
                     IF e.kind = "Insert" THEN CursorInsert(@[k], e.range)
                     ELSE CursorDelete(@[k], e.range)])]]

(***************************************************************************)
(* The edits a view issues, cursor by cursor in reverse order, each one a  *)
(* Buffer edit that changes the content, is recorded in the history as   *)
(* [kind, range, text] and queues its event [kind, range].                *)
(***************************************************************************)
Edit(kind, range, text) == [kind |-> kind, range |-> range, text |-> text]

EventsOf(es) == [k \in DOMAIN es |-> [kind |-> es[k].kind, range |-> es[k].range]]

InsertAllForward(ls, cs, t) ==
    FoldLeft(LAMBDA acc, c :
                With(ContentInsertText(acc.lines, c.position, t), LAMBDA out :
                   [lines |-> out.lines, edits |-> Append(acc.edits, Edit("Insert", out.range, t))]),
             [lines |-> ls, edits |-> <<>>], cs)

InsertAll(ls, cs, t) ==
    FoldLeft(LAMBDA acc, c :
                With(ContentInsertText(acc.lines, c.position, t), LAMBDA out :
                   [lines |-> out.lines, edits |-> Append(acc.edits, Edit("Insert", out.range, t))]),
             [lines |-> ls, edits |-> <<>>], Reverse(cs))

DeleteAll(ls, cs) ==
    FoldLeft(LAMBDA acc, c :
                With(ContentDeleteRange(acc.lines, ToRange(c)), LAMBDA out :
                   [lines |-> out.lines, edits |-> Append(acc.edits, Edit("Delete", ToRange(c), out.text))]),
             [lines |-> ls, edits |-> <<>>], Reverse(cs))

(***************************************************************************)
(* Undo and redo of the last group (History::undo_edits / redo_edits and  *)
(* BufferContent::apply_edits): undo replays the group backwards with the *)
(* kinds flipped, redo replays it as recorded; each applied edit queues   *)
(* its event.                                                              *)
(***************************************************************************)
Flip(kind) == IF kind = "Insert" THEN "Delete" ELSE "Insert"

UndoEdits(es) == [k \in DOMAIN es |-> [Reverse(es)[k] EXCEPT !.kind = Flip(@)]]

ApplyEdits(ls, es) ==
    FoldLeft(LAMBDA acc, e :
                IF e.kind = "Insert" THEN ContentInsertText(acc, e.range.from, e.text).lines
                ELSE ContentDeleteRange(acc, e.range).lines,
             ls, es)

Caret(p) == [anchor |-> p, position |-> p]

(* BufferView::undo: a caret at the start of every edit of the last run   *)
(* of one kind, skipping the edits of the kind that came before it.       *)
UndoCursors(es) ==
    FoldLeft(LAMBDA acc, e :
                IF acc.ignore # "none"
                THEN IF acc.ignore = e.kind THEN acc
                     ELSE [acc EXCEPT !.cs = Append(@, Caret(e.range.from))]
                ELSE LET fresh == acc.previous # e.kind
                     IN  [cs |-> Append(IF fresh THEN <<>> ELSE acc.cs, Caret(e.range.from)),
                          ignore |-> IF fresh THEN acc.previous ELSE acc.ignore,
                          previous |-> e.kind],
             [cs |-> <<>>, ignore |-> "none", previous |-> "none"], es).cs

RedoCursorsAtEnd(es) ==
    FoldLeft(LAMBDA cs, e :
                Append([k \in DOMAIN cs |->
                           IF e.kind = "Insert" THEN CursorDelete(cs[k], e.range)
                           ELSE CursorInsert(cs[k], e.range)],
                       Caret(e.range.to)),
             <<>>, Reverse(es))

(* BufferView::redo: from the last edit back, a caret at the start of each *)
(* edit, the carets of the later edits moved back across it.              *)
RedoCursors(es) ==
    FoldLeft(LAMBDA cs, e :
                Append([k \in DOMAIN cs |->
                           IF e.kind = "Insert" THEN CursorDelete(cs[k], e.range)
                           ELSE CursorInsert(cs[k], e.range)],
                       Caret(e.range.from)),
             <<>>, Reverse(es))

(***************************************************************************)
(* The one-shot reading of a multi-cursor edit on a line s (spec 4.F and   *)
(* section 5, Ordering): text t goes in at every cursor position ps[k], or *)
(* the ranges rs[k] go out, all at once in the coordinates before the      *)
(* edit; a position q moves by what went in at or before it, or out before *)
(* it.  ps and rs are sorted and apart, as the guard leaves them.          *)
(***************************************************************************)
Cut(ps, k, n) == IF k = Len(ps) THEN n ELSE ps[k + 1]

InsertedLine(s, ps, t) ==
    FoldLeft(LAMBDA acc, k : acc \o t \o SubSeq(s, ps[k] + 1, Cut(ps, k, Len(s))),
             SubSeq(s, 1, ps[1]), [k \in 1 .. Len(ps) |-> k])

InsertedPos(q, ps, t) ==
    Pos(0, q.col + Len(t) * Cardinality({k \in 1 .. Len(ps) : ps[k] <= q.col}))

DeletedLine(s, rs) ==
    LET froms == [k \in 1 .. Len(rs) |-> rs[k].from.col]
    IN  FoldLeft(LAMBDA acc, k : acc \o SubSeq(s, rs[k].to.col + 1, Cut(froms, k, Len(s))),
                 SubSeq(s, 1, froms[1]), [k \in 1 .. Len(rs) |-> k])

Overlap(q, r) ==
    IF q.col <= r.from.col THEN 0
    ELSE (IF q.col < r.to.col THEN q.col ELSE r.to.col) - r.from.col

DeletedPos(q, rs) ==
    Pos(0, q.col - FoldLeft(LAMBDA acc, r : acc + Overlap(q, r), 0, rs))

MapCursors(ss, F(_)) ==
    [i \in 1 .. Len(ss) |->
        IF ss[i] = None THEN ss[i]
        ELSE [ss[i] EXCEPT !.cursors = ReleaseGuard([k \in DOMAIN @ |->
                 [anchor |-> F(@[k].anchor), position |-> F(@[k].position)]])]]

(***************************************************************************)
(* Actions.  A key is handled in one tick: an edit issues its Buffer edits *)
(* and their events, and the events are fanned out one by one before the   *)
(* next key is read.  An edit key commits its edits as one group; the     *)
(* history keeps the last group (one group is enough for one undo and one  *)
(* redo), and a new group discards the redo.                              *)
(***************************************************************************)
Quiet(ls, ss) == [lines |-> ls, slots |-> ss]

CursorPositions(cs) == {cs[k].position : k \in DOMAIN cs}

(* After an undo or redo the one-shot goal says nothing; it is cleared. *)
NoGoal == Quiet(<<>>, <<>>)

NoRestore == [op |-> "none", view |-> 0, positions |-> {}]

Init ==
    /\ lines = <<InitLine>>
    /\ slots = <<>>
    /\ events = <<>>
    /\ group = [edits |-> <<>>, undone |-> FALSE, after |-> {}]
    /\ goal = Quiet(<<InitLine>>, <<>>)
    /\ restore = NoRestore

OpenAlwaysAdd(c) ==
    /\ events = <<>>
    /\ slots' = Add(slots, [client |-> c, cursors |-> NewCursors])
    /\ goal' = Quiet(lines, slots')
    /\ restore' = NoRestore
    /\ UNCHANGED <<lines, events, group>>

(* buffer_view_handle_from_buffer_handle: client c's view on the buffer, *)
(* or a new one.                                                         *)
Open(c) ==
    /\ events = <<>>
    /\ slots' = IF ViewOf(slots, c) # 0 THEN slots
                ELSE Add(slots, [client |-> c, cursors |-> NewCursors])
    /\ goal' = Quiet(lines, slots')
    /\ restore' = NoRestore
    /\ UNCHANGED <<lines, events, group>>

(* The movement engine and the selection commands leave a view's cursors *)
(* anywhere in the buffer, sorted and apart as the guard leaves them.     *)
Cursors(n) == {[anchor |-> Pos(0, a), position |-> Pos(0, p)] : a, p \in 0 .. n}

Apart(cs) == \A k \in 1 .. Len(cs) - 1 : PosLess(To(cs[k]), From(cs[k + 1]))

Place(i) ==
    /\ events = <<>>
    /\ \E cs \in {cs \in UNION {[1 .. n -> Cursors(Len(lines[1]))] : n \in 1 .. MaxCursors} :
                   Apart(cs)} :
          slots' = [slots EXCEPT ![i].cursors = ReleaseGuard(cs)]
    /\ goal' = Quiet(lines, slots')
    /\ restore' = NoRestore
    /\ UNCHANGED <<lines, events, group>>

(* An edit of view i gives lines and edits out and, read one-shot, the    *)
(* goal g; the history's group becomes its edits.                          *)
Issue(i, out, g) ==
    /\ lines' = out.lines
    /\ events' = EventsOf(out.edits)
    /\ group' = [edits |-> out.edits, undone |-> FALSE, after |-> CursorPositions(g.slots[i].cursors)]
    /\ goal' = g
    /\ restore' = NoRestore
    /\ UNCHANGED slots

(* insert_text_at_cursor_positions *)
InsertTextAtCursorPositions(i, t) ==
    LET cs == slots[i].cursors
        ps == [k \in 1 .. Len(cs) |-> cs[k].position.col]
    IN  /\ events = <<>>
        /\ Len(lines[1]) + Len(cs) * Len(t) <= MaxLen
        /\ \E out \in {InsertAll(lines, cs, t)} :
              Issue(i, out, Quiet(<<InsertedLine(lines[1], ps, t)>>,
                                  MapCursors(slots, LAMBDA q : InsertedPos(q, ps, t))))

(* delete_text_in_cursor_ranges *)
DeleteTextInCursorRanges(i) ==
    LET rs == [k \in DOMAIN slots[i].cursors |-> ToRange(slots[i].cursors[k])]
    IN  /\ events = <<>>
        /\ \E out \in {DeleteAll(lines, slots[i].cursors)} :
              Issue(i, out, Quiet(<<DeletedLine(lines[1], rs)>>,
                                  MapCursors(slots, LAMBDA q : DeletedPos(q, rs))))

(* BufferView::undo by view i: the buffer undoes the last group; the view's *)
(* cursors are replaced by UndoCursors of the undone edits.                *)
Undo(i) ==
    /\ events = <<>>
    /\ group.edits # <<>> /\ ~group.undone
    /\ \E es \in {UndoEdits(group.edits)} :
          /\ lines' = ApplyEdits(lines, es)
          /\ events' = EventsOf(es)
          /\ slots' = [slots EXCEPT ![i].cursors = ReleaseGuard(UndoCursors(es))]
          /\ restore' = [op |-> "undo", view |-> i, positions |-> CursorPositions(UndoCursors(es))]
    /\ group' = [group EXCEPT !.undone = TRUE]
    /\ goal' = NoGoal

(* BufferView::redo by view i: the buffer redoes the group; the view's    *)
(* cursors are replaced by RedoCursors of the redone edits.                *)
Redo(i) ==
    /\ events = <<>>
    /\ group.undone
    /\ lines' = ApplyEdits(lines, group.edits)
    /\ events' = EventsOf(group.edits)
    /\ slots' = [slots EXCEPT ![i].cursors = ReleaseGuard(RedoCursors(group.edits))]
    /\ restore' = [op |-> "redo", view |-> i, positions |-> group.after]
    /\ group' = [group EXCEPT !.undone = FALSE]
    /\ goal' = NoGoal

(* The editor drains the event queue: the oldest event is fanned out. *)
HandleEvent ==
    /\ events # <<>>
    /\ slots' = FanOut(slots, Head(events))
    /\ events' = Tail(events)
    /\ UNCHANGED <<lines, group, goal, restore>>

Next ==
    \/ \E c \in Clients : Open(c)
    \/ \E i \in Live : Place(i)
    \/ \E i \in Live, t \in Texts : InsertTextAtCursorPositions(i, t)
    \/ \E i \in Live : DeleteTextInCursorRanges(i)
    \/ \E i \in Live : Undo(i)
    \/ \E i \in Live : Redo(i)
    \/ HandleEvent

Spec == Init /\ [][Next]_vars

(***************************************************************************)
(* Properties.                                                             *)
(***************************************************************************)

(* Every slot holds a view of a client with at least one and at most      *)
(* MaxCursors cursors, and no client has two views on the buffer.         *)
TypeOK ==
    /\ Len(lines) = 1
    /\ \A i \in Live :
          /\ slots[i].client \in Clients
          /\ Len(slots[i].cursors) \in 1 .. MaxCursors
          /\ \A j \in Live : i # j => slots[i].client # slots[j].client
    /\ \A k \in DOMAIN events : events[k].kind \in {"Insert", "Delete"}

(* Once the events of an edit are fanned out, the buffer holds the text   *)
(* the one-shot edit gives and every cursor of every view, the editing    *)
(* view's and the others', is where the one-shot edit moves it: issuing  *)
(* the edits from the last cursor to the first, each in the content as    *)
(* the earlier ones left it, and fanning the events out in issue order    *)
(* converge (spec section 5, Ordering).                                  *)
ViewsConverge ==
    events = <<>> /\ restore.op = "none" => lines = goal.lines /\ slots = goal.slots

(* Once a redo's events are fanned out, the redoing view's cursors are    *)
(* where the edit that made the group left the editing view's cursors:   *)
(* BufferView::redo moves the caret of each later edit back across the   *)
(* earlier ones so that the fan-out of the redone edits moves it forward  *)
(* again (buffer_view.rs:461-472).                                         *)
RedoRestoresCursors ==
    events = <<>> /\ restore.op = "redo" => CursorPositions(slots[restore.view].cursors) = restore.positions

(* Once an undo's events are fanned out, the undoing view's cursors are   *)
(* still at the starts of the undone edits, where BufferView::undo puts   *)
(* them (buffer_view.rs:435-438): the fan-out of the undone edits does    *)
(* not move them again.                                                    *)
UndoKeepsCursors ==
    events = <<>> /\ restore.op = "undo" => CursorPositions(slots[restore.view].cursors) = restore.positions

====
