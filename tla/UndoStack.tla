------------------------------ MODULE UndoStack -------------------------------
(***************************************************************************)
(* What a buffer's undo history promises, without edits, texts or groups: *)
(* a stack of the contents the buffer had at each committed point and a   *)
(* position in it (spec section 4.C: grouped undo/redo).                   *)
(*                                                                         *)
(*   content  the buffer's text;                                           *)
(*   stack    stack[k + 1] is the content at committed point k;            *)
(*   pos      the committed point the buffer is at, or, while a group of   *)
(*            edits is open, the one the group started from;               *)
(*   open     a group of edits is open (not yet committed).                *)
(*                                                                         *)
(* An edit discards every point after pos and opens a group; a commit     *)
(* pushes the content; undo and redo commit an open group and then move   *)
(* one point, restoring that point's content exactly.                     *)
(***************************************************************************)
EXTENDS Naturals, Sequences

VARIABLES content, stack, pos, open

vars == <<content, stack, pos, open>>

Init ==
    /\ stack = <<content>>
    /\ pos = 0
    /\ open = FALSE

(* Any change of the text: the redo points are gone.  While a group is    *)
(* open, pos is already the last point.                                    *)
Edit ==
    /\ stack' = SubSeq(stack, 1, pos + 1)
    /\ open' = TRUE
    /\ UNCHANGED pos

Commit ==
    /\ open
    /\ stack' = Append(stack, content)
    /\ pos' = pos + 1
    /\ open' = FALSE
    /\ UNCHANGED content

(* The stack and the position after the commit undo and redo start with. *)
CommittedStack == IF open THEN Append(stack, content) ELSE stack

CommittedPos == IF open THEN pos + 1 ELSE pos

Undo ==
    /\ CommittedPos > 0
    /\ stack' = CommittedStack
    /\ pos' = CommittedPos - 1
    /\ content' = CommittedStack[CommittedPos]
    /\ open' = FALSE

Redo ==
    /\ stack' = CommittedStack
    /\ open' = FALSE
    /\ IF CommittedPos < Len(CommittedStack) - 1
       THEN /\ pos' = CommittedPos + 1
            /\ content' = CommittedStack[CommittedPos + 2]
       ELSE /\ pos' = CommittedPos
            /\ UNCHANGED content

(* Forgetting the history keeps the text. *)
Clear ==
    /\ stack' = <<content>>
    /\ pos' = 0
    /\ open' = FALSE
    /\ UNCHANGED content

Next == Edit \/ Commit \/ Undo \/ Redo \/ Clear

Spec == Init /\ [][Next]_vars

=============================================================================
