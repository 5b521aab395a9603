--------------------------- MODULE BufferUndoStack ----------------------------
(***************************************************************************)
(* Buffer implements UndoStack: insert_text, delete_range, commit_edits,   *)
(* undo, redo and history.clear() of src/src/buffer.rs and history.rs      *)
(* behave as an undo stack of the buffer's contents.                       *)
(*                                                                         *)
(* The stack of the mapping is AbstractStack, computed from the text and   *)
(* the History alone.  absStack holds its value in every state (it is set  *)
(* from the next state's variables in each step, and is a function of     *)
(* them, so it adds no state): that spares evaluating the replay of the    *)
(* history under a prime, which TLC does without caching.                 *)
(***************************************************************************)
EXTENDS Buffer

VARIABLE absStack

refinementVars == <<vars, absStack>>

RefinementInit == Init /\ absStack = AbstractStack

RefinementNext ==
    /\ Next
    /\ absStack' = AbstractStackOf(lines', texts', edits', groupRanges', state')

RefinementSpec == RefinementInit /\ [][RefinementNext]_refinementVars

U == INSTANCE UndoStack
        WITH content <- lines, stack <- absStack, pos <- AbstractPos, open <- AbstractOpen

(* The buffer behaves as an undo stack of contents: the text it had at     *)
(* every committed point can be rebuilt from the history; an edit, and     *)
(* every merge of try_merge_with_last, leaves the texts rebuilt for the    *)
(* points before it unchanged and drops those after it; undo and redo      *)
(* commit an open group, move exactly one point and restore its text; and *)
(* clear keeps the text.                                                   *)
UndoStackRefined == U!Spec

=============================================================================
