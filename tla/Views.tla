-------------------------------- MODULE Views ---------------------------------
(***************************************************************************)
(* The two halves of buffer_view.rs: the view registry with its edits,    *)
(* undo, redo and event fan-out (BufferViews), and move_cursors, the      *)
(* movement engine, on one view of a buffer that does not change while   *)
(* its cursors move (Movement).  move_cursors reads the content and       *)
(* writes only the moved view's cursors, and the edits read a view's      *)
(* cursors and never the way they got there, so each half is checked on  *)
(* its own: the part chosen at the start moves while the other stays at   *)
(* its initial state, and one run covers the sum of the state spaces.    *)
(***************************************************************************)
CONSTANTS
    Clients, Texts, InitLine, MaxLen,   \* the registry
    Contents, MaxCount,                 \* the movement engine
    MaxCursors                          \* bound on the cursors of a view

VARIABLES
    part,                                     \* the half that moves
    lines, slots, events, group, goal, restore, \* the registry
    content, cursors, saved                   \* the movement engine

R == INSTANCE BufferViews

M == INSTANCE Movement

registryVars == <<lines, slots, events, group, goal, restore>>

movementVars == <<content, cursors, saved>>

vars == <<part, registryVars, movementVars>>

(* The half that stays still keeps one initial state: the movement engine *)
(* a new view's cursor on one of the contents.                             *)
Init ==
    /\ part \in {"registry", "movement"}
    /\ R!Init
    /\ IF part = "movement" THEN M!Init
       ELSE /\ content = CHOOSE ls \in Contents : TRUE
            /\ cursors = M!NewCursors
            /\ saved = <<>>

Next ==
    \/ part = "registry" /\ R!Next /\ UNCHANGED <<part, movementVars>>
    \/ part = "movement" /\ M!Next /\ UNCHANGED <<part, registryVars>>

Spec == Init /\ [][Next]_vars

(***************************************************************************)
(* Properties: those of the two halves (see their modules).                *)
(***************************************************************************)

TypeOK == part \in {"registry", "movement"} /\ R!TypeOK /\ M!TypeOK

(* The fan-out of a multi-cursor edit leaves every view's cursors where    *)
(* the one-shot edit puts them.                                            *)
ViewsConverge == part = "registry" => R!ViewsConverge

(* The fan-out of a redo brings the redoing view's carets back to where   *)
(* the edit left them.                                                     *)
RedoRestoresCursors == part = "registry" => R!RedoRestoresCursors

=============================================================================
