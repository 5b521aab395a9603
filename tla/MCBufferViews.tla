--------------------------- MODULE MCBufferViews ------------------------------
(* Bounds for checking the buffer view registry: two clients, a line that  *)
(* grows to MaxLen characters, a one- and a two-character insert.          *)
EXTENDS BufferViews

CONSTANTS c1, c2

MCClients == {c1, c2}

MCTexts == {<<"x">>}

MCInitLine == <<>>

(* The state space is bounded to quiet states in which every cursor lies *)
(* in the line.  An undo's fan-out can leave a caret past the end of the  *)
(* line (the view_undo_cursors run); the content clamps such a position,  *)
(* and the reference one-shot edit, which does not, would stop meaning    *)
(* anything from there on.                                                *)
MCQuietInLine ==
    events = <<>> =>
        \A i \in Live : \A k \in DOMAIN slots[i].cursors :
            \A q \in {slots[i].cursors[k].anchor, slots[i].cursors[k].position} :
                q.col <= Len(lines[1])

(* The clients are interchangeable: no action tells them apart. *)
MCSymmetry == Permutations(MCClients)
=============================================================================
