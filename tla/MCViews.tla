-------------------------------- MODULE MCViews -------------------------------
(* The bounds of MCBufferViews for the registry and of MCMovement for the  *)
(* movement engine, in one run.                                            *)
EXTENDS Views, Naturals, Sequences, TLC

CONSTANTS c1, c2

MCClients == {c1, c2}

MCTexts == {<<"x">>}

MCInitLine == <<>>

MCContents ==
    { << <<"a", "b">>, <<"c", " ", "e">>, <<"e", "f", "g", "h">>, <<"i", " ", "k">> >>,
      << <<"a", ".", "b">>, <<>>, <<" ", " ">>, <<" ", ".", "a", " ">> >> }

(* The registry's quiet states in which every cursor lies in the line     *)
(* (see MCBufferViews).                                                    *)
MCQuietInLine ==
    events = <<>> =>
        \A i \in R!Live : \A k \in DOMAIN slots[i].cursors :
            \A q \in {slots[i].cursors[k].anchor, slots[i].cursors[k].position} :
                q.col <= Len(lines[1])

(* The clients are interchangeable: no action tells them apart. *)
MCSymmetry == Permutations(MCClients)
=============================================================================
