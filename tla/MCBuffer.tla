------------------------------ MODULE MCBuffer -------------------------------
(* Bounds for checking a Buffer.  The code's content operations are used  *)
(* on single-line texts, where they are exact; the reference splices are   *)
(* used to check the history with multi-line edits.                        *)
EXTENDS Buffer

(* One-character typing and a two-character paste, one line. *)
MCLineTexts == {<<"a">>, <<"b">>, <<"a", "b">>}

MCLineInit == {<<"a">>}

(* Typing across lines. *)
MCTypedTexts == {<<"a">>, <<NL>>}

MCMultiInit == {<<"a", NL, "b">>}

MCCursors == {0, 1}
=============================================================================
