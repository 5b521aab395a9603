-------------------------- MODULE MCContentEdits ----------------------------
(* Bounds for checking BufferContent against the splice meaning of its     *)
(* operations.                                                             *)
EXTENDS ContentEdits

MCChars == {"a", "b"}

(* One character, a newline, and multi-line texts with and without a       *)
(* final newline: the shapes a paste or an undo inserts.                   *)
MCTexts == {<<"a">>, <<NL>>, <<"b", NL>>, <<NL, "b">>}

(* What typing produces: one character or a newline at a time. *)
MCTypedTexts == {<<"a">>, <<NL>>}

MCInitTexts == {<<"a", "b">>, <<"a", NL, "b">>}
=============================================================================
