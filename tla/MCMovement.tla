------------------------------ MODULE MCMovement ------------------------------
(* Bounds for checking the movement engine: the buffer of the movement    *)
(* unit test (buffer_view.rs:747), the word-motion buffer of the second    *)
(* test with its indented line, and a buffer with a symbol, an empty line  *)
(* and a line of blanks; counts up to MaxCount, up to two cursors.         *)
EXTENDS Movement

MCContents ==
    { << <<"a", "b">>, <<"c", " ", "e">>, <<"e", "f", "g", "h">>, <<"i", " ", "k">> >>,
      << <<"a", ".", "b">>, <<>>, <<" ", " ">>, <<" ", ".", "a", " ">> >> }
====
