--------------------------------- MODULE MCTui ---------------------------------
(***************************************************************************)
(* A terminal three columns wide and three or five rows high (five is    *)
(* the least height at which the select list can take two rows), tabs    *)
(* of two cells, up to two select entries, and three buffers: one whose   *)
(* first line ends in a tab two cells from the right edge, one whose      *)
(* first line is as wide as the terminal, and one of short lines only.    *)
(* Heights of one row or none are left out: on a one-row screen the row   *)
(* draw_text prints is overwritten by the status bar, and no terminal     *)
(* reports zero rows (see the hazard at tui.rs:285).                       *)
(***************************************************************************)
EXTENDS Tui

MCSizes ==
    { [width |-> 3, height |-> 3], [width |-> 3, height |-> 5] }

MCDocs ==
    { << <<"c", "c", "t">>, <<"c">> >>,
      << <<"c", "c", "c">>, <<>>, <<"c">> >>,
      << <<"c">>, <<>>, <<"c">> >> }

=============================================================================
