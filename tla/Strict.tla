-------------------------------- MODULE Strict --------------------------------
(***************************************************************************)
(* With(v, F): F applied to the value of v, v evaluated once.  TLC may     *)
(* evaluate a LET definition or an operator argument again at each of its  *)
(* uses; a recursive operator or a fold step that uses its argument many   *)
(* times passes it on through With so that the cost stays linear in the    *)
(* depth of the recursion.                                                 *)
(***************************************************************************)

With(v, F(_)) == CHOOSE r \in {F(x) : x \in {v}} : TRUE

=============================================================================
