---------------------------- MODULE MCCommandLine ----------------------------
(***************************************************************************)
(* The command table of the unit tests of src/lib/command.rs, shortened:  *)
(* "a" takes a bang and one parameter (the tests' "c" takes three), "aa"      *)
(* takes neither (for CommandDoesNotAcceptBang).                          *)
(***************************************************************************)
EXTENDS CommandLine

MCBuiltins ==
    << [names |-> {<<"a">>}, bang |-> TRUE, params |-> 1],
       [names |-> {<<"a", "a">>}, bang |-> FALSE, params |-> 0] >>

MCAlphabet == {"a", " ", "\\", "\n", "#", "\"", "'", "!", "[", "]"}

=============================================================================
