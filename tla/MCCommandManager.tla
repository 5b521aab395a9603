-------------------------- MODULE MCCommandManager --------------------------
(***************************************************************************)
(* The command table of the unit tests of src/lib/command.rs, shortened:  *)
(* "a" takes a bang and one parameter (the tests' "c" takes three), "aa"  *)
(* takes neither (for CommandDoesNotAcceptBang).  The history receives    *)
(* two distinct lines and the empty one.  The picker's bounds are those  *)
(* of MCPicker: one- and two-letter names, a word, a command, and a        *)
(* stand-in matcher that scores a subsequence match as SkimMatcherV2 does  *)
(* in kind (longer, tighter matches score higher; the empty pattern       *)
(* matches everything with score 0).                                       *)
(***************************************************************************)
EXTENDS CommandManager, Naturals, Sequences

MCBuiltins ==
    << [names |-> {<<"a">>}, bang |-> TRUE, params |-> 1],
       [names |-> {<<"a", "a">>}, bang |-> FALSE, params |-> 0] >>

MCAlphabet == {"a", " ", "\\", "\n", "#", "\"", "'", "!", "[", "]"}

MCLines == {"", "x", "y"}

(* capacity() of VecDeque::with_capacity(10) with the std VecDeque of    *)
(* Rust 1.67 and later (before, it is 15: a power of two, minus one).     *)
MCCapacityCurrent == 10

RECURSIVE IsSubsequence(_, _)
IsSubsequence(p, t) ==
    IF p = <<>> THEN TRUE
    ELSE IF t = <<>> THEN FALSE
    ELSE IF Head(p) = Head(t) THEN IsSubsequence(Tail(p), Tail(t))
    ELSE IsSubsequence(p, Tail(t))

MCMatch(text, pattern) ==
    IF ~IsSubsequence(pattern, text) THEN {}
    ELSE IF pattern = <<>> THEN {0}
    ELSE {2 * Len(pattern) - (Len(text) - Len(pattern))}

MCWords == <<<<"a", "b">>>>
MCCommands == <<<<"b">>>>
MCNames == {<<"a">>, <<"b", "a">>}
MCPatterns == {<<>>, <<"a">>}

MCEntryLists == {<<>>, <<<<"a">>, <<"b", "a">>, <<"a">>>>}


(* The INI lines of MCIniText. *)
MCLineShapes ==
    { <<"[", "a", "]">>, <<"[", "]">>, <<"[", "a">>, <<"[", "a", "]", "]">>,
      <<"k", "=", "v">>, <<"k", "=">>, <<"=", "v">>, <<"k">>,
      <<";", "=">>, <<>> }

=============================================================================
