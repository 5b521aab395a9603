------------------------------ MODULE MCPicker -------------------------------
(* Bounds for checking the picker.  Names are one- or two-letter texts;   *)
(* the stand-in matcher scores a subsequence match by the pattern length  *)
(* minus the number of letters skipped, and the empty pattern matches     *)
(* everything with score 0, as SkimMatcherV2 does.                        *)
EXTENDS Picker

RECURSIVE IsSubsequence(_, _)
IsSubsequence(p, t) ==
    IF p = <<>> THEN TRUE
    ELSE IF t = <<>> THEN FALSE
    ELSE IF Head(p) = Head(t) THEN IsSubsequence(Tail(p), Tail(t))
    ELSE IsSubsequence(p, Tail(t))

MCMatch(text, pattern) ==
    IF ~IsSubsequence(pattern, text) THEN {}
    ELSE IF pattern = <<>> THEN {0}
    ELSE {2 * Len(pattern) - (Len(text) - Len(pattern))}

MCWords == <<<<"a", "b">>>>
MCCommands == <<<<"b">>>>
MCNames == {<<"a">>, <<"b", "a">>}
MCPatterns == {<<>>, <<"a">>}
=============================================================================
