------------------------------- MODULE Command -------------------------------
(***************************************************************************)
(* The command language of src/lib/command.rs, as operators on texts       *)
(* (tuples of one-character strings):                                      *)
(*                                                                         *)
(*   CommandIterOf   CommandIter: the commands of a multi-line text;       *)
(*   NextToken       CommandTokenIter::next, and TokensOf the whole stream; *)
(*   FindCommand     CommandManager::find_command;                         *)
(*   Parse           CommandManager::parse;                                *)
(*   AddToHistory    CommandManager::add_to_history.                       *)
(*                                                                         *)
(* A panic of the code (an index or slice out of bounds) is a field panic  *)
(* of the result.  Builtins is the builtin command table, a sequence of    *)
(* [names, bang, params] records (bang: bang_usage is Some).               *)
(***************************************************************************)
EXTENDS Naturals, Sequences, SequencesExt, Strict

CONSTANT Builtins

NL == "\n"
BS == "\\"

(* The characters the model's inputs use that Rust counts as whitespace. *)
IsWhitespace(c) == c \in {" ", NL}

(* str::trim_start *)
RECURSIVE TrimStart(_)
TrimStart(t) == IF t # <<>> /\ IsWhitespace(Head(t)) THEN TrimStart(Tail(t)) ELSE t

(* trim_start_matches(|c| c.is_ascii_whitespace() || c == '\\') *)
RECURSIVE TrimTokenStart(_)
TrimTokenStart(t) ==
    IF t # <<>> /\ (IsWhitespace(Head(t)) \/ Head(t) = BS) THEN TrimTokenStart(Tail(t)) ELSE t

(***************************************************************************)
(* CommandIter::next.  Scan(r, i) is the inner loop at byte i (0-based) of *)
(* the trimmed rest r: a newline ends the command, a backslash skips the   *)
(* next byte, '#' ends the command and skips to the end of the line.  The  *)
(* loop tests i = len only before reading bytes[i]: a backslash as the     *)
(* last byte moves i to len + 1 and bytes[i] panics.                       *)
(***************************************************************************)
RECURSIVE CommandIterOf(_), ScanNoEscape(_, _), Scan(_, _)

EmitKeepEmpty(cmd, rest) ==
    With(CommandIterOf(rest), LAMBDA more :
        [cmds |-> <<cmd>> \o more.cmds, panic |-> more.panic])

Emit(cmd, rest) ==
    With(CommandIterOf(rest), LAMBDA more :
        IF cmd = <<>> THEN more
        ELSE [cmds |-> <<cmd>> \o more.cmds, panic |-> more.panic])

CommandIterOf(t) ==
    With(TrimStart(t), LAMBDA r :
        IF r = <<>> THEN [cmds |-> <<>>, panic |-> FALSE] ELSE Scan(r, 0))

ScanNoEscape(r, i) ==
    IF i = Len(r) THEN [cmds |-> <<r>>, panic |-> FALSE]
    ELSE IF i > Len(r) THEN [cmds |-> <<>>, panic |-> TRUE]
    ELSE IF r[i + 1] = NL THEN Emit(SubSeq(r, 1, i), SubSeq(r, i + 1, Len(r)))
    ELSE IF r[i + 1] = "#"
    THEN LET j == SelectInSubSeq(r, i + 1, Len(r), LAMBDA c : c = NL)
             eol == IF j = 0 THEN Len(r) ELSE j - 1
         IN  Emit(SubSeq(r, 1, i), SubSeq(r, eol + 1, Len(r)))
    ELSE ScanNoEscape(r, i + 1)

Scan(r, i) ==
    IF i = Len(r) THEN [cmds |-> <<r>>, panic |-> FALSE]
    ELSE IF i > Len(r) THEN [cmds |-> <<>>, panic |-> TRUE]
    ELSE IF r[i + 1] = NL THEN Emit(SubSeq(r, 1, i), SubSeq(r, i + 1, Len(r)))
    ELSE IF r[i + 1] = BS THEN Scan(r, i + 2)
    ELSE IF r[i + 1] = "#"
    THEN LET j == SelectInSubSeq(r, i + 1, Len(r), LAMBDA c : c = NL)
             eol == IF j = 0 THEN Len(r) ELSE j - 1
         IN  Emit(SubSeq(r, 1, i), SubSeq(r, eol + 1, Len(r)))
    ELSE Scan(r, i + 1)

(***************************************************************************)
(* CommandTokenIter::next: [kind, text, rest], or kind "none" at the end.  *)
(***************************************************************************)
Token(kind, text, rest) == [kind |-> kind, text |-> text, rest |-> rest]

(* A quoted token: up to the closing delimiter, else Unterminated. *)
QuotedKeepClose(r, close) ==
    LET s == Tail(r)
        i == SelectInSeq(s, LAMBDA c : c = close)
    IN  IF i = 0 THEN Token("Unterminated", s, <<>>)
        ELSE Token("Text", SubSeq(s, 1, i), SubSeq(s, i + 1, Len(s)))

Quoted(r, close) ==
    LET s == Tail(r)
        i == SelectInSeq(s, LAMBDA c : c = close)
    IN  IF i = 0 THEN Token("Unterminated", s, <<>>)
        ELSE Token("Text", SubSeq(s, 1, i - 1), SubSeq(s, i + 1, Len(s)))

EndsUnquoted(c) == IsWhitespace(c) \/ c \in {"!", "\"", "'", "["}

NextToken(t) ==
    With(TrimTokenStart(t), LAMBDA r :
        IF r = <<>> THEN Token("none", <<>>, <<>>)
        ELSE IF Head(r) \in {"\"", "'"} THEN Quoted(r, Head(r))
        ELSE IF Head(r) = "[" THEN Quoted(r, "]")
        ELSE IF Head(r) = "!" THEN Token("Bang", <<"!">>, Tail(r))
        ELSE LET i == SelectInSeq(r, EndsUnquoted)
             IN  IF i = 0 THEN Token("Text", r, <<>>)
                 ELSE Token("Text", SubSeq(r, 1, i - 1), SubSeq(r, i, Len(r))))

(* The whole token stream of a text, as [kind, text] records. *)
RECURSIVE TokensOf(_)
TokensOf(t) ==
    With(NextToken(t), LAMBDA tok :
        IF tok.kind = "none" THEN <<>>
        ELSE <<[kind |-> tok.kind, text |-> tok.text]>> \o TokensOf(tok.rest))

(* CommandManager::find_command: the first builtin with that name, or 0. *)
FindCommand(name) == SelectInSeq(Builtins, LAMBDA b : name \in b.names)

(***************************************************************************)
(* CommandManager::parse: the name token, an optional bang, the command    *)
(* lookup and its bang check, then the argument loop, which stops at the   *)
(* first token that is not a Text or that exceeds the parameter count,     *)
(* and finally the check for too few arguments.                            *)
(***************************************************************************)
Err(kind, token) == [ok |-> FALSE, error |-> kind, token |-> token]

ParseTokens(text, toks) ==
    LET name == toks[1].text
        bang == Len(toks) >= 2 /\ toks[2].kind = "Bang"
        argToks == SubSeq(toks, IF bang THEN 3 ELSE 2, Len(toks))
        src == FindCommand(name)
        pc == Builtins[src].params
        stops == {k \in 1 .. Len(argToks) : argToks[k].kind # "Text" \/ k > pc}
        stop == argToks[Min(stops)]
    IN  IF toks = <<>> THEN Err("InvalidCommandName", TrimStart(text))
        ELSE IF toks[1].kind # "Text" THEN Err("InvalidCommandName", toks[1].text)
        ELSE IF src = 0 THEN Err("CommandNotFound", name)
        ELSE IF bang /\ ~Builtins[src].bang THEN Err("CommandDoesNotAcceptBang", name)
        ELSE IF stops # {}
        THEN CASE stop.kind = "Text" -> Err("TooManyArguments", stop.text)
               [] stop.kind = "Bang" -> Err("InvalidArgument", stop.text)
               [] OTHER -> Err("UnterminatedArgument", stop.text)
        ELSE IF Len(argToks) < pc
        THEN Err("TooFewArguments",
                 IF argToks # <<>> THEN Last(argToks).text ELSE name)
        ELSE [ok |-> TRUE, source |-> src, bang |-> bang,
              args |-> [k \in 1 .. Len(argToks) |-> argToks[k].text]]

Parse(text) == With(TokensOf(text), LAMBDA toks : ParseTokens(text, toks))

=============================================================================
