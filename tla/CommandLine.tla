----------------------------- MODULE CommandLine -----------------------------
(***************************************************************************)
(* The command-line text that reaches the command parser: a line typed    *)
(* character by character (and erased) from a small alphabet.  Each      *)
(* reachable text is handed to CommandIter (the multi-command splitter)   *)
(* and every command it yields to CommandManager::parse, the way the      *)
(* dispatcher evaluates a submitted line with eval_command.  The          *)
(* properties are stated of the text typed so far, so every text of at    *)
(* most MaxInput characters is checked.                                    *)
(***************************************************************************)
EXTENDS Naturals, Sequences, SequencesExt, Command

CONSTANTS
    Alphabet,   \* the characters typed
    MaxInput    \* bound on the length of the typed line

VARIABLE line

Init == line = <<>>

Type(c) ==
    /\ Len(line) < MaxInput
    /\ line' = Append(line, c)

Erase ==
    /\ line # <<>>
    /\ line' = Front(line)

Next == (\E c \in Alphabet : Type(c)) \/ Erase

Spec == Init /\ [][Next]_line

(***************************************************************************)
(* Reference splitter, from spec section 4.I: commands are split on        *)
(* unescaped newlines, a backslash escapes the character after it (so a   *)
(* backslash-newline continues the command), '#' starts a comment to the  *)
(* end of the line, and blank commands are skipped.  It reads the text    *)
(* one character at a time in one of three modes.                         *)
(***************************************************************************)
Flush(st) ==
    LET cmd == TrimStart(st.cur)
    IN  [st EXCEPT !.cmds = IF cmd = <<>> THEN @ ELSE Append(@, cmd), !.cur = <<>>]

RefStep(st0, c) ==
    With(st0, LAMBDA st :
    CASE st.mode = "escape" -> [st EXCEPT !.cur = Append(@, c), !.mode = "normal"]
      [] st.mode = "comment" -> IF c = NL THEN [st EXCEPT !.mode = "normal"] ELSE st
      [] c = NL -> Flush(st)
      [] c = "#" -> [Flush(st) EXCEPT !.mode = "comment"]
      [] c = BS -> [st EXCEPT !.cur = Append(@, c), !.mode = "escape"]
      [] OTHER -> [st EXCEPT !.cur = Append(@, c)])

RefSplit(t) ==
    Flush(FoldLeft(RefStep, [cmds |-> <<>>, cur |-> <<>>, mode |-> "normal"], t)).cmds

(***************************************************************************)
(* Emitting a parsed command: the name, "!" if bang, and each argument,   *)
(* plain when it is a plain token of the grammar and quoted otherwise     *)
(* with a delimiter it does not contain.                                   *)
(***************************************************************************)
IsPlain(a) ==
    /\ a # <<>>
    /\ Head(a) # BS
    /\ \A k \in 1 .. Len(a) : ~EndsUnquoted(a[k])

Quote(a) ==
    CASE IsPlain(a) -> a
      [] "\"" \notin ToSet(a) -> <<"\"">> \o a \o <<"\"">>
      [] "'" \notin ToSet(a) -> <<"'">> \o a \o <<"'">>
      [] OTHER -> <<"[">> \o a \o <<"]">>

EmitCommand(name, res) ==
    FoldLeft(LAMBDA acc, a : acc \o <<" ">> \o Quote(a),
             name \o (IF res.bang THEN <<"!">> ELSE <<>>), res.args)

(***************************************************************************)
(* Properties.                                                             *)
(***************************************************************************)

(* The line is typed text, and the commands CommandIter yields are never   *)
(* empty (it skips blank lines and comment-only lines).                   *)
TypeOK ==
    /\ line \in Seq(Alphabet) /\ Len(line) <= MaxInput
    /\ \A k \in 1 .. Len(CommandIterOf(line).cmds) : CommandIterOf(line).cmds[k] # <<>>

(* CommandIter::next never panics, whatever the user types: its scan       *)
(* steps over the byte after a backslash without checking that there is   *)
(* one.                                                                    *)
IterNeverPanics == ~CommandIterOf(line).panic

(* Whenever CommandIter does not panic, it yields exactly the commands of *)
(* the reference splitter: the same split points at newlines, escapes and  *)
(* comments, the same leading-whitespace trimming, nothing blank.          *)
IterMatchesReference ==
    ~CommandIterOf(line).panic => CommandIterOf(line).cmds = RefSplit(line)

(* Spec law (section 8): parsing an emitted command yields the same        *)
(* command, bang and arguments: what parse accepts, its tokenizer can read  *)
(* back once quoted.                                                       *)
ParseRoundTrip ==
    \A res \in {Parse(line)} :
        res.ok =>
          LET name == CHOOSE n \in Builtins[res.source].names : TRUE
          IN  Parse(EmitCommand(name, res)) = res

(* The command grammar (section 6) takes '#' as a comment only outside of  *)
(* arguments: a line whose only command parses, with an argument holding a  *)
(* '#', reaches parse whole rather than cut at the '#'.                    *)
HashInArgumentKept ==
    \A res \in {Parse(line)} :
        (/\ NL \notin ToSet(line) /\ BS \notin ToSet(line)
         /\ res.ok
         /\ \E k \in 1 .. Len(res.args) : "#" \in ToSet(res.args[k]))
        => CommandIterOf(line).cmds = <<TrimStart(line)>>

(* CommandIter splits a line the way the command grammar of section 6      *)
(* reads it: it never panics, and a '#' inside an argument is part of the *)
(* argument, not a comment.                                               *)
IterFollowsGrammar == IterNeverPanics /\ HashInArgumentKept

=============================================================================
