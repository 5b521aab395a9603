------------------------------- MODULE IniParse -------------------------------
(***************************************************************************)
(* Ini::parse of src/src/ini.rs as operators: ParseLine is one iteration   *)
(* of its loop over text.lines(), ParseResult the whole call on given      *)
(* sections and properties (parse appends to what the Ini holds).  An      *)
(* error is an IniError record [ok |-> FALSE, kind, pos]; [ok |-> TRUE] is  *)
(* Ok(()).  The module ends with a reference reading of a text, written    *)
(* from spec section 4.K.  Texts are character sequences; parse reads     *)
(* them through str::lines (RustLines).                                    *)
(***************************************************************************)
EXTENDS Naturals, Sequences, SequencesExt, BufferContent, Strict

IniError(kind, line, col) == [ok |-> FALSE, kind |-> kind, pos |-> Pos(line, col)]

NoError == [ok |-> TRUE]

(* The 1-based index of the first c in s, 0 for none (str::find). *)
Find(s, c) == SelectInSeq(s, LAMBDA x : x = c)

CloseLastPastEnd(secs, end) ==
    IF secs = <<>> THEN secs ELSE [secs EXCEPT ![Len(secs)].end = end + 1]

(* sections.last_mut().properties.end = end, if there is a section. *)
CloseLast(secs, end) ==
    IF secs = <<>> THEN secs ELSE [secs EXCEPT ![Len(secs)].end = end]

PushSectionNoClose(secs, name, start) ==
    Append(secs, [name |-> name, start |-> start, end |-> start])

(* A new section starts at the current number of properties, and closes  *)
(* the previous one there.                                                *)
PushSection(secs, name, start) ==
    Append(CloseLast(secs, start), [name |-> name, start |-> start, end |-> start])

(***************************************************************************)
(* One iteration of the loop of Ini::parse, on line number i (0-based):   *)
(* st holds sections, properties and the error once one was returned;     *)
(* after an error the loop has returned and later lines change nothing.    *)
(***************************************************************************)
ParseLineNoEndCheck(st, i, line) ==
    LET rest == Tail(line)
        j    == Find(rest, "]")
        eq   == Find(line, "=")
        Fail(kind, col) == [st EXCEPT !.error = IniError(kind, i, col)]
    IN  CASE st.error # NoError \/ line = <<>> \/ Head(line) = ";" -> st
          [] Head(line) = "[" /\ j = 1 -> Fail("EmptySectionName", 1)
          [] Head(line) = "[" /\ j > 1 ->
                [st EXCEPT !.sections = PushSection(@, SubSeq(rest, 1, j - 1), Len(st.properties))]
          [] Head(line) = "[" -> Fail("ExpectedCloseSquareBrackets", Len(rest) + 1)
          [] st.sections = <<>> -> Fail("ExpectedSection", 0)
          [] eq = 1 -> Fail("EmptyPropertyName", 0)
          [] eq > 1 ->
                [st EXCEPT !.properties = Append(@, [key |-> SubSeq(line, 1, eq - 1),
                                                     value |-> SubSeq(line, eq + 1, Len(line))])]
          [] OTHER -> Fail("ExpectedEquals", Len(line))

ParseLine(st, i, line) ==
    LET rest == Tail(line)
        j    == Find(rest, "]")
        eq   == Find(line, "=")
        Fail(kind, col) == [st EXCEPT !.error = IniError(kind, i, col)]
    IN  CASE st.error # NoError \/ line = <<>> \/ Head(line) = ";" -> st
          [] Head(line) = "[" /\ j = 1 -> Fail("EmptySectionName", 1)
          [] Head(line) = "[" /\ j > 1 /\ Len(rest) - (j - 1) > 1 ->
                Fail("SectionNotEndedWithCloseSquareBrackets", j)
          [] Head(line) = "[" /\ j > 1 ->
                [st EXCEPT !.sections = PushSection(@, SubSeq(rest, 1, j - 1), Len(st.properties))]
          [] Head(line) = "[" -> Fail("ExpectedCloseSquareBrackets", Len(rest) + 1)
          [] st.sections = <<>> -> Fail("ExpectedSection", 0)
          [] eq = 1 -> Fail("EmptyPropertyName", 0)
          [] eq > 1 ->
                [st EXCEPT !.properties = Append(@, [key |-> SubSeq(line, 1, eq - 1),
                                                     value |-> SubSeq(line, eq + 1, Len(line))])]
          [] OTHER -> Fail("ExpectedEquals", Len(line))

(***************************************************************************)
(* Ini::parse: the loop over text.lines(), then, when no error was        *)
(* returned, the last section is closed at the number of properties.      *)
(***************************************************************************)
ParseResult(secs, props, text) ==
    LET ls   == RustLines(text)
        step(st0, k) == With(st0, LAMBDA st : ParseLine(st, k - 1, ls[k]))
        out  == FoldLeft(step, [sections |-> secs, properties |-> props, error |-> NoError],
                         [k \in 1 .. Len(ls) |-> k])
    IN  [out EXCEPT !.sections = IF out.error = NoError THEN CloseLast(@, Len(out.properties))
                                 ELSE @]

(* What Ini::sections yields: each section's name and, through its        *)
(* PropertyIterator, the key/value pairs of its slice of properties.       *)
SectionsView(secs, props) ==
    [k \in 1 .. Len(secs) |->
        [name  |-> secs[k].name,
         props |-> SubSeq(props, secs[k].start + 1, secs[k].end)]]

(***************************************************************************)
(* Reference reading of a text, from spec section 4.K, stated per line:   *)
(* the error of a line does not depend on the lines after it, and the      *)
(* first line with an error is the one reported.  Where the spec lists     *)
(* two errors for one line ("[]x" is both empty and not ended by "]") the  *)
(* reference takes the empty name first.                                   *)
(***************************************************************************)
IsSkipped(l) == l = <<>> \/ Head(l) = ";"

IsHeader(l) == ~IsSkipped(l) /\ Head(l) = "["

(* The positions of c in l. *)
Where(l, c) == {k \in 1 .. Len(l) : l[k] = c}

HeaderError(l) ==
    LET close == Where(Tail(l), "]")
    IN  IF close = {} THEN "ExpectedCloseSquareBrackets"
        ELSE IF Min(close) = 1 THEN "EmptySectionName"
        ELSE IF Min(close) # Len(Tail(l)) THEN "SectionNotEndedWithCloseSquareBrackets"
        ELSE "none"

LineError(ls, i) ==
    LET l == ls[i]
    IN  IF IsSkipped(l) THEN "none"
        ELSE IF IsHeader(l) THEN HeaderError(l)
        ELSE IF \A h \in 1 .. i - 1 : ~IsHeader(ls[h]) THEN "ExpectedSection"
        ELSE IF Where(l, "=") = {} THEN "ExpectedEquals"
        ELSE IF Min(Where(l, "=")) = 1 THEN "EmptyPropertyName"
        ELSE "none"

RefError(ls) ==
    LET bad == {i \in 1 .. Len(ls) : LineError(ls, i) # "none"}
    IN  IF bad = {} THEN [kind |-> "none", line |-> 0] ELSE [kind |-> LineError(ls, Min(bad)), line |-> Min(bad) - 1]

KeyValue(l) ==
    LET e == Min(Where(l, "="))
    IN  [key |-> SubSeq(l, 1, e - 1), value |-> SubSeq(l, e + 1, Len(l))]

(* Each header, in order, with the property lines up to the next header. *)
RefSections(ls) ==
    LET hs == SetToSortSeq({i \in 1 .. Len(ls) : IsHeader(ls[i])}, <)
        Upto(k) == IF k < Len(hs) THEN hs[k + 1] ELSE Len(ls) + 1
        Props(k) == SetToSortSeq({p \in hs[k] + 1 .. Upto(k) - 1 : ~IsSkipped(ls[p])}, <)
    IN  [k \in 1 .. Len(hs) |->
            [name  |-> SubSeq(Tail(ls[hs[k]]), 1, Min(Where(Tail(ls[hs[k]]), "]")) - 1),
             props |-> [m \in 1 .. Len(Props(k)) |-> KeyValue(ls[Props(k)[m]])]]]

=============================================================================
