------------------------------- MODULE Picker --------------------------------
(***************************************************************************)
(* The picker (src/lib/picker.rs) driven by the keys of the picker mode    *)
(* (src/src/mode/picker.rs) and by the modes that fill it with custom     *)
(* entries.                                                                *)
(*                                                                         *)
(*   customBuffer  custom_entries_buffer: slots reused across clears;      *)
(*   customLen     custom_entries_len: the live prefix of the buffer;      *)
(*   filtered      filtered_entries: [source, score] records, the source   *)
(*                 [kind |-> "custom" | "word" | "command", index];       *)
(*   cursor, scroll                                                        *)
(*                                                                         *)
(* The fuzzy matcher (SkimMatcherV2, an external crate) is the CONSTANT    *)
(* operator Match(text, pattern): the set of its scores, empty for no      *)
(* match.  sort_unstable_by promises only an order by descending score,    *)
(* so filtering may leave entries of equal score in any order.            *)
(***************************************************************************)
EXTENDS Naturals, Integers, Sequences, SequencesExt, Functions

CONSTANTS
    Match(_, _),      \* SkimMatcherV2::fuzzy_match, as a set of scores
    Words,            \* the word database's words, in index order
    Commands,         \* the command names, in source order
    Names,            \* names and descriptions of custom entries
    Patterns,         \* the read-line inputs typed while picking
    MaxHeight,        \* config.picker_max_height
    MaxCustom         \* bound on custom entries added before a clear

VARIABLES customBuffer, customLen, filtered, cursor, scroll

vars == <<customBuffer, customLen, filtered, cursor, scroll>>

Init ==
    /\ customBuffer = <<>>
    /\ customLen = 0
    /\ filtered = <<>>
    /\ cursor = 0
    /\ scroll = 0

MinOf(a, b) == IF a < b THEN a ELSE b

(* Picker::fuzzy_match: +1 for a match of exactly the pattern's length. *)
FuzzyMatch(text, pattern) ==
    {s + (IF Len(text) = Len(pattern) THEN 1 ELSE 0) : s \in Match(text, pattern)}

(* Picker::height *)
Height(maxh) == MinOf(Len(filtered), maxh)

(***************************************************************************)
(* Picker::move_cursor as a function of the cursor, the offset and the    *)
(* number of entries.  Moving past either end wraps, with a one-step      *)
(* hysteresis: from the last entry, +n first spends one step to reach 0.  *)
(***************************************************************************)
MoveCursorFrom(c, offset, len) ==
    LET endIndex == len - 1
    IN  IF len = 0 THEN c
        ELSE IF offset > 0
        THEN LET o  == IF c = endIndex THEN offset - 1 ELSE offset
                 c1 == IF c = endIndex THEN 0 ELSE c
             IN  IF o < endIndex - c1 THEN c1 + o ELSE endIndex
        ELSE IF offset < 0
        THEN LET o  == IF c = 0 THEN -offset - 1 ELSE -offset
                 c1 == IF c = 0 THEN endIndex ELSE c
             IN  IF o < c1 THEN c1 - o ELSE 0
        ELSE c

MoveCursor(offset) ==
    /\ cursor' = MoveCursorFrom(cursor, offset, Len(filtered))
    /\ UNCHANGED <<customBuffer, customLen, filtered, scroll>>

(* Picker::update_scroll, as the scroll it leaves. *)
ScrollForNoClamp(maxh) ==
    LET h == Height(maxh)
    IN  IF cursor < scroll THEN cursor
        ELSE IF cursor >= scroll + h THEN cursor + 1 - h
        ELSE scroll

ScrollFor(maxh) ==
    LET h == Height(maxh)
        s == IF cursor < scroll THEN cursor
             ELSE IF cursor >= scroll + h THEN cursor + 1 - h
             ELSE scroll
        room == IF Len(filtered) > h THEN Len(filtered) - h ELSE 0
    IN  MinOf(s, room)

(* The rendering of the picker calls update_scroll with the configured   *)
(* maximum height.                                                         *)
UpdateScroll ==
    /\ scroll' = ScrollFor(MaxHeight)
    /\ UNCHANGED <<customBuffer, customLen, filtered, cursor>>

ClearKeepFiltered ==
    /\ UNCHANGED <<filtered, cursor, scroll>>

(* Picker::clear_filtered, as a step of the other variables. *)
ClearFiltered ==
    /\ filtered' = <<>>
    /\ cursor' = 0
    /\ scroll' = 0

(* Picker::clear, which the picker mode calls on exit. *)
Clear ==
    /\ ClearFiltered
    /\ customLen' = 0
    /\ UNCHANGED customBuffer

AddedCustomInPlace(name, desc) ==
    [customBuffer EXCEPT ![customLen + 1] = [name |-> name, description |-> desc]]

(* Picker::add_custom_entry: reuse slot customLen if it exists. *)
AddedCustom(name, desc) ==
    IF customLen < Len(customBuffer)
    THEN [customBuffer EXCEPT ![customLen + 1] = [name |-> name, description |-> desc]]
    ELSE Append(customBuffer, [name |-> name, description |-> desc])

(* Picker::filter_custom_entry: the best score of name and description. *)
CustomScores(entry, pattern) ==
    LET ns == FuzzyMatch(entry.name, pattern)
        ds == FuzzyMatch(entry.description, pattern)
    IN  IF ns = {} THEN ds
        ELSE IF ds = {} THEN ns
        ELSE {IF a > b THEN a ELSE b : a \in ns, b \in ds}

Scored(kind, i, scores) ==
    IF scores = {} THEN <<>>
    ELSE <<[source |-> [kind |-> kind, index |-> i], score |-> CHOOSE s \in scores : TRUE]>>

(* The orders sort_unstable_by(|a, b| b.score.cmp(&a.score)) may produce: *)
(* every permutation of s whose scores do not increase.                    *)
SortedByScore(s) ==
    {t \in {[i \in 1 .. Len(s) |-> s[p[i]]] : p \in Bijection(1 .. Len(s), 1 .. Len(s))} :
        \A i \in 1 .. Len(t) - 1 : t[i].score >= t[i + 1].score}

AddCustomEntry(name, desc) ==
    /\ customLen < MaxCustom
    /\ customBuffer' = AddedCustom(name, desc)
    /\ customLen' = customLen + 1
    /\ UNCHANGED <<filtered, cursor, scroll>>

(* Picker::add_custom_entry_filtered: add, score against the pattern, and *)
(* re-sort the filtered entries if it matched; the cursor is left alone.  *)
AddCustomEntryFiltered(name, desc, pattern) ==
    LET entry == [name |-> name, description |-> desc]
        new   == Scored("custom", customLen, CustomScores(entry, pattern))
    IN  /\ customLen < MaxCustom
        /\ customBuffer' = AddedCustom(name, desc)
        /\ customLen' = customLen + 1
        /\ IF new = <<>> THEN UNCHANGED filtered
           ELSE filtered' \in SortedByScore(filtered \o new)
        /\ UNCHANGED <<cursor, scroll>>

(* Picker::filter: words, then commands, then custom entries, sorted, and *)
(* the cursor clamped into the new list.  scroll is left alone.           *)
FilterCandidatesOf(buf, len, pattern) ==
    FoldLeft(LAMBDA acc, i : acc \o Scored("word", i - 1, FuzzyMatch(Words[i], pattern)),
             <<>>, [i \in 1 .. Len(Words) |-> i])
    \o FoldLeft(LAMBDA acc, i : acc \o Scored("command", i - 1, FuzzyMatch(Commands[i], pattern)),
                <<>>, [i \in 1 .. Len(Commands) |-> i])
    \o FoldLeft(LAMBDA acc, i : acc \o Scored("custom", i, CustomScores(buf[i + 1], pattern)),
                <<>>, [i \in 1 .. len |-> i - 1])

FilterCandidates(pattern) == FilterCandidatesOf(customBuffer, customLen, pattern)

FilterNoClamp(pattern) ==
    /\ filtered' \in SortedByScore(FilterCandidates(pattern))
    /\ UNCHANGED <<customBuffer, customLen, cursor, scroll>>

Filter(pattern) ==
    /\ filtered' \in SortedByScore(FilterCandidates(pattern))
    /\ cursor' = MinOf(cursor, IF Len(filtered') > 0 THEN Len(filtered') - 1 ELSE 0)
    /\ UNCHANGED <<customBuffer, customLen, scroll>>

(* filtered_to_picker_entry: the name an entry of filtered stands for. *)
EntryName(e) ==
    CASE e.source.kind = "custom"  -> customBuffer[e.source.index + 1].name
      [] e.source.kind = "word"    -> Words[e.source.index + 1]
      [] e.source.kind = "command" -> Commands[e.source.index + 1]

(* Picker::current_entry: <<name>> of the entry at the cursor, or <<>>. *)
CurrentEntry ==
    IF cursor < Len(filtered) THEN <<EntryName(filtered[cursor + 1])>> ELSE <<>>

(***************************************************************************)
(* The keys of the picker mode (mode/picker.rs on_client_keys) while the  *)
(* read line is pending.  Any other key edits the read line: the picker   *)
(* is filtered with its input and move_cursor(0) leaves the cursor.       *)
(***************************************************************************)
KeyDown == MoveCursor(1)
KeyUp == MoveCursor(-1)
KeyPageDown == MoveCursor(Height(MaxHeight) \div 2)
KeyPageUp == MoveCursor(-(Height(MaxHeight) \div 2))
KeyHome == MoveCursor(-cursor)
KeyEnd == MoveCursor(Len(filtered) - cursor - 1)
KeyOther(pattern) == Filter(pattern)

(* Leaving the picker mode (on_exit) clears the picker. *)
Exit == Clear

Next ==
    \/ KeyDown \/ KeyUp \/ KeyPageDown \/ KeyPageUp \/ KeyHome \/ KeyEnd
    \/ \E p \in Patterns : KeyOther(p)
    \/ Exit
    \/ \E n, d \in Names : AddCustomEntry(n, d)
    \/ \E n, d \in Names, p \in Patterns : AddCustomEntryFiltered(n, d, p)
    \/ UpdateScroll

Spec == Init /\ [][Next]_vars

(***************************************************************************)
(* Properties.                                                             *)
(***************************************************************************)

Source == [kind : {"custom", "word", "command"}, index : Nat]

TypeOK ==
    /\ customBuffer \in Seq([name : Names, description : Names])
    /\ customLen \in 0 .. Len(customBuffer)
    /\ filtered \in Seq([source : Source, score : Int])
    /\ cursor \in Nat
    /\ scroll \in Nat

(* The cursor always designates an entry, or is 0 when there is none:     *)
(* move_cursor computes end_index - cursor in usize, which underflows and  *)
(* panics if a filter, a clear or an addition ever left it past the end.   *)
CursorInRange ==
    IF filtered = <<>> THEN cursor = 0 ELSE cursor < Len(filtered)

(* Every filtered custom entry refers to a live slot of the custom buffer  *)
(* and carries that slot's current score for some pattern: slots are       *)
(* reused after a clear, and a filtered entry surviving the clear would    *)
(* show (and pick) whatever entry was later written into its slot.         *)
FilteredEntriesLive ==
    \A i \in 1 .. Len(filtered) :
        filtered[i].source.kind = "custom" =>
            /\ filtered[i].source.index < customLen
            /\ \E p \in Patterns :
                  filtered[i].score \in CustomScores(customBuffer[filtered[i].source.index + 1], p)

(* After rendering, whatever the picker went through, the cursor's entry  *)
(* is among the rows shown, [scroll, scroll + height), and no row past the *)
(* last entry is shown.                                                    *)
ScrollShowsCursor ==
    LET h == Height(MaxHeight)
        s == ScrollFor(MaxHeight)
    IN  h > 0 => /\ s <= cursor /\ cursor < s + h
                 /\ s + h <= Len(filtered)

(* Spec law (section 8): move_cursor(+n) then move_cursor(-n) is the       *)
(* identity when the filtered set is non-empty, for the offsets the mode   *)
(* keys use.                                                               *)
MoveRoundTrip ==
    \A n \in {1, Height(MaxHeight) \div 2} :
        filtered # <<>> =>
            MoveCursorFrom(MoveCursorFrom(cursor, n, Len(filtered)), -n, Len(filtered)) = cursor

=============================================================================
