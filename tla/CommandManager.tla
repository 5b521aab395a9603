---------------------------- MODULE CommandManager ----------------------------
(***************************************************************************)
(* The text-entry parts of the editor: the command line that CommandIter *)
(* splits and parse reads (CommandLine), the history ring that            *)
(* add_to_history fills (CommandHistory), both of CommandManager          *)
(* (src/lib/command.rs), the picker that completes what is typed (Picker, *)
(* src/lib/picker.rs), and the picker mode that fills and drives the      *)
(* picker for buffers, code actions and picks (PickerMode,                *)
(* src/src/mode/picker.rs).  The line, the history and the picker share   *)
(* no state: parse never reads the history, add_to_history never parses,  *)
(* and the picker only receives copies of names.  A behaviour of them is  *)
(* an interleaving of each part's behaviour, so a property of one part    *)
(* holds of the whole exactly when it holds of that part alone; the model *)
(* lets one part, chosen at the start, move while the others stay at      *)
(* their initial states, and checks all of them in one run over the sum  *)
(* of their state spaces.  The picker mode is a fourth part that moves    *)
(* the picker's variables too: the picker's properties are checked both   *)
(* under the picker's own operations and under the mode's.                *)
(* The INI parser (IniText, src/src/ini.rs) is checked as a fifth part on *)
(* the same terms: it shares nothing with the others.                     *)
(***************************************************************************)
CONSTANTS
    Builtins, Alphabet, MaxInput,   \* the command line
    Lines, VecCapacity, MaxCalls,   \* the history ring
    Match(_, _), Words, Commands,   \* the picker
    Names, Patterns, MaxHeight, MaxCustom,
    EntryLists,                     \* the picker mode
    Shapes, MaxLines, MaxSections, MaxProperties  \* the INI text

VARIABLES
    part,            \* the part that moves
    line,            \* the command line
    history, log,    \* the history ring
    customBuffer, customLen, filtered, cursor, scroll,  \* the picker
    mode, keysFn, continuation,                         \* the picker mode
    lines, sections, properties, result                 \* the INI text

L == INSTANCE CommandLine

H == INSTANCE CommandHistory

P == INSTANCE Picker

M == INSTANCE PickerMode

T == INSTANCE IniText

Parts == {"line", "history", "picker", "mode", "ini"}

historyVars == <<history, log>>

pickerVars == <<customBuffer, customLen, filtered, cursor, scroll>>

modeVars == <<mode, keysFn, continuation>>

iniVars == <<lines, sections, properties, result>>

vars == <<part, line, historyVars, pickerVars, modeVars, iniVars>>

Init == part \in Parts /\ L!Init /\ H!Init /\ M!Init /\ T!Init

Next ==
    \/ part = "line" /\ L!Next /\ UNCHANGED <<part, historyVars, pickerVars, modeVars, iniVars>>
    \/ part = "history" /\ H!Next /\ UNCHANGED <<part, line, pickerVars, modeVars, iniVars>>
    \/ part = "picker" /\ P!Next /\ UNCHANGED <<part, line, historyVars, modeVars, iniVars>>
    \/ part = "mode" /\ M!Next /\ UNCHANGED <<part, line, historyVars, iniVars>>
    \/ part = "ini" /\ T!Next /\ UNCHANGED <<part, line, historyVars, pickerVars, modeVars>>

Spec == Init /\ [][Next]_vars

(***************************************************************************)
(* Properties: those of the parts (see their modules).                     *)
(***************************************************************************)

TypeOK == part \in Parts /\ L!TypeOK /\ H!TypeOK /\ M!TypeOK /\ T!TypeOK

(* CommandIter yields the reference splitter's commands whenever it does  *)
(* not panic.                                                              *)
IterMatchesReference == L!IterMatchesReference

(* parse reads back every command it accepts, once emitted with quoting.  *)
ParseRoundTrip == L!ParseRoundTrip

(* add_to_history keeps the last HISTORY_CAPACITY non-empty submissions.   *)
HistoryKeepsLatest == H!HistoryKeepsLatest

(* move_cursor's usize end_index - cursor never underflows: the picker's  *)
(* cursor always designates an entry, or is 0 when there is none.          *)
CursorInRange == P!CursorInRange

(* No filtered custom entry outlives a clear that frees its buffer slot.  *)
FilteredEntriesLive == P!FilteredEntriesLive

(* The rows drawn after update_scroll include the cursor's entry.         *)
ScrollShowsCursor == P!ScrollShowsCursor

(* The custom picker is never open without a continuation for its submit *)
(* to unwrap.                                                              *)
ContinuationPresent == M!ContinuationPresent

(* After a successful parse, the sections' property slices tile all the   *)
(* properties in order, whatever earlier parses into the same Ini left.   *)
SectionsTileProperties == T!SectionsTileProperties

(* Every text parsed into an empty Ini agrees with the reference reading. *)
IniMatchesReference == T!IniMatchesReference

=============================================================================
