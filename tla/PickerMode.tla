------------------------------ MODULE PickerMode ------------------------------
(***************************************************************************)
(* The picker mode of src/src/mode/picker.rs and the three ways into it:  *)
(* the buffer picker (buffer::enter_mode), the code-action picker of an   *)
(* LSP client (lsp_code_action::enter_mode) and the custom picker of the  *)
(* pick command (custom::enter_mode), whose continuation is a command     *)
(* line evaluated on submit with the picked entry spliced in.             *)
(*                                                                         *)
(*   mode          the editor's mode kind: "normal" or "picker";           *)
(*   keysFn        State::on_client_keys, the handler the mode calls after *)
(*                 its own keys: "none" (the default), "buffer",           *)
(*                 "code_action" or "custom";                              *)
(*   continuation  State::continuation is Some;                            *)
(* The LSP client handle, the prompt, the entry variable name and the    *)
(* buffer, code action or command a submit acts on are outside the model: *)
(* they decide nothing the mode does next.                                 *)
(*                                                                         *)
(* The picker is an instance of Picker.  This version of the mode filters *)
(* with an empty word iterator and no command sources, and adds custom    *)
(* entries by name only: an entry's description is its name, which        *)
(* scores as the name alone.  The read line is not modelled: a key other  *)
(* than the picker's own leaves some pattern of Patterns as its input.    *)
(*                                                                         *)
(* Mode::change_to (mode.rs, not in src/) runs the old mode's on_exit and  *)
(* the new mode's on_enter, and does nothing when the mode is already the *)
(* new one: custom::enter_mode fills the picker before it calls change_to, *)
(* and the re-entry of a custom picker from its own continuation (the      *)
(* check at mode/picker.rs:260) keeps its entries only under that reading. *)
(* A continuation is any command line: what it does to the mode is one of *)
(* Effects.                                                                *)
(***************************************************************************)
EXTENDS Naturals, Sequences

CONSTANTS
    Match(_, _),      \* SkimMatcherV2::fuzzy_match, as a set of scores
    Names,            \* names of entries
    Patterns,         \* read-line inputs
    EntryLists,       \* the buffer paths or code actions a picker is filled with
    MaxHeight,        \* config.picker_max_height
    MaxCustom         \* bound on custom entries

VARIABLES
    customBuffer, customLen, filtered, cursor, scroll,   \* the picker
    mode, keysFn, continuation

P == INSTANCE Picker WITH Words <- <<>>, Commands <- <<>>

pickerVars == <<customBuffer, customLen, filtered, cursor, scroll>>

modeVars == <<mode, keysFn, continuation>>

vars == <<pickerVars, modeVars>>

Init ==
    /\ P!Init
    /\ mode = "normal"
    /\ keysFn = "none"
    /\ continuation = FALSE

(* The custom buffer after picker.clear() and add_custom_entry of each of *)
(* es: the first Len(es) slots rewritten, later slots kept.               *)
Filled(buf, es) ==
    [i \in 1 .. IF Len(es) > Len(buf) THEN Len(es) ELSE Len(buf) |->
        IF i <= Len(es) THEN [name |-> es[i], description |-> es[i]] ELSE buf[i]]

(* How many entries filter("") leaves after the picker is filled with es. *)
FilledCount(es) == Len(P!FilterCandidatesOf(Filled(customBuffer, es), Len(es), <<>>))

(* picker.clear(), add_custom_entry of each of es, filter(.., "") and     *)
(* move_cursor(0), as the buffer and code-action pickers are filled.      *)
Fill(es) ==
    /\ customBuffer' = Filled(customBuffer, es)
    /\ customLen' = Len(es)
    /\ filtered' \in P!SortedByScore(P!FilterCandidatesOf(customBuffer', customLen', <<>>))
    /\ cursor' = 0
    /\ scroll' = 0

(* Mode::change_to(default) from the picker mode: on_exit clears the read *)
(* line and the picker.                                                    *)
ExitPicker ==
    /\ mode' = "normal"
    /\ customLen' = 0
    /\ filtered' = <<>>
    /\ cursor' = 0
    /\ scroll' = 0

(* Picker::filter(.., "") then move_cursor(0), which keeps the cursor    *)
(* within the new entries.                                                 *)
Refilter(buf, len) ==
    /\ filtered' \in P!SortedByScore(P!FilterCandidatesOf(buf, len, <<>>))
    /\ cursor' = P!MinOf(cursor, IF Len(filtered') > 0 THEN Len(filtered') - 1 ELSE 0)

(***************************************************************************)
(* The ways into the picker mode.                                          *)
(***************************************************************************)

(* A command adds an entry to the custom picker before a pick (this       *)
(* version's add_custom_entry takes the name only).                        *)
AddEntry(n) ==
    /\ mode = "normal"
    /\ P!AddCustomEntry(n, n)
    /\ UNCHANGED modeVars

(* buffer::enter_mode with the paths es of the open buffers: the mode is  *)
(* entered only if the picker has an entry.                                *)
EnterBuffer(es) ==
    /\ mode = "normal"
    /\ Fill(es)
    /\ IF FilledCount(es) > 0 THEN /\ keysFn' = "buffer" /\ mode' = "picker"
                               ELSE UNCHANGED <<keysFn, mode>>
    /\ UNCHANGED continuation

(* lsp_code_action::enter_mode, run when a code-action response of an LSP *)
(* server is handled: that happens in the main loop whatever the mode, so *)
(* it may replace a picker that is open.                                   *)
EnterCodeAction(es) ==
    /\ Fill(es)
    /\ IF FilledCount(es) > 0 THEN /\ keysFn' = "code_action" /\ mode' = "picker"
                               ELSE UNCHANGED <<keysFn, mode>>
    /\ UNCHANGED continuation

(* custom::enter_mode, the pick command: the entries added so far are     *)
(* filtered, the continuation is stored and the mode is entered even when *)
(* there is no entry.                                                      *)
EnterCustomFrom(buf, len) ==
    /\ Refilter(buf, len)
    /\ keysFn' = "custom"
    /\ continuation' = TRUE
    /\ mode' = "picker"

EnterCustom ==
    /\ mode = "normal"
    /\ EnterCustomFrom(customBuffer, customLen)
    /\ UNCHANGED <<customBuffer, customLen, scroll>>

(***************************************************************************)
(* State::on_client_keys while the picker mode is on.  While the read line *)
(* is pending, the picker's own keys move the cursor and any other key    *)
(* filters by the read line's input; the handler then sees Pending and    *)
(* does nothing.                                                           *)
(***************************************************************************)

PendingKey ==
    /\ mode = "picker"
    /\ \/ P!KeyDown \/ P!KeyUp \/ P!KeyPageDown \/ P!KeyPageUp
       \/ P!KeyHome \/ P!KeyEnd
       \/ \E p \in Patterns : P!KeyOther(p)
    /\ UNCHANGED modeVars

(* Rendering the picker updates its scroll. *)
Render ==
    /\ mode = "picker"
    /\ P!UpdateScroll
    /\ UNCHANGED modeVars

(* The read line is canceled: every handler changes to the default mode  *)
(* (the code-action one first tells the server the action is canceled).   *)
Cancel ==
    /\ mode = "picker"
    /\ ExitPicker
    /\ UNCHANGED <<customBuffer, keysFn, continuation>>

(* The read line is submitted in the buffer or the code-action picker:    *)
(* the buffer of the current entry is opened, or the action at the        *)
(* cursor's index is run, and the mode changes to the default.            *)
SubmitBufferOrCodeAction ==
    /\ mode = "picker"
    /\ keysFn \in {"buffer", "code_action"}
    /\ ExitPicker
    /\ UNCHANGED <<customBuffer, keysFn, continuation>>

(***************************************************************************)
(* The read line is submitted in the custom picker.  The continuation is  *)
(* taken (and unwrapped); if there is a current entry, the continuation,  *)
(* with the entry spliced in, is evaluated as commands.  What those do to *)
(* the mode is one of:                                                     *)
(*   "none"    nothing;                                                    *)
(*   "custom"  a pick, which re-enters the custom picker on its entries;   *)
(*   "buffer"  the buffer picker, entered with the paths of some list.    *)
(* Then, if the mode is still the picker and no new continuation was      *)
(* stored, the mode changes to the default.                                *)
(***************************************************************************)
Effects == {"none", "custom", "buffer"}

(* The submit without the check of mode/picker.rs:260: the mode is left  *)
(* as the continuation left it.                                            *)
SubmitCustomNoDismiss ==
    /\ mode = "picker"
    /\ keysFn = "custom"
    /\ continuation
    /\ \/ /\ P!CurrentEntry = <<>>
          /\ continuation' = FALSE
          /\ UNCHANGED <<pickerVars, mode, keysFn>>
       \/ /\ P!CurrentEntry # <<>>
          /\ \E e \in Effects :
               \/ /\ e = "none"
                  /\ continuation' = FALSE
                  /\ UNCHANGED <<pickerVars, mode, keysFn>>
               \/ /\ e = "custom"
                  /\ EnterCustomFrom(customBuffer, customLen)
                  /\ UNCHANGED <<customBuffer, customLen, scroll>>
               \/ /\ e = "buffer"
                  /\ \E es \in EntryLists :
                       /\ continuation' = FALSE
                       /\ Fill(es)
                       /\ keysFn' = IF FilledCount(es) > 0 THEN "buffer" ELSE keysFn
                       /\ UNCHANGED mode

SubmitCustom ==
    /\ mode = "picker"
    /\ keysFn = "custom"
    /\ continuation
    /\ \/ /\ P!CurrentEntry = <<>>
          /\ continuation' = FALSE
          /\ ExitPicker
          /\ UNCHANGED <<customBuffer, keysFn>>
       \/ /\ P!CurrentEntry # <<>>
          /\ \E e \in Effects :
               \/ /\ e = "none"
                  /\ continuation' = FALSE
                  /\ ExitPicker
                  /\ UNCHANGED <<customBuffer, keysFn>>
               \/ /\ e = "custom"
                  /\ EnterCustomFrom(customBuffer, customLen)
                  /\ UNCHANGED <<customBuffer, customLen, scroll>>
               \/ /\ e = "buffer"
                  /\ \E es \in EntryLists :
                       /\ continuation' = FALSE
                       /\ customBuffer' = Filled(customBuffer, es)
                       /\ keysFn' = IF FilledCount(es) > 0 THEN "buffer" ELSE keysFn
                       /\ ExitPicker

Next ==
    \/ \E n \in Names : AddEntry(n)
    \/ \E es \in EntryLists : EnterBuffer(es) \/ EnterCodeAction(es)
    \/ EnterCustom
    \/ PendingKey
    \/ Render
    \/ Cancel
    \/ SubmitBufferOrCodeAction
    \/ SubmitCustom

Spec == Init /\ [][Next]_vars

(***************************************************************************)
(* Properties.                                                             *)
(***************************************************************************)

TypeOK ==
    /\ P!TypeOK
    /\ mode \in {"normal", "picker"}
    /\ keysFn \in {"none", "buffer", "code_action", "custom"}
    /\ continuation \in BOOLEAN

(* Whenever the custom picker is open its continuation is stored, so the  *)
(* continuation.take().unwrap() of its submit never panics: the submit    *)
(* takes the continuation, and only the check that dismisses the picker   *)
(* when no new one was stored (mode/picker.rs:260) keeps an evaluated     *)
(* continuation that left the mode alone from leaving the custom picker   *)
(* open without one.                                                       *)
ContinuationPresent ==
    mode = "picker" /\ keysFn = "custom" => continuation

=============================================================================
