---------------------------- MODULE CommandHistory ----------------------------
(***************************************************************************)
(* The command history of CommandManager (src/lib/command.rs): a VecDeque *)
(* created with_capacity(HISTORY_CAPACITY) that add_to_history fills,     *)
(* recycling the front entry once len() reaches capacity().               *)
(*                                                                         *)
(* Entries are drawn from the small set Lines, which holds the empty      *)
(* string "".  VecCapacity is what capacity() returns: std only    *)
(* promises at least HISTORY_CAPACITY.  log is a history variable: the    *)
(* non-empty entries in submission order.                                 *)
(***************************************************************************)
EXTENDS Naturals, Sequences, SequencesExt

CONSTANTS
    Lines,        \* the submitted lines, "" included
    VecCapacity,  \* VecDeque::capacity() of the history
    MaxCalls      \* bound on the non-empty add_to_history calls

HISTORY_CAPACITY == 10

VARIABLES history, log

vars == <<history, log>>

(* CommandManager::new *)
Init ==
    /\ history = <<>>
    /\ log = <<>>

AddedToHistoryNoRecycle(entry) ==
    IF entry = "" THEN history ELSE Append(history, entry)

AddedToHistoryPopBack(entry) ==
    IF entry = "" THEN history
    ELSE IF Len(history) = VecCapacity THEN Append(Front(history), entry)
    ELSE Append(history, entry)

(* add_to_history: skip empty entries; pop the front entry when full. *)
AddedToHistory(entry) ==
    IF entry = "" THEN history
    ELSE IF Len(history) = VecCapacity THEN Append(Tail(history), entry)
    ELSE Append(history, entry)

AddToHistory(entry) ==
    /\ entry # "" => Len(log) < MaxCalls
    /\ history' = AddedToHistory(entry)
    /\ log' = IF entry = "" THEN log ELSE Append(log, entry)

Next == \E entry \in Lines : AddToHistory(entry)

Spec == Init /\ [][Next]_vars

(* history_entry(index): the entry, or "" past the end. *)
HistoryEntry(index) == IF index < Len(history) THEN history[index + 1] ELSE ""

TypeOK ==
    /\ Len(history) <= VecCapacity
    /\ history \in Seq(Lines \ {""})
    /\ log \in Seq(Lines \ {""})

(* The history ring of spec section 4.I: history_entry(0 ..) are the last *)
(* HISTORY_CAPACITY non-empty submissions, oldest first, however many     *)
(* empty and non-empty lines were submitted, and nothing older.           *)
HistoryKeepsLatest ==
    LET kept == IF Len(log) < HISTORY_CAPACITY THEN Len(log) ELSE HISTORY_CAPACITY
    IN  /\ Len(history) = kept
        /\ \A i \in 0 .. kept - 1 : HistoryEntry(i) = log[Len(log) - kept + 1 + i]

=============================================================================
