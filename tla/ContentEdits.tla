---------------------------- MODULE ContentEdits ----------------------------
(***************************************************************************)
(* Drives one BufferContent (src/src/buffer.rs) with the inserts and       *)
(* deletes an editor issues and checks each step against the meaning of   *)
(* the operation on the flat text: a splice.  lastOp is a history variable *)
(* remembering the inputs and outputs of the last step, so that the checks *)
(* can be stated as action properties.                                     *)
(***************************************************************************)
EXTENDS BufferContent

CONSTANTS
    Chars,      \* the characters other than the newline
    Texts,      \* texts the editor inserts (tuples of characters)
    InitTexts,  \* texts a buffer is created from (BufferContent::from_str)
    MaxLen      \* bound on the length of the flat text of the buffer

ASSUME MaxLen \in Nat /\ NL \notin Chars

VARIABLES lines, lastOp, panicked

vars == <<lines, lastOp, panicked>>

NoOp == [kind |-> "none", range |-> [from |-> Zero, to |-> Zero], text |-> <<>>]

(* BufferContent::from_str: one empty line, then insert_text at origin. *)
Init ==
    /\ lines \in {ContentInsertText(<<<<>>>>, Zero, s).lines : s \in InitTexts}
    /\ lastOp = NoOp
    /\ panicked = FALSE

Insert(p, t) ==
    LET res == ContentInsertText(lines, p, t)
    IN  /\ ~panicked
        /\ Len(Flat(lines)) + Len(t) <= MaxLen
        /\ lines' = res.lines
        /\ lastOp' = [kind |-> "insert", range |-> res.range, text |-> t]
        /\ UNCHANGED panicked

Delete(r) ==
    LET res == ContentDeleteRange(lines, r)
    IN  /\ ~panicked
        /\ lines' = IF res.panic THEN lines ELSE res.lines
        /\ panicked' = res.panic
        /\ lastOp' = [kind |-> "delete", range |-> r, text |-> res.text]

Next ==
    \/ \E p \in Positions(lines), t \in Texts : Insert(p, t)
    \/ \E r \in Ranges(lines) : Delete(r)

Spec == Init /\ [][Next]_vars

(***************************************************************************)
(* Properties.                                                             *)
(***************************************************************************)

TypeOK ==
    /\ lines \in Seq(Seq(Chars))
    /\ Len(lines) >= 1
    /\ panicked \in BOOLEAN

(* insert_text puts exactly the inserted text at the offset of the         *)
(* position, and returns the range the text occupies afterwards.           *)
InsertTextSplices ==
    [][lastOp'.kind = "insert" =>
          /\ Flat(lines') = SpliceIn(Flat(lines), Offset(lines, lastOp'.range.from),
                                     lastOp'.text)
          /\ lastOp'.range.to = EndOf(lastOp'.range.from, lastOp'.text)]_vars

(* delete_range removes exactly the characters between the two offsets of  *)
(* the range from the buffer, does not panic on a valid range, and returns *)
(* the text that was between them (which the history keeps to undo the     *)
(* deletion).                                                              *)
DeleteRangeSplices ==
    [][lastOp'.kind = "delete" =>
          /\ ~panicked'
          /\ Flat(lines') = SpliceOut(Flat(lines), Offset(lines, lastOp'.range.from),
                                      Offset(lines, lastOp'.range.to))
          /\ lastOp'.text = SubSeq(Flat(lines), Offset(lines, lastOp'.range.from) + 1,
                                   Offset(lines, lastOp'.range.to))]_vars

(* Every step of the buffer content is the splice spec section 4.B gives   *)
(* it: insert_text and delete_range both change the flat text exactly at   *)
(* the offsets of their position or range, and return what they inserted   *)
(* or removed.                                                             *)
ContentEditsSplice == InsertTextSplices /\ DeleteRangeSplices

=============================================================================
