--------------------------------- MODULE Ini ---------------------------------
(***************************************************************************)
(* The INI reader of src/src/ini.rs as a state machine.  An Ini keeps its  *)
(* sections and properties across calls: parse appends to what is there,  *)
(* and only clear empties it.                                              *)
(*                                                                         *)
(*   sections    Section records: name and the slice [start, end) of       *)
(*               properties that belong to it;                             *)
(*   properties  Property records: key and value;                          *)
(*   result      what the last parse returned: [ok |-> TRUE] (also before  *)
(*               any parse), or an IniError [ok |-> FALSE, kind, pos].     *)
(***************************************************************************)
EXTENDS Naturals, Sequences, IniParse

CONSTANTS
    Texts,          \* the texts parse is called with
    MaxSections,    \* bound on the number of sections kept
    MaxProperties   \* bound on the number of properties kept

VARIABLES sections, properties, result

vars == <<sections, properties, result>>

(* Ini::default *)
Init ==
    /\ sections = <<>>
    /\ properties = <<>>
    /\ result = NoError

(* Ini::clear *)
Clear ==
    /\ sections' = <<>>
    /\ properties' = <<>>
    /\ UNCHANGED result

(* Ini::parse *)
Parse(text) ==
    \E out \in {ParseResult(sections, properties, text)} :
        /\ Len(out.sections) <= MaxSections
        /\ Len(out.properties) <= MaxProperties
        /\ sections' = out.sections
        /\ properties' = out.properties
        /\ result' = out.error

Next == Clear \/ \E t \in Texts : Parse(t)

Spec == Init /\ [][Next]_vars

(***************************************************************************)
(* Properties.                                                             *)
(***************************************************************************)

TypeOK ==
    /\ \A k \in 1 .. Len(sections) :
          sections[k].start <= sections[k].end /\ sections[k].end <= Len(properties)
    /\ result.ok \in BOOLEAN

(* After a successful parse, the sections' property slices tile all the   *)
(* properties in order, from the first: every property belongs to exactly *)
(* one section.  parse appends to what an earlier call left, and a failed  *)
(* parse returns before closing its last section's slice.                  *)
SectionsTileProperties ==
    result.ok =>
        /\ sections # <<>> => sections[1].start = 0
        /\ \A k \in 1 .. Len(sections) :
              sections[k].end = IF k = Len(sections) THEN Len(properties)
                                ELSE sections[k + 1].start

=============================================================================
