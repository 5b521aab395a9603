------------------------------- MODULE IniText -------------------------------
(***************************************************************************)
(* One Ini and the text handed to it.  The text is built one line at a    *)
(* time (and shortened again) from lines of the given shapes, and at any  *)
(* point the Ini may parse it or be cleared, so the model reaches every   *)
(* text of at most MaxLines lines, parsed into an empty Ini (as the unit  *)
(* tests of src/src/ini.rs do: clear, then parse) or into whatever earlier *)
(* parses, failed ones included, left.                                    *)
(***************************************************************************)
EXTENDS Naturals, Sequences, IniParse

CONSTANTS
    Shapes,         \* the lines a text is made of
    MaxLines,       \* bound on the number of lines
    MaxSections,    \* bound on the number of sections kept
    MaxProperties   \* bound on the number of properties kept

VARIABLES lines, sections, properties, result

iniVars == <<sections, properties, result>>

vars == <<lines, iniVars>>

I == INSTANCE Ini WITH Texts <- {}

Init == lines = <<>> /\ I!Init

AddLine(l) ==
    /\ Len(lines) < MaxLines
    /\ lines' = Append(lines, l)
    /\ UNCHANGED iniVars

RemoveLine ==
    /\ lines # <<>>
    /\ lines' = Front(lines)
    /\ UNCHANGED iniVars

(* The text: the lines joined by newlines. *)
Text == IF lines = <<>> THEN <<>> ELSE Flat(lines)

Next ==
    \/ \E l \in Shapes : AddLine(l)
    \/ RemoveLine
    \/ I!Parse(Text) /\ UNCHANGED lines
    \/ I!Clear /\ UNCHANGED lines

Spec == Init /\ [][Next]_vars

(***************************************************************************)
(* Properties.                                                             *)
(***************************************************************************)

(* The text is made of at most MaxLines lines of the given shapes, and    *)
(* every section's slice, in the Ini and in the parse of the text into an *)
(* empty Ini, lies within the properties.                                 *)
TypeOK ==
    /\ lines \in Seq(Shapes) /\ Len(lines) <= MaxLines
    /\ I!TypeOK
    /\ \A out \in {ParseResult(<<>>, <<>>, Text)} :
          \A sec \in ToSet(out.sections) :
              sec.start <= sec.end /\ sec.end <= Len(out.properties)

(* After a successful parse, the sections' property slices tile all the   *)
(* properties in order (see Ini): parse appends to what earlier calls     *)
(* left, and a failed parse returns before closing its last section.      *)
SectionsTileProperties == I!SectionsTileProperties

(* Every text, parsed into an empty Ini, agrees with the reference        *)
(* reading: the same error kind on the same line, or, on success, the same *)
(* sections with the same key/value pairs as Ini::sections yields them.   *)
IniMatchesReference ==
    \A out \in {ParseResult(<<>>, <<>>, Text)} :
        LET ls == RustLines(Text)
            re == RefError(ls)
        IN  IF re.kind = "none"
            THEN out.error.ok /\ SectionsView(out.sections, out.properties) = RefSections(ls)
            ELSE ~out.error.ok /\ out.error.kind = re.kind /\ out.error.pos.line = re.line

=============================================================================
