----------------------------- MODULE ConfigFile -----------------------------
(***************************************************************************)
(* config_file: the sections and values of a configuration file.  A line   *)
(* is what is_section, find('=') and trim make of it: the name of a        *)
(* section, an entry with its key and value, an entry whose key begins     *)
(* with # or ;, or anything else.                                          *)
(***************************************************************************)
EXTENDS Integers, Sequences, FiniteSetsExt

CONSTANTS
  Sections,
  ConfKeys,
  Texts,     \* values as they are written
  Number,    \* what istringstream >> long long makes of a text, 0 if nothing
  IntWidth   \* bits of unsigned: 32

ASSUME ConfigAssumption ==
  /\ Number \in [Texts -> Int]
  /\ IntWidth \in Nat \ {0}

Absent == "absent"
NoSection == "no section"

Section(s) == [is |-> "section", name |-> s, value |-> Absent]
Entry(k, v) == [is |-> "entry", name |-> k, value |-> v]
Comment(k, v) == [is |-> "comment", name |-> k, value |-> v]
OtherLine == [is |-> "other", name |-> Absent, value |-> Absent]

\* load before its first line: no map, and m is null
Empty == [map |-> [sk \in Sections \X ConfKeys |-> Absent], m |-> NoSection, fault |-> FALSE]

\* A mutant of LoadLine: the first value of a key stays.
LoadLineFirst(st, l) ==
  CASE l.is = "section" -> [st EXCEPT !.m = l.name]
    [] l.is = "entry" /\ st.m = NoSection -> [st EXCEPT !.fault = TRUE]
    [] l.is = "entry" /\ st.m # NoSection ->
         [st EXCEPT !.map[<<st.m, l.name>>] = IF @ = Absent THEN l.value ELSE @]
    [] OTHER -> st

\* One turn of load's loop.  A section that is there already is continued; an
\* entry before the first section goes through a null pointer.
LoadLine(st, l) ==
  CASE l.is = "section" -> [st EXCEPT !.m = l.name]
    [] l.is = "entry" /\ st.m = NoSection -> [st EXCEPT !.fault = TRUE]
    [] l.is = "entry" /\ st.m # NoSection -> [st EXCEPT !.map[<<st.m, l.name>>] = l.value]
    [] OTHER -> st

\* load: every line in turn, from the first to the last
Load(text) ==
  MapThenFoldSet(LAMBDA l, st : LoadLine(st, l), Empty, LAMBDA i : text[i], Max, DOMAIN text)

GetString(map, s, k, default) == IF map[<<s, k>>] = Absent THEN default ELSE map[<<s, k>>]

ParseNumber(v) == Number[v] % 2^IntWidth

GetNumber(map, s, k, default) ==
  IF map[<<s, k>>] = Absent THEN default ELSE ParseNumber(map[<<s, k>>])

\* An unsigned as it is assigned to an int.
ToInt(u) == IF u >= 2^(IntWidth - 1) THEN u - 2^IntWidth ELSE u

-----------------------------------------------------------------------------
(* Reference definition, on the text alone *)

\* The section that line i belongs to.
SectionOf(text, i) ==
  LET heads == {j \in 1..i : text[j].is = "section"}
  IN IF heads = {} THEN NoSection ELSE text[Max(heads)].name

Entries(text, s, k) ==
  {i \in DOMAIN text : text[i].is = "entry" /\ text[i].name = k /\ SectionOf(text, i) = s}

\* The last entry of the key in any part of the section counts.
Meaning(text, s, k) ==
  LET e == Entries(text, s, k) IN IF e = {} THEN Absent ELSE text[Max(e)].value

Headless(text) ==
  \E i \in DOMAIN text : text[i].is = "entry" /\ SectionOf(text, i) = NoSection
=============================================================================
