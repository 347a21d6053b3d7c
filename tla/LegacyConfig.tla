----------------------------- MODULE LegacyConfig -----------------------------
(***************************************************************************)
(* The frozen reader of bioshock_headtrack.ini, the settings file of every *)
(* build up to v0.5.0 (src/src/legacy_config/mod.rs).                      *)
(*                                                                         *)
(* It goes through the lines once and keeps the section it is in and the   *)
(* settings so far.  A line is a section header, a key with its value, or  *)
(* nothing to the reader (comments, blanks, text without `='), and the     *)
(* last kind is left out.  Two of the four keys are modelled, in different *)
(* sections; the other two are read like LocalSmoothing.                   *)
(***************************************************************************)
EXTENDS Sequences, Naturals

Unusable == "unusable"   \* a value parse_bool or parse_smoothing turns down

\* KEYS: the section each key is read in.
SectionOf == [WorldSpaceYaw |-> "general", LocalSmoothing |-> "smoothing"]
Keys == DOMAIN SectionOf

\* The values parse_bool and parse_smoothing take, one for each they give.
Parses == [WorldSpaceYaw |-> {"true", "false"}, LocalSmoothing |-> {"0.0", "0.3"}]

Headers == [section : {"general", "smoothing", "other"}]
Values == UNION {[key : {k}, value : Parses[k] \cup {Unusable}] : k \in Keys}
Lines == Headers \cup Values
IsHeader(line) == "section" \in DOMAIN line

\* Config::default, v0.5.0's shipped values.
Shipped == [WorldSpaceYaw |-> "true", LocalSmoothing |-> "0.0"]

\* The reader before the first line.
Opened == [section |-> "", config |-> Shipped]

\* Mutant: a section the reader takes nothing from leaves the earlier one open.
ReadLineKeepsSection(reader, line) ==
  IF IsHeader(line)
  THEN IF line.section = "other" THEN reader ELSE [reader EXCEPT !.section = line.section]
  ELSE IF line.value # Unusable /\ SectionOf[line.key] = reader.section
  THEN [reader EXCEPT !.config[line.key] = line.value]
  ELSE reader

\* One line: a header opens its section, a usable value of a key of the section
\* is taken, and anything else is passed over.
ReadLine(reader, line) ==
  IF IsHeader(line) THEN [reader EXCEPT !.section = line.section]
  ELSE IF line.value # Unusable /\ SectionOf[line.key] = reader.section
  THEN [reader EXCEPT !.config[line.key] = line.value]
  ELSE reader

-----------------------------------------------------------------------------
(* What a file means, line numbers and all                                 *)

\* The section line i stands in, "" before the first header.
SectionAt(lines, i) ==
  LET headers == {h \in 1 .. i : IsHeader(lines[h])}
  IN  IF headers = {} THEN ""
      ELSE lines[CHOOSE h \in headers : \A g \in headers : g <= h].section

\* The lines that set the key.
SettingLines(lines, key) ==
  {i \in DOMAIN lines :
     /\ ~IsHeader(lines[i])
     /\ lines[i].key = key
     /\ lines[i].value # Unusable
     /\ SectionAt(lines, i) = SectionOf[key]}

\* The last line that sets the key, or the shipped value where none does.
Meaning(lines, key) ==
  LET setting == SettingLines(lines, key)
  IN  IF setting = {} THEN Shipped[key]
      ELSE lines[CHOOSE i \in setting : \A j \in setting : j <= i].value

=============================================================================
