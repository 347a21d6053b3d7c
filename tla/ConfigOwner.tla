----------------------------- MODULE ConfigOwner -----------------------------
(***************************************************************************)
(* The settings files and core's ConfigOwner as the mod uses it            *)
(* (src/src/config.rs, src/src/config_owner.cpp).                          *)
(*                                                                         *)
(* A load reads CameraUnlock.ini; where there is none it imports           *)
(* bioshock_headtrack.ini, or creates the file with every row `default'    *)
(* where there is neither.  The mod tells core what became of the legacy   *)
(* file: one that cannot be read defers the import, and the session runs   *)
(* on v0.5.0's defaults with no file to save to.  Rows set to `default'    *)
(* take their values from the player's Defaults.ini.  A save writes the    *)
(* rows it is told to and reports Saved, or changes nothing and reports    *)
(* NotSaved, or cannot tell which and reports Uncertain.                   *)
(*                                                                         *)
(* core is external, modelled by what the mod's code and its tests say of  *)
(* it.  Rows no hotkey changes are left out but for EnableOnStartup, which *)
(* stands for them.  The player edits the files between two sessions.      *)
(***************************************************************************)
EXTENDS LegacyConfig

CONSTANT MaxLines    \* bound: the lines of a legacy file

ASSUME MaxLinesAssumption == MaxLines \in Nat

\* The pairs (rotation, position) that name a mode.
Modes == {<<TRUE, TRUE>>, <<TRUE, FALSE>>, <<FALSE, TRUE>>}

Settings == [on : BOOLEAN, rot : BOOLEAN, pos : BOOLEAN, yaw : BOOLEAN]
Mode(s) == <<s.rot, s.pos>>

\* Config's initialisers: the settings v0.5.0 always started in.
Defaults == [on |-> TRUE, rot |-> TRUE, pos |-> TRUE, yaw |-> TRUE]
\* A Defaults.ini the player has changed in every row.
Altered == [on |-> FALSE, rot |-> TRUE, pos |-> FALSE, yaw |-> FALSE]

NoFile == [absent |-> TRUE]
Closed == [closed |-> TRUE]
Default == "default"
Fields == {"on", "rot", "pos", "yaw"}
Fresh == [f \in Fields |-> Default]
Row == {"true", "false", Default}

Value(b) == IF b THEN "true" ELSE "false"
Said(row, default) == IF row = Default THEN default ELSE row = "true"

VARIABLES
  file,        \* CameraUnlock.ini: a row per field, or NoFile
  defaultsIni, \* what Defaults.ini says
  legacy,      \* bioshock_headtrack.ini: "none", "unreadable" or "text"
  status,      \* what the last load reported, "unloaded" between sessions
  reader       \* the import's reader with the lines it has read, or Closed

configVars == <<file, defaultsIni, legacy, status, reader>>

\* The files the config table writes or a player may have written by hand.
Files == {[on |-> o, rot |-> m[1], pos |-> m[2], yaw |-> y] :
            o \in Row, y \in Row,
            m \in {<<Default, Default>>} \cup {<<Value(p[1]), Value(p[2])>> : p \in Modes}}

ConfigInit ==
  /\ file \in Files \cup {NoFile}
  /\ defaultsIni \in {Defaults, Altered}
  /\ legacy \in {"none", "unreadable", "text"}
  /\ status = "unloaded"
  /\ reader = Closed

ConfigTypeOK ==
  /\ file \in [Fields -> Row] \cup {NoFile}
  /\ defaultsIni \in {Defaults, Altered}
  /\ legacy \in {"none", "unreadable", "text"}
  /\ status \in {"unloaded", "canonical", "migrated", "created", "deferred"}
  /\ reader # Closed => reader.lines \in Seq(Lines)

\* The settings the rows of a file name.
Resolve(rows) == [f \in Fields |-> Said(rows[f], defaultsIni[f])]

\* What CameraUnlock.ini would start a session in.
FileSettings == IF file = NoFile THEN Defaults ELSE Resolve(file)

-----------------------------------------------------------------------------
(* Load                                                                    *)

\* The import opens the legacy file.
OpenLegacy ==
  /\ file = NoFile
  /\ legacy = "text"
  /\ reader = Closed
  /\ reader' = [lines |-> <<>>, read |-> Opened]
  /\ UNCHANGED <<file, defaultsIni, legacy, status>>

ReadLegacyLine(line) ==
  /\ reader # Closed
  /\ Len(reader.lines) < MaxLines
  /\ reader' = [lines |-> Append(reader.lines, line), read |-> ReadLine(reader.read, line)]
  /\ UNCHANGED <<file, defaultsIni, legacy, status>>

\* MapLegacy: a value the player never changed follows Defaults.ini, and so does
\* one that Defaults.ini has anyway, as does all that v0.5.0 had no setting for.
Imported(config) ==
  [Fresh EXCEPT !.yaw = IF config.WorldSpaceYaw \in {Shipped.WorldSpaceYaw, Value(defaultsIni.yaw)}
                          THEN Default ELSE config.WorldSpaceYaw]

\* What read_to_string gives the import: the text once the reader has it, and an
\* error for a file that is not there, is not text or cannot be read this time.
LegacyText == IF reader # Closed THEN "text"
              ELSE IF legacy = "none" THEN "notFound" ELSE "error"

\* Mutant: whatever cannot be read counts as no file.
OutcomeNoFile(given) == IF given = "text" THEN "read" ELSE "noFile"

\* read_legacy: only a file that is not there counts as none.
Outcome(given) == CASE given = "text" -> "read"
                    [] given = "notFound" -> "noFile"
                    [] OTHER -> "unread"

\* ConfigLegacyImport's run: what core is told of the legacy file.
Import == CASE Outcome(LegacyText) = "read" -> "imported"
            [] Outcome(LegacyText) = "noFile" -> "absent"
            [] OTHER -> "undecodable"

\* core runs the import only where there is no CameraUnlock.ini.
LoadCanonical ==
  /\ file # NoFile
  /\ status' = "canonical"
  /\ UNCHANGED file

LoadMigrated ==
  /\ file = NoFile
  /\ Import = "imported"
  /\ status' = "migrated"
  /\ file' = Imported(reader.read.config)

LoadCreated ==
  /\ file = NoFile
  /\ Import = "absent"
  /\ status' = "created"
  /\ file' = Fresh

LoadDeferred ==
  /\ file = NoFile
  /\ Import = "undecodable"
  /\ status' = "deferred"
  /\ UNCHANGED file

Load ==
  /\ LoadCanonical \/ LoadMigrated \/ LoadCreated \/ LoadDeferred
  /\ reader' = Closed
  /\ UNCHANGED <<defaultsIni, legacy>>

\* Mutant: a session that creates the file runs on v0.5.0's defaults.
LoadedOwnDefaults == IF status' \in {"created", "deferred"} THEN Defaults
                     ELSE [f \in Fields |-> Said(file'[f], defaultsIni[f])]

\* The settings the load hands out, in terms of the files it leaves.
Loaded == IF status' = "deferred" THEN Defaults
          ELSE [f \in Fields |-> Said(file'[f], defaultsIni[f])]

Unload == status' = "unloaded" /\ reader' = Closed /\ UNCHANGED <<file, defaultsIni, legacy>>

-----------------------------------------------------------------------------
(* Save                                                                    *)

\* ConfigOwner::Save of some rows; lost unless it reports Saved.
SaveRows(fields, s, lost) ==
  /\ IF file = NoFile
       THEN lost /\ UNCHANGED file
       ELSE LET saved == [f \in Fields |-> IF f \in fields THEN Value(s[f]) ELSE file[f]]
            IN  \/ file' = saved /\ ~lost
                \/ file' \in {file, saved} /\ lost
  /\ UNCHANGED <<defaultsIni, legacy, status, reader>>

-----------------------------------------------------------------------------
(* The player, between sessions                                            *)

SaveLegacyAsText ==
  /\ legacy = "unreadable"
  /\ legacy' = "text"
  /\ UNCHANGED <<file, defaultsIni, status, reader>>

ChangeDefaults ==
  /\ defaultsIni' = IF defaultsIni = Defaults THEN Altered ELSE Defaults
  /\ UNCHANGED <<file, legacy, status, reader>>

DeleteFile ==
  /\ file # NoFile
  /\ file' = NoFile
  /\ UNCHANGED <<defaultsIni, legacy, status, reader>>

EditFiles == reader = Closed /\ (SaveLegacyAsText \/ ChangeDefaults \/ DeleteFile)

-----------------------------------------------------------------------------
(* Properties                                                              *)

\* The reader's single pass gives every key the value of the last line that sets
\* it: in its own section, with a value that can be used, whatever sections,
\* unusable values and repetitions come before and after.  An unusable value
\* changes nothing, whatever the log says of it (legacy_config/mod.rs 58-147).
ReadsLastSetting ==
  reader # Closed =>
    \A k \in Keys : reader.read.config[k] = Meaning(reader.lines, k)

\* What the reader's warning says of a value it cannot use, "using default": the
\* key then has its default (legacy_config/mod.rs 99-102, 110-113, 121-124, 132-135).
UnusableMeansDefault ==
  (reader # Closed /\ reader.lines # <<>>) =>
    LET i == Len(reader.lines)
        line == reader.lines[i]
    IN  (/\ ~IsHeader(line)
         /\ line.value = Unusable
         /\ SectionAt(reader.lines, i) = SectionOf[line.key])
          => reader.read.config[line.key] = Shipped[line.key]

\* A legacy file is never superseded by anything but what it says: beside one,
\* CameraUnlock.ini comes into being only from a text that was read, with the
\* player's own yaw mode, or following Defaults.ini where he never changed it; a
\* file that could not be read waits for a later start, however often the saves
\* of this one are tried (config.rs 175-187, config_owner.cpp 96-106, CHANGELOG.md 23).
LegacyNotSuperseded ==
  [][(file = NoFile /\ file' # NoFile /\ legacy # "none") =>
       /\ reader # Closed
       /\ LET yaw == Meaning(reader.lines, "WorldSpaceYaw")
          IN  IF yaw = Shipped.WorldSpaceYaw THEN file'.yaw = Default
              ELSE Said(file'.yaw, defaultsIni.yaw) = (yaw = "true")]_configVars

=============================================================================
