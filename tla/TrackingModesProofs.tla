------------------------- MODULE TrackingModesProofs -------------------------
(***************************************************************************)
(* The modes and their file, for legacy files of any length.               *)
(*                                                                         *)
(* Everything but the legacy reader is one invariant over the session and  *)
(* the file it started from; the reader has an invariant of its own.       *)
(***************************************************************************)
EXTENDS TrackingModes, TLAPS

\* The rows of the mode say a mode, or both leave it to Defaults.ini.
SayMode(rows) ==
  \/ rows.rot = Default /\ rows.pos = Default
  \/ \E m \in Modes : rows.rot = Value(m[1]) /\ rows.pos = Value(m[2])

\* What the reader keeps, whatever it reads.
ReaderStates ==
  [section : {"", "general", "smoothing", "other"},
   config : [WorldSpaceYaw : {"true", "false"}, LocalSmoothing : {"0.0", "0.3"}]]

ReaderTyped ==
  reader # Closed => reader.lines \in Seq(Lines) /\ reader.read \in ReaderStates

\* What is still to be stored, at each step of a hotkey action.
ToStore ==
  CASE hpc = "storeOn" -> {"on"}
    [] hpc = "storeRot" -> {"rot", "pos"}
    [] hpc = "storePos" -> {"pos"}
    [] hpc = "storeYaw" -> {"yaw"}
    [] OTHER -> {}

MirrorInv == \A f \in Fields \ ToStore : mirror[f] = state[f]

\* What a view that overlaps no change has read is still so.
ViewInv ==
  (vpc # "idle" /\ ~moved) =>
    /\ hpc \notin {"storeRot", "storePos", "storeYaw"}
    /\ vpc \in {"yaw", "pos", "done"} => seen.rot = state.rot
    /\ vpc \in {"pos", "done"} => (seen.rot => seen.yaw = state.yaw)
    /\ vpc = "done" => seen.pos = state.pos

\* The file has what the session has, but for a save that is due or was lost.
ResumeInv ==
  up =>
    /\ hpc \in {"storeRot", "storePos", "saveMode"} \/ modeLost
         \/ Mode(FileSettings) = Mode(state)
    /\ hpc \in {"storeYaw", "saveYaw"} \/ yawLost \/ FileSettings.yaw = state.yaw
    /\ file # NoFile => file.on = startOn

\* Out of a session nothing runs, in one nothing is being imported, and nothing
\* is where there is a file.
SessionInv ==
  /\ up <=> status # "unloaded"
  /\ up => reader = Closed
  /\ reader # Closed => file = NoFile
  /\ ~up => hpc = "idle" /\ vpc = "idle" /\ mirror = state

IInv ==
  /\ TypeOK
  /\ file # NoFile => SayMode(file)
  /\ ReaderTyped
  /\ MirrorInv
  /\ ViewInv
  /\ ResumeInv
  /\ SessionInv

-----------------------------------------------------------------------------

\* Settings are functions, as a load makes them.
LEMMA SettingsFunctions == Settings = [Fields -> BOOLEAN]
BY DEF Settings, Fields

LEMMA RowsAreNoFile == NoFile \notin [Fields -> Row]
<1> SUFFICES ASSUME NoFile \in [Fields -> Row] PROVE FALSE
  OBVIOUS
<1>1. DOMAIN NoFile = {"absent"}
  BY DEF NoFile
<1>2. DOMAIN NoFile = Fields
  OBVIOUS
<1> QED
  BY <1>1, <1>2 DEF Fields

\* What a row says, and that writing a value makes it say that value.
LEMMA RowValues ==
  /\ \A r \in Row, d \in BOOLEAN : Said(r, d) \in BOOLEAN
  /\ \A b, d \in BOOLEAN : Value(b) \in Row /\ Said(Value(b), d) = b
BY DEF Said, Value, Row, Default

\* The two parts of a mode.
LEMMA ModeParts == \A m \in Modes : m = <<m[1], m[2]>> /\ m[1] \in BOOLEAN /\ m[2] \in BOOLEAN
<1> SUFFICES ASSUME NEW m \in Modes
             PROVE  m = <<m[1], m[2]>> /\ m[1] \in BOOLEAN /\ m[2] \in BOOLEAN
  OBVIOUS
<1>1. CASE m = <<TRUE, TRUE>>
  BY <1>1
<1>2. CASE m = <<TRUE, FALSE>>
  BY <1>2
<1>3. CASE m = <<FALSE, TRUE>>
  BY <1>3
<1> QED
  BY <1>1, <1>2, <1>3 DEF Modes

\* Either Defaults.ini names a mode.
LEMMA DefaultsIniModes ==
  ASSUME NEW d \in {Defaults, Altered}
  PROVE  d \in [Fields -> BOOLEAN] /\ d \in Settings /\ Mode(d) \in Modes
<1>1. CASE d = Defaults
  BY <1>1, SettingsFunctions DEF Defaults, Settings, Mode, Modes
<1>2. CASE d = Altered
  BY <1>2, SettingsFunctions DEF Altered, Settings, Mode, Modes
<1> QED
  BY <1>1, <1>2

\* Rows that say a mode resolve to a mode under either Defaults.ini.
LEMMA RowsResolve ==
  ASSUME NEW rows \in [Fields -> Row], SayMode(rows), NEW d \in {Defaults, Altered},
         NEW s, s = [f \in Fields |-> Said(rows[f], d[f])]
  PROVE  s \in Settings /\ Mode(s) \in Modes
<1>1. d \in [Fields -> BOOLEAN] /\ Mode(d) \in Modes
  BY DefaultsIniModes
<1>2. s \in Settings
  BY <1>1, RowValues, SettingsFunctions
<1>3. /\ s.rot = Said(rows.rot, d.rot) /\ s.pos = Said(rows.pos, d.pos)
      /\ d.rot \in BOOLEAN /\ d.pos \in BOOLEAN
  BY <1>1 DEF Fields
<1>4. CASE rows.rot = Default /\ rows.pos = Default
  <2>1. s.rot = d.rot /\ s.pos = d.pos
    BY <1>3, <1>4 DEF Said
  <2> QED
    BY <1>1, <1>2, <2>1 DEF Mode
<1>5. CASE \E m \in Modes : rows.rot = Value(m[1]) /\ rows.pos = Value(m[2])
  <2>1. PICK m \in Modes : rows.rot = Value(m[1]) /\ rows.pos = Value(m[2])
    BY <1>5
  <2>2. m[1] \in BOOLEAN /\ m[2] \in BOOLEAN /\ m = <<m[1], m[2]>>
    BY ModeParts
  <2>3. s.rot = m[1] /\ s.pos = m[2]
    BY <1>3, <2>1, <2>2, RowValues
  <2> QED
    BY <1>2, <2>2, <2>3 DEF Mode
<1> QED
  BY <1>4, <1>5 DEF SayMode

\* What the file would start a session in has a mode.
LEMMA FileStartsInMode ==
  ASSUME IInv
  PROVE  FileSettings \in Settings /\ Mode(FileSettings) \in Modes
<1>0. /\ file \in [Fields -> Row] \cup {NoFile}
      /\ file # NoFile => SayMode(file)
      /\ defaultsIni \in {Defaults, Altered}
  BY DEF IInv, TypeOK, ConfigTypeOK
<1>1. CASE file = NoFile
  BY <1>1, DefaultsIniModes DEF FileSettings
<1>2. CASE file # NoFile
  <2>1. FileSettings = [f \in Fields |-> Said(file[f], defaultsIni[f])]
    BY <1>2 DEF FileSettings, Resolve
  <2> QED
    BY <1>0, <1>2, <2>1, RowsResolve
<1> QED
  BY <1>1, <1>2

\* A load leaves a file that says a mode, or none, and hands out the settings
\* that file means.
LEMMA LoadGives ==
  ASSUME IInv, Load
  PROVE  /\ file' \in [Fields -> Row] \cup {NoFile}
         /\ file' # NoFile => SayMode(file')
         /\ Loaded = FileSettings'
         /\ Loaded \in Settings /\ Mode(Loaded) \in Modes
         /\ status' \in {"canonical", "migrated", "created", "deferred"}
         /\ reader' = Closed
         /\ UNCHANGED <<defaultsIni, legacy>>
<1>1. reader' = Closed /\ UNCHANGED <<defaultsIni, legacy>>
  BY DEF Load
<1>2. /\ file \in [Fields -> Row] \cup {NoFile}
      /\ file # NoFile => SayMode(file)
      /\ defaultsIni \in {Defaults, Altered}
      /\ ReaderTyped
  BY DEF IInv, TypeOK, ConfigTypeOK
<1>3. Fresh \in [Fields -> Row] /\ SayMode(Fresh)
  BY DEF Fresh, Row, SayMode, Fields
<1>4. ASSUME status' # "deferred", file' \in [Fields -> Row], SayMode(file')
      PROVE  /\ Loaded = FileSettings'
             /\ Loaded \in Settings /\ Mode(Loaded) \in Modes
  <2>1. file' # NoFile
    BY <1>4, RowsAreNoFile
  <2>2. /\ Loaded = [f \in Fields |-> Said(file'[f], defaultsIni[f])]
        /\ FileSettings' = [f \in Fields |-> Said(file'[f], defaultsIni[f])]
    BY <1>1, <1>4, <2>1 DEF Loaded, FileSettings, Resolve
  <2> QED
    BY <1>2, <1>4, <2>2, RowsResolve
<1>5. CASE LoadCanonical
  <2>1. file' = file /\ file # NoFile /\ status' = "canonical"
    BY <1>5 DEF LoadCanonical
  <2> QED
    BY <1>1, <1>2, <1>4, <2>1
<1>6. CASE LoadMigrated
  <2>1. /\ file' = Imported(reader.read.config) /\ status' = "migrated"
        /\ reader.read.config.WorldSpaceYaw \in {"true", "false"}
    BY <1>2, <1>6 DEF LoadMigrated, Import, Outcome, LegacyText, ReaderTyped, ReaderStates
  <2>2. PICK y \in Row : file' = [Fresh EXCEPT !.yaw = y]
    BY <2>1 DEF Imported, Row
  <2>3. file' \in [Fields -> Row] /\ file'.rot = Default /\ file'.pos = Default
    BY <1>3, <2>2 DEF Fresh, Fields
  <2>4. SayMode(file')
    BY <2>3 DEF SayMode
  <2> QED
    BY <1>1, <1>4, <2>1, <2>3, <2>4
<1>7. CASE LoadCreated
  <2>1. file' = Fresh /\ status' = "created"
    BY <1>7 DEF LoadCreated
  <2> QED
    BY <1>1, <1>3, <1>4, <2>1
<1>8. CASE LoadDeferred
  <2>1. file' = NoFile /\ status' = "deferred"
    BY <1>8 DEF LoadDeferred
  <2>2. Loaded = Defaults /\ FileSettings' = Defaults
    BY <2>1 DEF Loaded, FileSettings
  <2> QED
    BY <1>1, <2>1, <2>2, DefaultsIniModes
<1> QED
  BY <1>5, <1>6, <1>7, <1>8 DEF Load

LEMMA InitInv == Init => IInv
<1> SUFFICES ASSUME Init PROVE IInv
  OBVIOUS
<1>1. Defaults \in Settings /\ Mode(Defaults) \in Modes
  BY DEF Defaults, Settings, Mode, Modes
<1>2. ASSUME file \in Files PROVE file \in [Fields -> Row] /\ SayMode(file)
  <2>1. PICK o \in Row, y \in Row,
             m \in {<<Default, Default>>} \cup {<<Value(p[1]), Value(p[2])>> : p \in Modes} :
          file = [on |-> o, rot |-> m[1], pos |-> m[2], yaw |-> y]
    BY <1>2 DEF Files
  <2>2. m[1] \in Row /\ m[2] \in Row
    BY DEF Row, Value, Modes, Default
  <2>3. file \in [Fields -> Row]
    BY <2>1, <2>2 DEF Fields
  <2> QED
    BY <2>1, <2>3 DEF SayMode
<1>3. TypeOK
  BY <1>1, <1>2 DEF Init, ConfigInit, TypeOK, ConfigTypeOK, Row
<1> QED
  BY <1>2, <1>3
  DEF Init, ConfigInit, IInv, ReaderTyped, MirrorInv, ViewInv, ResumeInv, SessionInv

\* A save keeps a file that says a mode, touches its own rows only, and has
\* written the session's values when it reports Saved.
LEMMA SaveGives ==
  ASSUME IInv, NEW fields, fields = {"rot", "pos"} \/ fields = {"yaw"},
         NEW lost \in BOOLEAN, SaveRows(fields, state, lost)
  PROVE  /\ UNCHANGED <<defaultsIni, legacy, status, reader>>
         /\ file = NoFile => file' = NoFile /\ lost
         /\ file # NoFile =>
              /\ file' # NoFile /\ file' \in [Fields -> Row] /\ SayMode(file')
              /\ \A f \in Fields \ fields : file'[f] = file[f]
              /\ ~lost => \A f \in fields : file'[f] = Value(state[f])
<1>1. CASE file = NoFile
  BY <1>1 DEF SaveRows
<1>2. CASE file # NoFile
  <2> DEFINE saved == [f \in Fields |-> IF f \in fields THEN Value(state[f]) ELSE file[f]]
  <2>0. /\ file \in [Fields -> Row] /\ SayMode(file)
        /\ state \in [Fields -> BOOLEAN] /\ Mode(state) \in Modes
    BY <1>2, SettingsFunctions DEF IInv, TypeOK, ConfigTypeOK
  <2>1. saved \in [Fields -> Row]
    BY <2>0, RowValues
  <2>2. SayMode(saved)
    <3>1. CASE fields = {"rot", "pos"}
      <4>1. saved.rot = Value(state.rot) /\ saved.pos = Value(state.pos)
        BY <3>1 DEF Fields
      <4>2. Mode(state)[1] = state.rot /\ Mode(state)[2] = state.pos
        BY DEF Mode
      <4> QED
        BY <2>0, <4>1, <4>2 DEF SayMode
    <3>2. CASE fields = {"yaw"}
      <4>1. saved.rot = file.rot /\ saved.pos = file.pos
        BY <3>2 DEF Fields
      <4> QED
        BY <2>0, <4>1 DEF SayMode
    <3> QED
      BY <3>1, <3>2
  <2>3. /\ UNCHANGED <<defaultsIni, legacy, status, reader>>
        /\ (file' = saved /\ ~lost) \/ (file' \in {file, saved} /\ lost)
    BY <1>2 DEF SaveRows
  <2>4. /\ \A f \in Fields \ fields : saved[f] = file[f]
        /\ \A f \in fields : saved[f] = Value(state[f])
    BY DEF Fields
  <2> HIDE DEF saved
  <2> QED
    BY <1>2, <2>0, <2>1, <2>2, <2>3, <2>4, RowsAreNoFile
<1> QED
  BY <1>1, <1>2

\* What the file would start a session in, field by field.
LEMMA FileSettingsByField ==
  ASSUME NEW f \in Fields
  PROVE  FileSettings[f] = IF file = NoFile THEN Defaults[f] ELSE Said(file[f], defaultsIni[f])
BY DEF FileSettings, Resolve

-----------------------------------------------------------------------------

\* A line is a header or a value of one of the two keys.
LEMMA LineKinds ==
  ASSUME NEW line \in Lines
  PROVE  /\ IsHeader(line) => line \in Headers
         /\ ~IsHeader(line) =>
              \/ line.key = "WorldSpaceYaw" /\ line.value \in {"true", "false", Unusable}
              \/ line.key = "LocalSmoothing" /\ line.value \in {"0.0", "0.3", Unusable}
<1>1. ASSUME NEW k \in Keys, line \in [key : {k}, value : Parses[k] \cup {Unusable}]
      PROVE  /\ ~IsHeader(line)
             /\ \/ line.key = "WorldSpaceYaw" /\ line.value \in {"true", "false", Unusable}
                \/ line.key = "LocalSmoothing" /\ line.value \in {"0.0", "0.3", Unusable}
  <2>1. k = "WorldSpaceYaw" \/ k = "LocalSmoothing"
    BY DEF Keys, SectionOf
  <2>2. line.key = k /\ line.value \in Parses[k] \cup {Unusable} /\ DOMAIN line = {"key", "value"}
    BY <1>1
  <2> QED
    BY <2>1, <2>2 DEF IsHeader, Parses
<1>2. ASSUME line \in Headers PROVE IsHeader(line)
  BY <1>2 DEF Headers, IsHeader
<1> QED
  BY <1>1, <1>2 DEF Lines, Values

LEMMA ReaderOpened == Opened \in ReaderStates
BY DEF Opened, Shipped, ReaderStates

LEMMA ReadLineTyped ==
  ASSUME NEW reading \in ReaderStates, NEW line \in Lines
  PROVE  ReadLine(reading, line) \in ReaderStates
<1>1. CASE IsHeader(line)
  <2>1. line \in Headers
    BY <1>1, LineKinds
  <2>2. line.section \in {"general", "smoothing", "other"}
    BY <2>1 DEF Headers
  <2> QED
    BY <1>1, <2>2 DEF ReadLine, ReaderStates
<1>2. CASE ~IsHeader(line)
  <2>1. \/ line.key = "WorldSpaceYaw" /\ line.value \in {"true", "false", Unusable}
        \/ line.key = "LocalSmoothing" /\ line.value \in {"0.0", "0.3", Unusable}
    BY <1>2, LineKinds
  <2> QED
    BY <1>2, <2>1 DEF ReadLine, ReaderStates, Unusable
<1> QED
  BY <1>1, <1>2

LEMMA NextModeIsMode == \A m \in Modes : NextMode(m) \in Modes
BY DEF Modes, NextMode

LEMMA ReadLegacyInv == IInv /\ ReadLegacy => IInv'
<1> SUFFICES ASSUME IInv, ReadLegacy PROVE IInv'
  OBVIOUS
<1>1. /\ ~up /\ file = NoFile /\ UNCHANGED <<file, defaultsIni, legacy, status>>
      /\ UNCHANGED <<up, state, mirror, hpc, vpc, seen, startOn, modeLost, yawLost, moved>>
      /\ \/ reader' = [lines |-> <<>>, read |-> Opened]
         \/ \E line \in Lines :
              /\ reader # Closed
              /\ reader' = [lines |-> Append(reader.lines, line),
                            read |-> ReadLine(reader.read, line)]
  BY DEF ReadLegacy, OpenLegacy, ReadLegacyLine, IInv, SessionInv
<1>2. ReaderTyped'
  <2>1. CASE reader' = [lines |-> <<>>, read |-> Opened]
    BY <2>1, ReaderOpened DEF ReaderTyped
  <2>2. CASE \E line \in Lines :
               /\ reader # Closed
               /\ reader' = [lines |-> Append(reader.lines, line),
                             read |-> ReadLine(reader.read, line)]
    <3>1. PICK line \in Lines :
             /\ reader # Closed
             /\ reader' = [lines |-> Append(reader.lines, line),
                           read |-> ReadLine(reader.read, line)]
      BY <2>2
    <3>2. reader.lines \in Seq(Lines) /\ reader.read \in ReaderStates
      BY <3>1 DEF IInv, ReaderTyped
    <3>3. ReadLine(reader.read, line) \in ReaderStates
      BY <3>2, ReadLineTyped
    <3> QED
      BY <3>1, <3>2, <3>3 DEF ReaderTyped
  <2> QED
    BY <1>1, <2>1, <2>2
<1>3. TypeOK'
  BY <1>1, <1>2 DEF IInv, TypeOK, ConfigTypeOK, ReaderTyped
<1> QED
  BY <1>1, <1>2, <1>3
  DEF IInv, MirrorInv, ToStore, ViewInv, ResumeInv, SessionInv

LEMMA StartInv == IInv /\ Start => IInv'
<1> SUFFICES ASSUME IInv, Start PROVE IInv'
  OBVIOUS
<1>1. /\ ~up /\ up' = TRUE /\ Load
      /\ state' = Loaded /\ mirror' = Loaded
      /\ startOn' = IF file' = NoFile THEN Default ELSE file'.on
      /\ modeLost' = FALSE /\ yawLost' = FALSE
      /\ UNCHANGED <<hpc, vpc, seen, moved>>
  BY DEF Start
<1>2. /\ file' \in [Fields -> Row] \cup {NoFile}
      /\ file' # NoFile => SayMode(file')
      /\ Loaded = FileSettings'
      /\ Loaded \in Settings /\ Mode(Loaded) \in Modes
      /\ status' \in {"canonical", "migrated", "created", "deferred"}
      /\ reader' = Closed
      /\ UNCHANGED <<defaultsIni, legacy>>
  BY <1>1, LoadGives
<1>3. hpc' = "idle" /\ vpc' = "idle"
  BY <1>1 DEF IInv, SessionInv
<1>4. startOn' \in Row
  BY <1>1, <1>2 DEF Row, Fields
<1>5. TypeOK'
  BY <1>1, <1>2, <1>4 DEF IInv, TypeOK, ConfigTypeOK
<1> QED
  BY <1>1, <1>2, <1>3, <1>5
  DEF IInv, ReaderTyped, MirrorInv, ViewInv, ResumeInv, SessionInv

LEMMA DieInv == IInv /\ Die => IInv'
<1> SUFFICES ASSUME IInv, Die PROVE IInv'
  OBVIOUS
<1>1. /\ status' = "unloaded" /\ reader' = Closed /\ UNCHANGED <<file, defaultsIni, legacy>>
      /\ up' = FALSE /\ state' = Defaults /\ mirror' = Defaults
      /\ hpc' = "idle" /\ vpc' = "idle" /\ seen' = Defaults /\ startOn' = Default
      /\ modeLost' = FALSE /\ yawLost' = FALSE /\ moved' = FALSE
  BY DEF Die, Unload
<1>2. TypeOK'
  BY <1>1, DefaultsIniModes DEF IInv, TypeOK, ConfigTypeOK, Row
<1> QED
  BY <1>1, <1>2
  DEF IInv, ReaderTyped, MirrorInv, ViewInv, ResumeInv, SessionInv

LEMMA EditInv == IInv /\ Edit => IInv'
<1> SUFFICES ASSUME IInv, Edit PROVE IInv'
  OBVIOUS
<1>1. /\ ~up /\ status = "unloaded"
      /\ UNCHANGED <<up, state, mirror, hpc, vpc, seen, startOn, modeLost, yawLost, moved>>
      /\ UNCHANGED <<status, reader>>
      /\ file' \in {file, NoFile}
      /\ defaultsIni' \in {Defaults, Altered}
      /\ legacy' \in {"none", "unreadable", "text"}
  BY DEF Edit, EditFiles, SaveLegacyAsText, ChangeDefaults, DeleteFile, IInv, SessionInv, TypeOK,
         ConfigTypeOK
<1>2. TypeOK'
  BY <1>1 DEF IInv, TypeOK, ConfigTypeOK
<1> QED
  BY <1>1, <1>2
  DEF IInv, ReaderTyped, MirrorInv, ToStore, ViewInv, ResumeInv, SessionInv

\* A step that leaves the files, the session and the state alone.
LEMMA PressToggleInv == IInv /\ PressToggle => IInv'
<1> SUFFICES ASSUME IInv, PressToggle PROVE IInv'
  OBVIOUS
<1>1. /\ up /\ hpc = "idle" /\ hpc' = "storeOn"
      /\ state' = [state EXCEPT !.on = ~@]
      /\ UNCHANGED <<configVars, up, mirror, vpc, seen, startOn, modeLost, yawLost, moved>>
  BY DEF PressToggle
<1>2. state \in [Fields -> BOOLEAN] /\ Mode(state) \in Modes
  BY SettingsFunctions DEF IInv, TypeOK
<1>3. /\ state' \in Settings
      /\ Mode(state') = Mode(state) /\ state'.yaw = state.yaw
      /\ state'.rot = state.rot /\ state'.pos = state.pos
  BY <1>1, <1>2, SettingsFunctions DEF Mode, Fields
<1>4. TypeOK'
  BY <1>1, <1>2, <1>3 DEF IInv, TypeOK, ConfigTypeOK, configVars
<1>5. FileSettings' = FileSettings
  BY <1>1 DEF FileSettings, Resolve, configVars
<1>6. MirrorInv' /\ ViewInv' /\ ResumeInv'
  BY <1>1, <1>3, <1>5
  DEF IInv, MirrorInv, ToStore, ViewInv, ResumeInv, Fields, configVars
<1> QED
  BY <1>1, <1>4, <1>6 DEF IInv, ReaderTyped, SessionInv, configVars

LEMMA PressCycleInv == IInv /\ PressCycle => IInv'
<1> SUFFICES ASSUME IInv, PressCycle PROVE IInv'
  OBVIOUS
<1> DEFINE m == NextMode(Mode(state))
<1>1. /\ up /\ hpc = "idle" /\ hpc' = "storeRot"
      /\ state' = [state EXCEPT !.rot = m[1], !.pos = m[2]]
      /\ moved' = (moved \/ vpc # "idle")
      /\ UNCHANGED <<configVars, up, mirror, vpc, seen, startOn, modeLost, yawLost>>
  BY DEF PressCycle
<1>2. state \in [Fields -> BOOLEAN] /\ Mode(state) \in Modes
  BY SettingsFunctions DEF IInv, TypeOK
<1>3. m \in Modes /\ m = <<m[1], m[2]>> /\ m[1] \in BOOLEAN /\ m[2] \in BOOLEAN
  BY <1>2, NextModeIsMode, ModeParts
<1> HIDE DEF m
<1>4. /\ state' \in Settings /\ Mode(state') \in Modes
      /\ state'.on = state.on /\ state'.yaw = state.yaw
  BY <1>1, <1>2, <1>3, SettingsFunctions DEF Mode, Fields
<1>5. moved' \in BOOLEAN
  BY <1>1 DEF IInv, TypeOK
<1>6. TypeOK'
  BY <1>1, <1>4, <1>5 DEF IInv, TypeOK, ConfigTypeOK, configVars
<1>7. FileSettings' = FileSettings
  BY <1>1 DEF FileSettings, Resolve, configVars
<1>8. MirrorInv' /\ ViewInv' /\ ResumeInv'
  BY <1>1, <1>4, <1>7
  DEF IInv, MirrorInv, ToStore, ViewInv, ResumeInv, Fields, configVars
<1> QED
  BY <1>1, <1>6, <1>8 DEF IInv, ReaderTyped, SessionInv, configVars

LEMMA PressYawInv == IInv /\ PressYaw => IInv'
<1> SUFFICES ASSUME IInv, PressYaw PROVE IInv'
  OBVIOUS
<1>1. /\ up /\ hpc = "idle" /\ hpc' = "storeYaw"
      /\ state' = [state EXCEPT !.yaw = ~@]
      /\ moved' = (moved \/ vpc # "idle")
      /\ UNCHANGED <<configVars, up, mirror, vpc, seen, startOn, modeLost, yawLost>>
  BY DEF PressYaw
<1>2. state \in [Fields -> BOOLEAN] /\ Mode(state) \in Modes
  BY SettingsFunctions DEF IInv, TypeOK
<1>3. /\ state' \in Settings /\ Mode(state') = Mode(state)
      /\ state'.on = state.on /\ state'.rot = state.rot /\ state'.pos = state.pos
  BY <1>1, <1>2, SettingsFunctions DEF Mode, Fields
<1>4. moved' \in BOOLEAN
  BY <1>1 DEF IInv, TypeOK
<1>5. TypeOK'
  BY <1>1, <1>2, <1>3, <1>4 DEF IInv, TypeOK, ConfigTypeOK, configVars
<1>6. FileSettings' = FileSettings
  BY <1>1 DEF FileSettings, Resolve, configVars
<1>7. MirrorInv' /\ ViewInv' /\ ResumeInv'
  BY <1>1, <1>3, <1>6
  DEF IInv, MirrorInv, ToStore, ViewInv, ResumeInv, Fields, configVars
<1> QED
  BY <1>1, <1>5, <1>7 DEF IInv, ReaderTyped, SessionInv, configVars

\* Any of the stores: one field less to store.
LEMMA StoreInv ==
  ASSUME IInv, NEW field \in Fields, NEW from, NEW to, StoreMirror(field, from, to),
         <<field, from, to>> \in {<<"on", "storeOn", "idle">>, <<"rot", "storeRot", "storePos">>,
                                  <<"pos", "storePos", "saveMode">>,
                                  <<"yaw", "storeYaw", "saveYaw">>}
  PROVE  IInv'
<1>1. /\ hpc = from /\ hpc' = to
      /\ mirror' = [mirror EXCEPT ![field] = state[field]]
      /\ UNCHANGED <<configVars, up, state, vpc, seen, startOn, modeLost, yawLost, moved>>
  BY DEF StoreMirror
<1>2. state \in [Fields -> BOOLEAN] /\ mirror \in [Fields -> BOOLEAN]
  BY SettingsFunctions DEF IInv, TypeOK
<1>3. /\ mirror' \in Settings /\ mirror'[field] = state[field]
      /\ \A f \in Fields \ {field} : mirror'[f] = mirror[f]
  BY <1>1, <1>2, SettingsFunctions
<1>4. TypeOK'
  BY <1>1, <1>3 DEF IInv, TypeOK, ConfigTypeOK, configVars
<1>5. FileSettings' = FileSettings
  BY <1>1 DEF FileSettings, Resolve, configVars
<1>6. MirrorInv'
  BY <1>1, <1>3 DEF IInv, MirrorInv, ToStore, Fields
<1>7. ViewInv' /\ ResumeInv'
  BY <1>1, <1>5 DEF IInv, ViewInv, ResumeInv, configVars
<1>8. up
  BY <1>1 DEF IInv, SessionInv
<1> QED
  BY <1>1, <1>4, <1>6, <1>7, <1>8 DEF IInv, ReaderTyped, SessionInv, configVars

LEMMA SaveModeInv == IInv /\ SaveMode => IInv'
<1> SUFFICES ASSUME IInv, SaveMode PROVE IInv'
  OBVIOUS
<1>1. /\ hpc = "saveMode" /\ hpc' = "idle"
      /\ modeLost' \in BOOLEAN
      /\ SaveRows({"rot", "pos"}, state, modeLost')
      /\ UNCHANGED <<up, state, mirror, vpc, seen, startOn, yawLost, moved>>
  BY DEF SaveMode
<1>2. /\ UNCHANGED <<defaultsIni, legacy, status, reader>>
      /\ file = NoFile => file' = NoFile /\ modeLost'
      /\ file # NoFile =>
           /\ file' # NoFile /\ file' \in [Fields -> Row] /\ SayMode(file')
           /\ file'.on = file.on /\ file'.yaw = file.yaw
           /\ ~modeLost' => file'.rot = Value(state.rot) /\ file'.pos = Value(state.pos)
  BY <1>1, SaveGives DEF Fields
<1>3. TypeOK'
  BY <1>1, <1>2 DEF IInv, TypeOK, ConfigTypeOK
<1>4. up
  BY <1>1 DEF IInv, SessionInv
<1>5. FileSettings'.yaw = FileSettings.yaw
  BY <1>2 DEF FileSettings, Resolve, Fields
<1>6. modeLost' \/ Mode(FileSettings') = Mode(state)
  <2> SUFFICES ASSUME ~modeLost' PROVE Mode(FileSettings') = Mode(state)
    OBVIOUS
  <2>1. /\ FileSettings'.rot = Said(Value(state.rot), defaultsIni.rot)
        /\ FileSettings'.pos = Said(Value(state.pos), defaultsIni.pos)
    BY <1>2 DEF FileSettings, Resolve, Fields
  <2>2. /\ state.rot \in BOOLEAN /\ state.pos \in BOOLEAN
        /\ defaultsIni.rot \in BOOLEAN /\ defaultsIni.pos \in BOOLEAN
    BY DefaultsIniModes DEF IInv, TypeOK, ConfigTypeOK, Settings
  <2> QED
    BY <2>1, <2>2, RowValues DEF Mode
<1>7. MirrorInv' /\ ViewInv'
  BY <1>1 DEF IInv, MirrorInv, ToStore, ViewInv
<1>8. ResumeInv'
  BY <1>1, <1>2, <1>4, <1>5, <1>6 DEF IInv, ResumeInv
<1> QED
  BY <1>1, <1>2, <1>3, <1>4, <1>7, <1>8 DEF IInv, ReaderTyped, SessionInv

LEMMA SaveYawInv == IInv /\ SaveYaw => IInv'
<1> SUFFICES ASSUME IInv, SaveYaw PROVE IInv'
  OBVIOUS
<1>1. /\ hpc = "saveYaw" /\ hpc' = "idle"
      /\ yawLost' \in BOOLEAN
      /\ SaveRows({"yaw"}, state, yawLost')
      /\ UNCHANGED <<up, state, mirror, vpc, seen, startOn, modeLost, moved>>
  BY DEF SaveYaw
<1>2. /\ UNCHANGED <<defaultsIni, legacy, status, reader>>
      /\ file = NoFile => file' = NoFile /\ yawLost'
      /\ file # NoFile =>
           /\ file' # NoFile /\ file' \in [Fields -> Row] /\ SayMode(file')
           /\ file'.on = file.on /\ file'.rot = file.rot /\ file'.pos = file.pos
           /\ ~yawLost' => file'.yaw = Value(state.yaw)
  BY <1>1, SaveGives DEF Fields
<1>3. TypeOK'
  BY <1>1, <1>2 DEF IInv, TypeOK, ConfigTypeOK
<1>4. up
  BY <1>1 DEF IInv, SessionInv
<1>5. Mode(FileSettings') = Mode(FileSettings)
  BY <1>2 DEF FileSettings, Resolve, Fields, Mode
<1>6. yawLost' \/ FileSettings'.yaw = state.yaw
  <2> SUFFICES ASSUME ~yawLost' PROVE FileSettings'.yaw = state.yaw
    OBVIOUS
  <2>1. FileSettings'.yaw = Said(Value(state.yaw), defaultsIni.yaw)
    BY <1>2 DEF FileSettings, Resolve, Fields
  <2>2. state.yaw \in BOOLEAN /\ defaultsIni.yaw \in BOOLEAN
    BY DefaultsIniModes DEF IInv, TypeOK, ConfigTypeOK, Settings
  <2> QED
    BY <2>1, <2>2, RowValues
<1>7. MirrorInv' /\ ViewInv'
  BY <1>1 DEF IInv, MirrorInv, ToStore, ViewInv
<1>8. ResumeInv'
  BY <1>1, <1>2, <1>4, <1>5, <1>6 DEF IInv, ResumeInv
<1> QED
  BY <1>1, <1>2, <1>3, <1>4, <1>7, <1>8 DEF IInv, ReaderTyped, SessionInv

\* The view's steps touch nothing but what the view itself keeps.
LEMMA ViewStepInv ==
  ASSUME IInv, UNCHANGED <<configVars, up, state, mirror, hpc, startOn, modeLost, yawLost>>,
         up, vpc' \in {"idle", "rot", "yaw", "pos", "done"}, seen' \in Settings,
         moved' \in BOOLEAN, ViewInv'
  PROVE  IInv'
<1>1. TypeOK'
  BY DEF IInv, TypeOK, ConfigTypeOK, configVars
<1>2. FileSettings' = FileSettings
  BY DEF FileSettings, Resolve, configVars
<1>3. MirrorInv' /\ ResumeInv'
  BY <1>2 DEF IInv, MirrorInv, ToStore, ResumeInv, configVars
<1> QED
  BY <1>1, <1>3 DEF IInv, ReaderTyped, SessionInv, configVars

LEMMA BeginViewInv == IInv /\ BeginView => IInv'
<1> SUFFICES ASSUME IInv, BeginView PROVE IInv'
  OBVIOUS
<1>1. /\ up /\ vpc' = "rot" /\ seen' = [seen EXCEPT !.on = TRUE]
      /\ moved' = (hpc \in {"storeRot", "storePos", "storeYaw"})
      /\ UNCHANGED <<configVars, up, state, mirror, hpc, startOn, modeLost, yawLost>>
  BY DEF BeginView
<1>2. seen' \in Settings
  BY <1>1, SettingsFunctions DEF IInv, TypeOK, Fields
<1>3. ViewInv'
  BY <1>1 DEF ViewInv
<1> QED
  BY <1>1, <1>2, <1>3, ViewStepInv

\* The reads: of a mirror that agrees with the state, or in a view that overlaps.
LEMMA ReadInv ==
  ASSUME IInv, ReadRot \/ ReadYaw \/ ReadPos
  PROVE  IInv'
<1>1. PICK f \in Fields :
        /\ \/ f = "rot" /\ vpc = "rot" /\ vpc' = IF mirror.rot THEN "yaw" ELSE "pos"
           \/ f = "yaw" /\ vpc = "yaw" /\ vpc' = "pos"
           \/ f = "pos" /\ vpc = "pos" /\ vpc' = "done"
        /\ seen' = [seen EXCEPT ![f] = mirror[f]]
        /\ UNCHANGED <<configVars, up, state, mirror, hpc, startOn, modeLost, yawLost, moved>>
  BY DEF ReadRot, ReadYaw, ReadPos, ReadFlag, Fields
<1>2. /\ seen \in [Fields -> BOOLEAN] /\ mirror \in [Fields -> BOOLEAN]
      /\ state \in [Fields -> BOOLEAN] /\ moved \in BOOLEAN
  BY SettingsFunctions DEF IInv, TypeOK
<1>3. /\ seen' \in Settings /\ seen'[f] = mirror[f]
      /\ \A g \in Fields \ {f} : seen'[g] = seen[g]
  BY <1>1, <1>2, SettingsFunctions
<1>4. up
  BY <1>1 DEF IInv, SessionInv
<1>5. ~moved => mirror.rot = state.rot /\ mirror.yaw = state.yaw /\ mirror.pos = state.pos
  BY <1>1 DEF IInv, ViewInv, MirrorInv, ToStore, Fields
<1>6. vpc' \in {"idle", "rot", "yaw", "pos", "done"}
  BY <1>1
<1>7. ViewInv'
  <2> SUFFICES ASSUME ~moved
      PROVE  /\ hpc \notin {"storeRot", "storePos", "storeYaw"}
             /\ vpc' \in {"yaw", "pos", "done"} => seen'.rot = state.rot
             /\ vpc' \in {"pos", "done"} => (seen'.rot => seen'.yaw = state.yaw)
             /\ vpc' = "done" => seen'.pos = state.pos
    BY <1>1 DEF ViewInv
  <2>1. /\ hpc \notin {"storeRot", "storePos", "storeYaw"}
        /\ vpc \in {"yaw", "pos", "done"} => seen.rot = state.rot
        /\ vpc \in {"pos", "done"} => (seen.rot => seen.yaw = state.yaw)
    BY <1>1 DEF IInv, ViewInv
  <2>2. CASE f = "rot"
    BY <1>1, <1>3, <1>5, <2>1, <2>2 DEF Fields
  <2>3. CASE f = "yaw"
    BY <1>1, <1>3, <1>5, <2>1, <2>3 DEF Fields
  <2>4. CASE f = "pos"
    BY <1>1, <1>3, <1>5, <2>1, <2>4 DEF Fields
  <2> QED
    BY <1>1, <2>2, <2>3, <2>4
<1> QED
  BY <1>1, <1>2, <1>3, <1>4, <1>6, <1>7, ViewStepInv

LEMMA EndViewInv == IInv /\ EndView => IInv'
<1> SUFFICES ASSUME IInv, EndView PROVE IInv'
  OBVIOUS
<1>1. /\ vpc = "done" /\ vpc' = "idle" /\ seen' = Defaults /\ moved' = FALSE
      /\ UNCHANGED <<configVars, up, state, mirror, hpc, startOn, modeLost, yawLost>>
  BY DEF EndView
<1>2. up
  BY <1>1 DEF IInv, SessionInv
<1>3. ViewInv'
  BY <1>1 DEF ViewInv
<1> QED
  BY <1>1, <1>2, <1>3, DefaultsIniModes, ViewStepInv

LEMMA NextInv == IInv /\ [Next]_vars => IInv'
<1> SUFFICES ASSUME IInv, [Next]_vars PROVE IInv'
  OBVIOUS
<1>1. CASE StoreOn \/ StoreRot \/ StorePos \/ StoreYaw
  BY <1>1, StoreInv DEF StoreOn, StoreRot, StorePos, StoreYaw, Fields
<1>2. CASE UNCHANGED vars
  BY <1>2
  DEF vars, configVars, IInv, TypeOK, ConfigTypeOK, ReaderTyped, MirrorInv, ToStore, ViewInv,
      ResumeInv, FileSettings, Resolve, SessionInv
<1> QED
  BY <1>1, <1>2, ReadLegacyInv, StartInv, DieInv, EditInv, PressToggleInv, PressCycleInv,
     PressYawInv, SaveModeInv, SaveYawInv, BeginViewInv, ReadInv, EndViewInv
  DEF Next, Hotkeys, View

-----------------------------------------------------------------------------

\* The invariant of a session and its file.
THEOREM Inductive == Spec => []IInv
BY InitInv, NextInv, PTL DEF Spec

\* The state, its mirrors, the file and the reader keep their types, and the two
\* flags of the state always name a mode (tracking.rs 173-187, 226-234).
THEOREM TypeCorrect == Spec => []TypeOK
<1>1. IInv => TypeOK
  BY DEF IInv
<1> QED
  BY Inductive, <1>1, PTL

\* Whoever finds the lock free finds the mirrors equal to the state
\* (tracking.rs 158-241).
THEOREM MirrorsAlwaysAgree == Spec => []MirrorsAgree
<1>1. IInv => MirrorsAgree
  <2> SUFFICES ASSUME IInv, up, ~Locked PROVE mirror = state
    BY DEF MirrorsAgree
  <2>1. ToStore = {}
    BY DEF Locked, ToStore
  <2>2. mirror \in [Fields -> BOOLEAN] /\ state \in [Fields -> BOOLEAN]
    BY SettingsFunctions DEF IInv, TypeOK
  <2> QED
    BY <2>1, <2>2 DEF IInv, MirrorInv
<1> QED
  BY Inductive, <1>1, PTL

\* Every view that overlaps no change poses in the mode and the yaw mode the
\* state names (engine_hook.rs 546-555).
THEOREM ViewsPoseInMode == Spec => []ViewPosesInMode
<1>1. IInv => ViewPosesInMode
  BY DEF IInv, ViewInv, ViewPosesInMode, Mode
<1> QED
  BY Inductive, <1>1, PTL

\* No start finds rows that name no mode, whatever died, failed or was edited
\* before it (tracking.rs 229-234).
THEOREM FileAlwaysNamesMode == Spec => []FileNamesMode
<1>1. IInv => FileNamesMode
  BY FileStartsInMode DEF FileNamesMode
<1> QED
  BY Inductive, <1>1, PTL

\* The next start picks up where the player left off, unless the latest save of
\* what he left off with was lost (README.md 125-127, hotkeys.rs 7-8).
THEOREM NextStartAlwaysResumes == Spec => []NextStartResumes
<1>1. IInv => NextStartResumes
  BY DEF IInv, ResumeInv, NextStartResumes
<1> QED
  BY Inductive, <1>1, PTL

-----------------------------------------------------------------------------
(* The session and the file implement the player's preferences             *)

Held == IF up THEN Choices(state) ELSE NoFile
Kept == IF file = NoFile THEN NoFile ELSE Choices(FileSettings)

\* A choice is both of its parts, and is never mistaken for none.
LEMMA ChoicesByPart ==
  ASSUME NEW s, Mode(s) \in Modes, s.yaw \in BOOLEAN
  PROVE  /\ Choices(s) \in Player!Choices
         /\ Choices(s) # NoFile
         /\ Choices(s).mode = Mode(s)
         /\ Choices(s).yaw = s.yaw
<1>1. DOMAIN Choices(s) = {"mode", "yaw"}
  BY DEF Choices
<1>2. DOMAIN NoFile = {"absent"}
  BY DEF NoFile
<1> QED
  BY <1>1, <1>2 DEF Choices, Player!Choices

LEMMA SameParts ==
  ASSUME NEW s, NEW t, Mode(s) = Mode(t), s.yaw = t.yaw
  PROVE  Choices(s) = Choices(t)
BY DEF Choices

\* What is held and what is kept are choices where there are any.
ChoicesInv ==
  /\ IF up THEN Held = Choices(state) /\ Held # NoFile ELSE Held = NoFile
  /\ IF file = NoFile THEN Kept = NoFile ELSE Kept = Choices(FileSettings) /\ Kept # NoFile
  /\ Held \in Player!Choices \cup {NoFile}
  /\ Kept \in Player!Choices \cup {NoFile}

LEMMA HeldAndKept == IInv => ChoicesInv
<1> SUFFICES ASSUME IInv PROVE ChoicesInv
  OBVIOUS
<1>1. Mode(state) \in Modes /\ state.yaw \in BOOLEAN
  BY DEF IInv, TypeOK, Settings
<1>2. Mode(FileSettings) \in Modes /\ FileSettings.yaw \in BOOLEAN
  BY FileStartsInMode DEF Settings
<1> QED
  BY <1>1, <1>2, ChoicesByPart DEF ChoicesInv, Held, Kept

LEMMA HeldAndKeptNext == IInv /\ [Next]_vars => ChoicesInv'
BY NextInv, HeldAndKept, PTL

LEMMA StartBegins ==
  ASSUME IInv, Start
  PROVE  Player!Begin
<1>1. /\ ~up /\ up' /\ Load /\ state' = Loaded
  BY DEF Start
<1>2. Loaded = FileSettings' /\ UNCHANGED defaultsIni
  BY <1>1, LoadGives
<1>3. [Next]_vars
  BY DEF Next
<1>4. Held = NoFile /\ Held' \in Player!Choices
  BY <1>1, <1>3, HeldAndKept, HeldAndKeptNext DEF ChoicesInv
<1>5. file' # NoFile => Kept' = Held'
  BY <1>1, <1>2, <1>3, HeldAndKeptNext DEF ChoicesInv, Choices, Mode
<1>6. file' = NoFile => Kept' = NoFile
  BY <1>3, HeldAndKeptNext DEF ChoicesInv
<1>7. file # NoFile => file' = file
  BY <1>1 DEF Load, LoadCanonical, LoadMigrated, LoadCreated, LoadDeferred, IInv, SessionInv
<1>8. Kept = NoFile \/ (file # NoFile /\ Kept' = Kept)
  BY <1>2, <1>7, HeldAndKept DEF ChoicesInv, Kept, FileSettings, Resolve
<1>9. IF Kept = NoFile THEN Kept' \in {NoFile, Held'} ELSE Held' = Kept /\ Kept' = Kept
  BY <1>5, <1>6, <1>7, <1>8
<1> QED
  BY <1>4, <1>9 DEF Player!Begin, Held, Kept

\* The session's mode and yaw mode stay, one of them or both.
LEMMA PressChooses ==
  ASSUME IInv, PressToggle \/ PressCycle \/ PressYaw
  PROVE  [Player!Choose]_(Player!preferenceVars)
<1>1. /\ up /\ up' /\ UNCHANGED <<file, defaultsIni>>
      /\ \/ state'.rot = state.rot /\ state'.pos = state.pos
         \/ state'.yaw = state.yaw
  <2>1. state \in [Fields -> BOOLEAN]
    BY SettingsFunctions DEF IInv, TypeOK
  <2>2. CASE PressToggle
    BY <2>1, <2>2 DEF PressToggle, configVars, Fields
  <2>3. CASE PressCycle
    BY <2>1, <2>3 DEF PressCycle, configVars, Fields
  <2>4. CASE PressYaw
    BY <2>1, <2>4 DEF PressYaw, configVars, Fields
  <2> QED
    BY <2>2, <2>3, <2>4
<1>2. [Next]_vars
  BY DEF Next, Hotkeys
<1>3. /\ Held = Choices(state) /\ Held # NoFile
      /\ Held' = Choices(state)' /\ Held' \in Player!Choices
  BY <1>1, <1>2, HeldAndKept, HeldAndKeptNext DEF ChoicesInv
<1>4. Held'.mode = Held.mode \/ Held'.yaw = Held.yaw
  BY <1>1, <1>3 DEF Choices, Mode
<1>5. Kept' = Kept
  BY <1>1 DEF Kept, FileSettings, Resolve
<1> QED
  BY <1>3, <1>4, <1>5 DEF Player!Choose, Player!preferenceVars, Held, Kept

\* A save writes a choice as the session has it, or leaves what is kept.
LEMMA SaveKeeps ==
  ASSUME IInv, SaveMode \/ SaveYaw
  PROVE  [Player!KeepMode \/ Player!KeepYaw]_(Player!preferenceVars)
<1>1. up /\ up' /\ state' = state /\ Held' = Held
  BY DEF SaveMode, SaveYaw, IInv, SessionInv, Held
<1>2. [Next]_vars
  BY DEF Next, Hotkeys
<1>3. PICK fields \in {{"rot", "pos"}, {"yaw"}}, lost \in BOOLEAN : SaveRows(fields, state, lost)
  BY DEF SaveMode, SaveYaw
<1>4. Kept' = Kept \/ (file # NoFile /\ file' # NoFile)
  <2>1. CASE file = NoFile
    BY <1>3, <2>1 DEF SaveRows, Kept
  <2>2. CASE file # NoFile
    <3>1. file' # NoFile
      BY <1>3, <2>2, SaveGives
    <3> QED
      BY <1>3, <2>2, <3>1
  <2> QED
    BY <2>1, <2>2
<1>5. ASSUME file # NoFile, file' # NoFile, file' # file
      PROVE  Kept' \in {[Kept EXCEPT !.mode = Held.mode], [Kept EXCEPT !.yaw = Held.yaw]}
  <2>1. file' = [f \in Fields |-> IF f \in fields THEN Value(state[f]) ELSE file[f]]
    BY <1>3, <1>5 DEF SaveRows
  <2>2. UNCHANGED defaultsIni /\ defaultsIni \in [Fields -> BOOLEAN]
        /\ state \in [Fields -> BOOLEAN]
    BY <1>3, DefaultsIniModes, SettingsFunctions DEF SaveRows, IInv, TypeOK, ConfigTypeOK
  <2>3. \A f \in Fields : FileSettings'[f] = IF f \in fields THEN state[f] ELSE FileSettings[f]
    BY <1>5, <2>1, <2>2, RowValues DEF FileSettings, Resolve
  <2>4. /\ Held = Choices(state) /\ Kept = Choices(FileSettings)
        /\ Kept' = Choices(FileSettings)'
    BY <1>1, <1>2, <1>5, HeldAndKept, HeldAndKeptNext DEF ChoicesInv
  <2>5. CASE fields = {"rot", "pos"}
    <3>1. Mode(FileSettings)' = Mode(state) /\ FileSettings'.yaw = FileSettings.yaw
      BY <2>3, <2>5 DEF Mode, Fields
    <3> QED
      BY <2>4, <3>1 DEF Choices
  <2>6. CASE fields = {"yaw"}
    <3>1. Mode(FileSettings)' = Mode(FileSettings) /\ FileSettings'.yaw = state.yaw
      BY <2>3, <2>6 DEF Mode, Fields
    <3> QED
      BY <2>4, <3>1 DEF Choices
  <2> QED
    BY <1>3, <2>5, <2>6
<1>6. file' = file => Kept' = Kept
  BY <1>3 DEF SaveRows, Kept, FileSettings, Resolve
<1>7. Held # NoFile /\ (file # NoFile => Kept # NoFile)
  BY <1>1, HeldAndKept DEF ChoicesInv
<1> QED
  BY <1>1, <1>4, <1>5, <1>6, <1>7
  DEF Player!KeepMode, Player!KeepYaw, Player!preferenceVars, Held, Kept

\* Every other step ends the session, edits the files or is none of the player's.
LEMMA OtherPreferenceSteps ==
  ASSUME IInv, ReadLegacy \/ Die \/ Edit \/ StoreOn \/ StoreRot \/ StorePos \/ StoreYaw \/ View
               \/ UNCHANGED vars
  PROVE  [Player!End \/ Player!Edit]_(Player!preferenceVars)
<1>1. CASE Die
  <2>1. Held' = NoFile
    BY <1>1 DEF Die, Held
  <2>2. Kept' = Kept
    BY <1>1 DEF Die, Unload, Kept, FileSettings, Resolve
  <2> QED
    BY <2>1, <2>2 DEF Player!End, Held, Kept
<1>2. CASE Edit
  <2>1. Held = NoFile /\ Held' = NoFile
    BY <1>2 DEF Edit, Held
  <2>2. [Next]_vars
    BY <1>2 DEF Next
  <2>3. Kept' \in Player!Choices \cup {NoFile}
    BY <2>2, HeldAndKeptNext DEF ChoicesInv
  <2> QED
    BY <2>1, <2>3 DEF Player!Edit, Held, Kept
<1>3. CASE ReadLegacy \/ StoreOn \/ StoreRot \/ StorePos \/ StoreYaw \/ View \/ UNCHANGED vars
  <2>1. UNCHANGED <<up, state, file, defaultsIni>>
    BY <1>3
    DEF ReadLegacy, OpenLegacy, ReadLegacyLine, StoreOn, StoreRot, StorePos, StoreYaw,
        StoreMirror, View, BeginView, ReadRot, ReadYaw, ReadPos, ReadFlag, EndView, vars,
        configVars
  <2>2. Held' = Held /\ Kept' = Kept
    BY <2>1 DEF Held, Kept, Choices, FileSettings, Resolve
  <2> QED
    BY <2>2 DEF Player!preferenceVars, Held, Kept
<1> QED
  BY <1>1, <1>2, <1>3

\* Whenever the game dies and whichever saves fail, a session begins with what was
\* kept, and nothing is kept but a choice as the session had it, as a whole: the
\* session and its file implement the player's preferences (hotkeys.rs 6-10,
\* tracking.rs 216-241, config_owner.cpp 90-139).
THEOREM SessionImplementsPreferences == Spec => ImplementsPreferences
<1>1. Init => Player!PreferencesInit
  <2> SUFFICES ASSUME Init PROVE Player!PreferencesInit
    OBVIOUS
  <2>1. Held = NoFile /\ Kept \in Player!Choices \cup {NoFile}
    BY InitInv, HeldAndKept DEF ChoicesInv, Init
  <2> QED
    BY <2>1 DEF Player!PreferencesInit, Held, Kept
<1>2. IInv /\ [Next]_vars => [Player!PreferencesNext]_(Player!preferenceVars)
  BY StartBegins, PressChooses, SaveKeeps, OtherPreferenceSteps
  DEF Next, Hotkeys, Player!PreferencesNext
<1> QED
  BY <1>1, <1>2, Inductive, PTL DEF Spec, ImplementsPreferences, Player!PreferencesSpec

-----------------------------------------------------------------------------
(* The legacy reader                                                       *)

HeadersUpTo(lines, i) == {h \in 1 .. i : IsHeader(lines[h])}

SectionUnder(lines, headers) ==
  IF headers = {} THEN "" ELSE lines[CHOOSE h \in headers : \A g \in headers : g <= h].section

HasLast(S) == S = {} \/ \E m \in S : \A n \in S : n <= m

\* The single pass has the section and the settings of the lines so far.
HasRead(lines, read) ==
  /\ \A i \in 0 .. Len(lines) : HasLast(HeadersUpTo(lines, i))
  /\ read.section = SectionAt(lines, Len(lines))
  /\ \A k \in Keys : HasLast(SettingLines(lines, k)) /\ read.config[k] = Meaning(lines, k)

ReaderInv ==
  reader # Closed => /\ reader.lines \in Seq(Lines) /\ reader.read \in ReaderStates
                     /\ HasRead(reader.lines, reader.read)

LEMMA LastUnique ==
  ASSUME NEW S, S \subseteq Nat, NEW m \in S, \A n \in S : n <= m
  PROVE  (CHOOSE h \in S : \A g \in S : g <= h) = m
<1>1. \A h \in S : (\A g \in S : g <= h) => h = m
  OBVIOUS
<1> QED
  BY <1>1

\* One line more: nothing changes before it.
LEMMA Appended ==
  ASSUME NEW lines \in Seq(Lines), NEW line \in Lines
  PROVE  /\ Append(lines, line) \in Seq(Lines)
         /\ Len(Append(lines, line)) = Len(lines) + 1
         /\ DOMAIN Append(lines, line) = 1 .. Len(lines) + 1
         /\ DOMAIN lines = 1 .. Len(lines)
         /\ Len(lines) \in Nat
         /\ \A i \in 1 .. Len(lines) : Append(lines, line)[i] = lines[i]
         /\ Append(lines, line)[Len(lines) + 1] = line
OBVIOUS

LEMMA SectionByHeaders ==
  \A lines, i : SectionAt(lines, i) = SectionUnder(lines, HeadersUpTo(lines, i))
BY DEF SectionAt, SectionUnder, HeadersUpTo

LEMMA SectionBefore ==
  ASSUME NEW lines \in Seq(Lines), NEW line \in Lines, NEW i \in 0 .. Len(lines),
         HasLast(HeadersUpTo(lines, i))
  PROVE  /\ HeadersUpTo(Append(lines, line), i) = HeadersUpTo(lines, i)
         /\ SectionAt(Append(lines, line), i) = SectionAt(lines, i)
<1> DEFINE longer == Append(lines, line)
           headers == HeadersUpTo(lines, i)
<1>1. \A h \in 1 .. i : longer[h] = lines[h]
  BY Appended
<1>2. HeadersUpTo(longer, i) = headers
  BY <1>1 DEF HeadersUpTo
<1>3. CASE headers = {}
  BY <1>2, <1>3 DEF SectionAt, HeadersUpTo
<1>4. CASE headers # {}
  <2>1. PICK m \in headers : \A n \in headers : n <= m
    BY <1>4 DEF HasLast
  <2>2. headers \subseteq Nat /\ m \in 1 .. i
    BY DEF HeadersUpTo
  <2>3. (CHOOSE h \in headers : \A g \in headers : g <= h) = m
    BY <2>1, <2>2, LastUnique
  <2>4. SectionAt(lines, i) = lines[m].section
    BY <1>4, <2>3 DEF SectionAt, HeadersUpTo
  <2>5. SectionAt(longer, i) = longer[m].section
    <3>1. SectionAt(longer, i) =
            longer[CHOOSE h \in HeadersUpTo(longer, i) :
                     \A g \in HeadersUpTo(longer, i) : g <= h].section
      BY <1>2, <1>4 DEF SectionAt, HeadersUpTo
    <3> QED
      BY <1>2, <2>3, <3>1
  <2> QED
    BY <1>1, <1>2, <2>2, <2>4, <2>5
<1> QED
  BY <1>3, <1>4

LEMMA SectionAfter ==
  ASSUME NEW lines \in Seq(Lines), NEW line \in Lines, HasLast(HeadersUpTo(lines, Len(lines)))
  PROVE  /\ HasLast(HeadersUpTo(Append(lines, line), Len(lines) + 1))
         /\ SectionAt(Append(lines, line), Len(lines) + 1) =
              IF IsHeader(line) THEN line.section ELSE SectionAt(lines, Len(lines))
<1> DEFINE longer == Append(lines, line)
           n == Len(lines)
           headers == HeadersUpTo(lines, n)
           newer == HeadersUpTo(longer, n + 1)
<1>0. n \in Nat /\ longer[n + 1] = line /\ \A h \in 1 .. n : longer[h] = lines[h]
  BY Appended
<1>1. CASE IsHeader(line)
  <2>1. n + 1 \in newer /\ newer \subseteq Nat /\ \A h \in newer : h <= n + 1
    BY <1>0, <1>1 DEF HeadersUpTo
  <2>2. (CHOOSE h \in newer : \A g \in newer : g <= h) = n + 1
    BY <2>1, LastUnique
  <2>3. SectionAt(longer, n + 1) = longer[CHOOSE h \in newer : \A g \in newer : g <= h].section
    BY <2>1 DEF SectionAt, HeadersUpTo
  <2> QED
    BY <1>0, <1>1, <2>1, <2>2, <2>3 DEF HasLast
<1>2. CASE ~IsHeader(line)
  <2>1. newer = HeadersUpTo(longer, n)
    BY <1>0, <1>2 DEF HeadersUpTo
  <2>2. SectionAt(longer, n + 1) = SectionAt(longer, n)
    BY <2>1, SectionByHeaders
  <2>3. /\ HeadersUpTo(longer, n) = headers
        /\ SectionAt(longer, n) = SectionAt(lines, n)
    BY <1>0, SectionBefore
  <2> QED
    BY <1>2, <2>1, <2>2, <2>3
<1> QED
  BY <1>1, <1>2

\* The lines that set a key: those before, and the last one if it does.
LEMMA SettingAfter ==
  ASSUME NEW lines \in Seq(Lines), NEW line \in Lines, NEW key \in Keys,
         \A i \in 0 .. Len(lines) : HasLast(HeadersUpTo(lines, i))
  PROVE  SettingLines(Append(lines, line), key) =
           SettingLines(lines, key) \cup
             IF /\ ~IsHeader(line)
                /\ line.key = key
                /\ line.value # Unusable
                /\ SectionAt(lines, Len(lines)) = SectionOf[key]
               THEN {Len(lines) + 1} ELSE {}
<1> DEFINE longer == Append(lines, line)
           n == Len(lines)
<1>0. /\ n \in Nat /\ DOMAIN longer = 1 .. n + 1 /\ DOMAIN lines = 1 .. n
      /\ \A i \in 1 .. n : longer[i] = lines[i]
      /\ longer[n + 1] = line
  BY Appended
<1>1. \A i \in 1 .. n : SectionAt(longer, i) = SectionAt(lines, i)
  BY <1>0, SectionBefore
<1>2. ~IsHeader(line) => SectionAt(longer, n + 1) = SectionAt(lines, n)
  BY <1>0, SectionAfter
<1> HIDE DEF longer, n
<1>3. \A i \in 1 .. n : i \in SettingLines(longer, key) <=> i \in SettingLines(lines, key)
  BY <1>0, <1>1 DEF SettingLines
<1>4. n + 1 \in SettingLines(longer, key) <=>
        /\ ~IsHeader(line)
        /\ line.key = key
        /\ line.value # Unusable
        /\ SectionAt(lines, n) = SectionOf[key]
  BY <1>0, <1>2 DEF SettingLines
<1>5. SettingLines(longer, key) \subseteq 1 .. n + 1 /\ SettingLines(lines, key) \subseteq 1 .. n
  BY <1>0 DEF SettingLines
<1> QED
  BY <1>0, <1>3, <1>4, <1>5 DEF longer, n

MeaningUnder(lines, key, setting) ==
  IF setting = {} THEN Shipped[key]
  ELSE lines[CHOOSE i \in setting : \A j \in setting : j <= i].value

LEMMA MeaningBySetting ==
  \A lines, key : Meaning(lines, key) = MeaningUnder(lines, key, SettingLines(lines, key))
BY DEF Meaning, MeaningUnder

\* A line that sets the key gives it its value, any other leaves it.
LEMMA MeaningAfter ==
  ASSUME NEW lines \in Seq(Lines), NEW line \in Lines, NEW key \in Keys,
         \A i \in 0 .. Len(lines) : HasLast(HeadersUpTo(lines, i)),
         HasLast(SettingLines(lines, key))
  PROVE  /\ HasLast(SettingLines(Append(lines, line), key))
         /\ Meaning(Append(lines, line), key) =
              IF /\ ~IsHeader(line)
                 /\ line.key = key
                 /\ line.value # Unusable
                 /\ SectionAt(lines, Len(lines)) = SectionOf[key]
                THEN line.value ELSE Meaning(lines, key)
<1> DEFINE longer == Append(lines, line)
           n == Len(lines)
           sets == /\ ~IsHeader(line)
                   /\ line.key = key
                   /\ line.value # Unusable
                   /\ SectionAt(lines, n) = SectionOf[key]
           old == SettingLines(lines, key)
           new == SettingLines(longer, key)
<1>0. /\ n \in Nat /\ DOMAIN lines = 1 .. n
      /\ \A i \in 1 .. n : longer[i] = lines[i]
      /\ longer[n + 1] = line
  BY Appended
<1>1. new = old \cup IF sets THEN {n + 1} ELSE {}
  BY SettingAfter
<1>2. old \subseteq 1 .. n
  BY <1>0 DEF SettingLines
<1>3. Meaning(longer, key) = MeaningUnder(longer, key, new)
      /\ Meaning(lines, key) = MeaningUnder(lines, key, old)
  BY MeaningBySetting
<1>4. HasLast(old)
  OBVIOUS
<1> HIDE DEF longer, n, sets, old, new
<1>5. CASE sets
  <2>1. n + 1 \in new /\ new \subseteq Nat /\ \A i \in new : i <= n + 1
    <3>1. new = old \cup {n + 1}
      BY <1>1, <1>5
    <3>2. \A i \in 1 .. n : i \in Nat /\ i <= n + 1
      BY <1>0
    <3>3. n + 1 \in Nat /\ n + 1 <= n + 1
      BY <1>0
    <3> QED
      BY <1>2, <3>1, <3>2, <3>3
  <2>2. (CHOOSE i \in new : \A j \in new : j <= i) = n + 1
    BY <2>1, LastUnique
  <2>3. MeaningUnder(longer, key, new) = line.value
    BY <1>0, <2>1, <2>2 DEF MeaningUnder
  <2> QED
    BY <1>3, <1>5, <2>1, <2>3 DEF HasLast, longer, n, sets, new
<1>6. CASE ~sets
  <2>1. new = old
    BY <1>1, <1>6
  <2>2. MeaningUnder(longer, key, old) = MeaningUnder(lines, key, old)
    <3>1. CASE old = {}
      BY <3>1 DEF MeaningUnder
    <3>2. CASE old # {}
      <4>1. PICK m \in old : \A i \in old : i <= m
        BY <1>4, <3>2 DEF HasLast
      <4>2. old \subseteq Nat /\ m \in 1 .. n
        BY <1>0, <1>2
      <4>3. (CHOOSE i \in old : \A j \in old : j <= i) = m
        BY <4>1, <4>2, LastUnique
      <4>4. longer[m] = lines[m]
        BY <1>0, <4>2
      <4>5. MeaningUnder(longer, key, old) = longer[m].value
        BY <3>2, <4>3 DEF MeaningUnder
      <4>6. MeaningUnder(lines, key, old) = lines[m].value
        BY <3>2, <4>3 DEF MeaningUnder
      <4> QED
        BY <4>4, <4>5, <4>6
    <3> QED
      BY <3>1, <3>2
  <2> QED
    BY <1>3, <1>4, <1>6, <2>1, <2>2 DEF longer, n, sets, new
<1> QED
  BY <1>5, <1>6

LEMMA HasReadNothing == HasRead(<<>>, Opened)
<1>1. Len(<<>>) = 0 /\ DOMAIN <<>> = {}
  OBVIOUS
<1>2. HeadersUpTo(<<>>, 0) = {}
  BY DEF HeadersUpTo
<1>3. SectionAt(<<>>, 0) = ""
  BY <1>2, SectionByHeaders DEF SectionUnder
<1>4. \A k \in Keys : SettingLines(<<>>, k) = {} /\ Meaning(<<>>, k) = Shipped[k]
  BY <1>1, MeaningBySetting DEF SettingLines, MeaningUnder
<1>5. \A i \in 0 .. Len(<<>>) : HasLast(HeadersUpTo(<<>>, i))
  <2>1. \A i \in 0 .. Len(<<>>) : i = 0
    BY <1>1
  <2> QED
    BY <1>2, <2>1 DEF HasLast
<1>6. Opened.section = "" /\ Opened.config = Shipped
  BY DEF Opened
<1>7. \A k \in Keys : HasLast(SettingLines(<<>>, k)) /\ Opened.config[k] = Meaning(<<>>, k)
  BY <1>4, <1>6 DEF HasLast
<1>8. Opened.section = SectionAt(<<>>, Len(<<>>))
  BY <1>1, <1>3, <1>6
<1> QED
  BY <1>5, <1>7, <1>8 DEF HasRead

LEMMA HasReadLine ==
  ASSUME NEW lines \in Seq(Lines), NEW read \in ReaderStates, HasRead(lines, read),
         NEW line \in Lines
  PROVE  HasRead(Append(lines, line), ReadLine(read, line))
<1> DEFINE longer == Append(lines, line)
           after == ReadLine(read, line)
<1>0. /\ \A i \in 0 .. Len(lines) : HasLast(HeadersUpTo(lines, i))
      /\ read.section = SectionAt(lines, Len(lines))
      /\ \A k \in Keys : HasLast(SettingLines(lines, k)) /\ read.config[k] = Meaning(lines, k)
      /\ Len(lines) \in Nat /\ Len(longer) = Len(lines) + 1
  BY Appended DEF HasRead
<1>1. \A i \in 0 .. Len(longer) : HasLast(HeadersUpTo(longer, i))
  <2>1. \A i \in 0 .. Len(lines) : HasLast(HeadersUpTo(longer, i))
    BY <1>0, SectionBefore
  <2>2. HasLast(HeadersUpTo(longer, Len(lines) + 1))
    BY <1>0, SectionAfter
  <2> QED
    BY <1>0, <2>1, <2>2
<1>2. SectionAt(longer, Len(longer)) = IF IsHeader(line) THEN line.section ELSE read.section
  BY <1>0, SectionAfter
<1>3. after.section = IF IsHeader(line) THEN line.section ELSE read.section
  BY DEF ReadLine, ReaderStates
<1>4. ASSUME NEW k \in Keys
      PROVE  HasLast(SettingLines(longer, k)) /\ after.config[k] = Meaning(longer, k)
  <2> DEFINE sets == /\ ~IsHeader(line)
                     /\ line.key = k
                     /\ line.value # Unusable
                     /\ read.section = SectionOf[k]
  <2>1. /\ HasLast(SettingLines(longer, k))
        /\ Meaning(longer, k) = IF sets THEN line.value ELSE read.config[k]
    BY <1>0, MeaningAfter
  <2>2. after.config[k] = IF sets THEN line.value ELSE read.config[k]
    <3>1. Keys = {"WorldSpaceYaw", "LocalSmoothing"}
      BY DEF Keys, SectionOf
    <3>2. CASE IsHeader(line)
      BY <3>2 DEF ReadLine, ReaderStates
    <3>3. CASE ~IsHeader(line)
      <4>1. line.key \in Keys
        BY <3>1, <3>3, LineKinds
      <4>2. CASE line.value # Unusable /\ SectionOf[line.key] = read.section
        BY <3>1, <3>3, <4>1, <4>2 DEF ReadLine, ReaderStates
      <4>3. CASE ~(line.value # Unusable /\ SectionOf[line.key] = read.section)
        BY <3>3, <4>3 DEF ReadLine
      <4> QED
        BY <4>2, <4>3
    <3> QED
      BY <3>2, <3>3
  <2> QED
    BY <2>1, <2>2
<1> QED
  BY <1>1, <1>2, <1>3, <1>4 DEF HasRead

LEMMA ReaderStepInv == ReaderInv /\ [Next]_vars => ReaderInv'
<1> SUFFICES ASSUME ReaderInv, [Next]_vars PROVE ReaderInv'
  OBVIOUS
<1>1. CASE UNCHANGED reader \/ reader' = Closed
  BY <1>1 DEF ReaderInv
<1>2. CASE OpenLegacy
  BY <1>2, HasReadNothing, ReaderOpened DEF OpenLegacy, ReaderInv
<1>3. CASE \E line \in Lines : ReadLegacyLine(line)
  <2>1. PICK line \in Lines :
          /\ reader # Closed
          /\ reader' = [lines |-> Append(reader.lines, line), read |-> ReadLine(reader.read, line)]
    BY <1>3 DEF ReadLegacyLine
  <2>2. reader.lines \in Seq(Lines) /\ reader.read \in ReaderStates
        /\ HasRead(reader.lines, reader.read)
    BY <2>1 DEF ReaderInv
  <2> QED
    BY <2>1, <2>2, Appended, ReadLineTyped, HasReadLine DEF ReaderInv
<1>4. CASE ReadLegacy
  BY <1>2, <1>3, <1>4 DEF ReadLegacy
<1>5. CASE Start \/ Die \/ Edit
  BY <1>1, <1>5
  DEF Start, Load, Die, Unload, Edit, EditFiles, SaveLegacyAsText, ChangeDefaults, DeleteFile
<1>6. CASE Hotkeys
  BY <1>1, <1>6
  DEF Hotkeys, PressToggle, PressCycle, PressYaw, StoreOn, StoreRot, StorePos, StoreYaw,
      StoreMirror, SaveMode, SaveYaw, SaveRows, configVars
<1>7. CASE View
  BY <1>1, <1>7 DEF View, BeginView, ReadRot, ReadYaw, ReadPos, ReadFlag, EndView, configVars
<1>8. CASE UNCHANGED vars
  BY <1>1, <1>8 DEF vars, configVars
<1> QED
  BY <1>4, <1>5, <1>6, <1>7, <1>8 DEF Next

\* The reader's single pass is right for files of any length: it ends with the
\* value of the last line that sets each key in its section, and with the shipped
\* one where there is none (legacy_config/mod.rs 58-147).
THEOREM AlwaysReadsLastSetting == Spec => []ReadsLastSetting
<1>1. Init => ReaderInv
  BY DEF Init, ConfigInit, ReaderInv
<1>2. ReaderInv => ReadsLastSetting
  BY DEF ReaderInv, HasRead, ReadsLastSetting
<1> QED
  BY <1>1, <1>2, ReaderStepInv, PTL DEF Spec

\* An import writes the yaw mode the legacy file gives, or leaves it to
\* Defaults.ini where the player never changed it.
LEMMA ImportedYaw ==
  ASSUME NEW config \in [WorldSpaceYaw : {"true", "false"}, LocalSmoothing : {"0.0", "0.3"}],
         defaultsIni.yaw \in BOOLEAN
  PROVE  IF config.WorldSpaceYaw = Shipped.WorldSpaceYaw
           THEN Imported(config).yaw = Default
           ELSE Said(Imported(config).yaw, defaultsIni.yaw) = (config.WorldSpaceYaw = "true")
<1>1. Imported(config).yaw = IF config.WorldSpaceYaw \in {"true", Value(defaultsIni.yaw)}
                               THEN Default ELSE config.WorldSpaceYaw
  BY DEF Imported, Shipped, Fresh, Fields
<1>2. CASE config.WorldSpaceYaw = "true"
  BY <1>1, <1>2 DEF Shipped
<1>3. CASE config.WorldSpaceYaw = "false" /\ defaultsIni.yaw = FALSE
  <2>1. Imported(config).yaw = Default
    BY <1>1, <1>3 DEF Value
  <2>2. Said(Imported(config).yaw, defaultsIni.yaw) = FALSE
    BY <1>3, <2>1 DEF Said
  <2> QED
    BY <1>3, <2>2 DEF Shipped
<1>4. CASE config.WorldSpaceYaw = "false" /\ defaultsIni.yaw = TRUE
  <2>1. Imported(config).yaw = "false"
    BY <1>1, <1>4 DEF Value
  <2>2. Said(Imported(config).yaw, defaultsIni.yaw) = FALSE
    BY <2>1 DEF Said, Default
  <2> QED
    BY <1>4, <2>2 DEF Shipped
<1> QED
  BY <1>2, <1>3, <1>4

\* Only a start brings CameraUnlock.ini into being.
LEMMA FileBegins ==
  ASSUME IInv, [Next]_vars, file = NoFile, file' # NoFile
  PROVE  Load
<1>1. CASE ReadLegacy
  BY <1>1 DEF ReadLegacy, OpenLegacy, ReadLegacyLine
<1>2. CASE Start
  BY <1>2 DEF Start
<1>3. CASE Die \/ Edit
  BY <1>3 DEF Die, Unload, Edit, EditFiles, SaveLegacyAsText, ChangeDefaults, DeleteFile
<1>4. CASE Hotkeys
  BY <1>4
  DEF Hotkeys, PressToggle, PressCycle, PressYaw, StoreOn, StoreRot, StorePos, StoreYaw,
      StoreMirror, SaveMode, SaveYaw, SaveRows, configVars
<1>5. CASE View
  BY <1>5 DEF View, BeginView, ReadRot, ReadYaw, ReadPos, ReadFlag, EndView, configVars
<1>6. CASE UNCHANGED vars
  BY <1>6 DEF vars, configVars
<1> QED
  BY <1>1, <1>2, <1>3, <1>4, <1>5, <1>6 DEF Next

\* Beside a legacy file of any length CameraUnlock.ini comes into being only as
\* what that file says, once it could be read (config.rs 175-187,
\* config_owner.cpp 96-106).
THEOREM LegacyNeverSuperseded == Spec => LegacyNotSuperseded
<1> DEFINE Superseding == file = NoFile /\ file' # NoFile /\ legacy # "none"
           AsRead ==
             /\ reader # Closed
             /\ LET yaw == Meaning(reader.lines, "WorldSpaceYaw")
                IN  IF yaw = Shipped.WorldSpaceYaw THEN file'.yaw = Default
                    ELSE Said(file'.yaw, defaultsIni.yaw) = (yaw = "true")
<1>1. IInv /\ ReaderInv /\ [Next]_vars => [Superseding => AsRead]_configVars
  <2> SUFFICES ASSUME IInv, ReaderInv, [Next]_vars, Superseding PROVE AsRead
    OBVIOUS
  <2>1. Load
    BY FileBegins
  <2>2. LoadMigrated
    BY <2>1 DEF Load, LoadCanonical, LoadCreated, LoadDeferred, Import, Outcome, LegacyText
  <2>3. reader # Closed /\ file' = Imported(reader.read.config)
    BY <2>2 DEF LoadMigrated, Import, Outcome, LegacyText
  <2>4. /\ reader.read \in ReaderStates
        /\ reader.read.config["WorldSpaceYaw"] = Meaning(reader.lines, "WorldSpaceYaw")
    BY <2>3 DEF ReaderInv, HasRead, Keys, SectionOf
  <2>5. reader.read.config \in [WorldSpaceYaw : {"true", "false"}, LocalSmoothing : {"0.0", "0.3"}]
    BY <2>4 DEF ReaderStates
  <2>6. defaultsIni.yaw \in BOOLEAN
    BY DefaultsIniModes DEF IInv, TypeOK, ConfigTypeOK, Fields
  <2> QED
    BY <2>3, <2>4, <2>5, <2>6, ImportedYaw
<1>2. Init => ReaderInv
  BY DEF Init, ConfigInit, ReaderInv
<1>3. Spec => [][Superseding => AsRead]_configVars
  BY Inductive, <1>1, <1>2, ReaderStepInv, PTL DEF Spec
<1> QED
  BY <1>3 DEF LegacyNotSuperseded

=============================================================================
