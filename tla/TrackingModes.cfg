CONSTANT MaxLines = 4
SPECIFICATION Spec
INVARIANTS
  ViewPosesInMode
  NextStartResumes
  ReadsLastSetting
PROPERTIES
  ImplementsPreferences
  LegacyNotSuperseded
