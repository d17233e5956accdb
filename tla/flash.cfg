SPECIFICATION Spec
CONSTANTS
  s1 = s1
  s2 = s2
  d0 = d0
  d1 = d1
  NoFile = NoFile
  Broken = Broken
  Invalid = Invalid
  NoNet = NoNet
  MAX_WIFI_NETWORKS = 1
  Ssids = {s1, s2}
  Ppms = {0, 1, 2}
  Data = {d0, d1}
  Default = d0
  Backup <- MCBackup
  MaxMishaps = 2
INVARIANTS SettingsInv BootedAsStored AnswerStored
PROPERTIES CalibrationOnlyByUser
CHECK_DEADLOCK FALSE
