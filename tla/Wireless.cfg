SPECIFICATION Spec
CONSTANTS
  Radio = {"radio1"}
  SiteDisabled <- MCSiteDisabled
  Hours <- MCHours
  Fallback = fallbackConfiguration
  Nothing = nothing
  MaxReboots = 1
INVARIANTS
  TypeOK
  ClientsFollowTheHour
  SettingsSurvive
PROPERTIES
  NightEnds
  MeshComesBack
