SPECIFICATION StoreSpec
CONSTANTS
  Requests = {q1, q2}
  Fields = {a, b}
  Apart = {}
  DefaultsTrue = {a}
PROPERTIES
  SettingsSurvive
CHECK_DEADLOCK FALSE
