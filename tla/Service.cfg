SPECIFICATION Spec
CONSTANTS
  Viewers = {v1, v2, v3}
  Stuck = {v3}
  MaxClients = 1
  QueueCap = 1
  Handlers = {h1}
  BadCamera = 7
INVARIANTS
  NoViewerUnlisted
  NoGhostViewer
  CapOnlyByRace
  ChoiceInForce
PROPERTIES
  SlowViewerHarmless
  ShutdownEnds
  AutoSwitchesSpaced
  LightDecides
CHECK_DEADLOCK FALSE
