SPECIFICATION CameraSpec
CONSTANTS
  Handlers = {h1}
  BadCamera = 7
INVARIANT
  CameraRestored
CHECK_DEADLOCK FALSE
