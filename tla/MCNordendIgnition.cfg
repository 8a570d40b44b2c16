CONSTANTS
  AvValve = {"pressurize"}
  GseValve = {"fill"}
  Pressurize = "pressurize"
  GseReport = {"ACTIVE", "INACTIVE", "Unknown"}
  Mode = {"INITIALIZE_MODE", "ARMED_MODE", "PRESSURED_MODE", "DESCENT_MODE"}
  Labelled = {"INITIALIZE_MODE", "PRESSURED_MODE"}
  UpCap = 1
SPECIFICATION Spec
PROPERTIES IgnitionOnlyPressured
