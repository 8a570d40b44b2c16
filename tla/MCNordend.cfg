CONSTANTS
  AvValve = {"pressurize"}
  GseValve = {"fill"}
  Pressurize = "pressurize"
  GseReport = {"ACTIVE", "INACTIVE"}
  Mode = {"INITIALIZE_MODE", "ARMED_MODE", "PRESSURED_MODE", "DESCENT_MODE"}
  Labelled = {"INITIALIZE_MODE", "PRESSURED_MODE"}
  UpCap = 1
SPECIFICATION FairSpec
INVARIANTS TypeOK OneStateNow
PROPERTIES ShownStaysReported PanelCatchesUp SafeLabelCatchesUp
