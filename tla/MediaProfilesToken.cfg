CONSTANTS
  ConfigTypes <- MCConfigTypes
  Configurations <- MCConfigurations
  Shipped <- MCShipped
  AddLists <- MCAddLists
  MaxProfiles = 3
  MaxConfigs = 2
  LastVideoSource = "source0"
  Media1Encoders = {"encoder0"}
  Streams = {"encoder0"}
  CompatibleNodes <- MCCompatibleNodes
  NodeToken <- MCNodeToken
  Nodes = {"node0"}
  PtzOptions = {"ptz0"}
SPECIFICATION Spec
INVARIANT BackIsFoundByItsToken
CHECK_DEADLOCK FALSE
