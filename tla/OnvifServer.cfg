CONSTANTS
  ConfigTypes <- MCConfigTypes
  Configurations <- MCConfigurations
  Shipped <- MCShipped
  AddLists <- MCAddLists
  MaxProfiles = 4
  MaxConfigs = 8
  LastVideoSource = "source0"
  Media1Encoders = {"encoder0"}
  Streams = {"encoder0"}
  CompatibleNodes <- MCCompatibleNodes
  NodeToken <- MCNodeToken
  Nodes = {"node0"}
  PtzOptions = {"ptz0"}
  Digest = TRUE
  Users <- MCUsers
  OwnPort = TRUE
  Recordings <- MCRecordings
  Day = 2
  MaxClock = 1
  MaxSearches = 2
  Downloads = {1, 2}
  Length = 4
  MaxRequests = 2
SPECIFICATION ServerSpec
INVARIANTS ServerTypeOK ServesWhenReady UnchangedProfilesAgree AcknowledgedProfilesStay
   ReadersAgree FaultsAreTrue ResultsAreStable RangesAreSound DownloadsAreWhole
PROPERTIES ChangesAreAdmitted EveryStartEnds EveryRequestEnds
CHECK_DEADLOCK FALSE
