CONSTANTS
  ClientCaName = "Tesla Motors Products CA"
  ServerIDs <- Servers
  ClientIDs <- Clients
  BoardIDs <- Boards
  CASuffixed = {"Tesla Motors Products CA", "Tesla Issuing CA", "Other CA"}
  MaxRuns = 2
  Connections <- MCConnections
  Inputs <- MCInputs
  Foreign <- MCForeign
  Strangers <- MCStrangers
  Dispatchers <- MCDispatchers
  Decoded = {FALSE, TRUE}
  MaxSecondsInDuration = 5000
  JSONSeconds <- MCJSONSeconds
  SizeLimit = 2
  Size <- MCSize
  ConfiguredTopics <- MCConfigured
  EmptyMessage <- MCEmptyMessage
  ModelLetter <- MCModelLetter
  Requests = {"r1", "r2"}
  DialTimeout = 2
  ProbeTimeout = 3
  WriteTimeout = 4
  ShutdownTimeout = 4
SPECIFICATION DeploymentSpec
INVARIANTS
  VinIsCertified ConsumersAgree ViewsAgree InstantsKept
  EncodedIsCurrent ReplyNamesMessage BundleConsistent BundleDevicesConnect HealthyMeansTrusted NoRequestLost
CHECK_DEADLOCK FALSE
