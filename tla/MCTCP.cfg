CONSTANTS
  NetProto = 2048
  TransProto = 6
  EndpointFaults = TRUE
  AsyncErrors = {"ErrConnectionRefused", "ErrTimeout"}
  RttSamples <- MCRttSamples
  GetKeys <- MCTCPGetKeys
  SetInputs <- MCTCPSetInputs
  ContractKeys <- MCTCPKeys
  ContractGroupKeys = {}

SPECIFICATION Spec


PROPERTY ImplementsOptionStore
