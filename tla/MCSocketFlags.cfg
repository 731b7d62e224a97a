CONSTANTS
  NetProto = 2048
  TransProto = 6
  EndpointFaults = TRUE
  AsyncErrors = {"ErrConnectionRefused", "ErrTimeout"}
  RttSamples <- MCRttSamples
  GetKeys <- MCSocketFlagGetKeys
  SetInputs <- MCSocketFlagSetInputs
  ContractKeys <- MCSocketFlagKeys
  ContractGroupKeys = {}

SPECIFICATION Spec


PROPERTY ImplementsOptionStore
