CONSTANTS
  NetProto = 2048
  TransProto = 6
  EndpointFaults = TRUE
  AsyncErrors = {"ErrConnectionRefused", "ErrTimeout"}
  RttSamples <- MCRttSamples
  GetKeys <- MCSocketGetKeys
  SetInputs <- MCSocketSetInputs
  ContractKeys <- MCSocketKeys
  ContractGroupKeys = {}

SPECIFICATION Spec

INVARIANT TypeOK

PROPERTY ImplementsOptionStore
