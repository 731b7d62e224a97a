CONSTANTS
  NetProto = 2048
  TransProto = 6
  EndpointFaults = TRUE
  AsyncErrors = {"ErrConnectionRefused", "ErrTimeout"}
  RttSamples <- MCRttSamples
  GetKeys <- MCIPGetKeys
  SetInputs <- MCIPSetInputs
  ContractKeys <- MCIPKeys
  ContractGroupKeys <- MCIPGroupKeys

SPECIFICATION Spec


PROPERTY ImplementsOptionStore
