CONSTANTS
  NetProto = 2048
  TransProto = 6
  EndpointFaults = TRUE
  AsyncErrors = {"ErrConnectionRefused", "ErrTimeout"}
  RttSamples <- MCRttSamples
  GetKeys <- MCIPv6GetKeys
  SetInputs <- MCIPv6SetInputs
  ContractKeys <- MCIPv6Keys
  ContractGroupKeys <- MCIPv6GroupKeys

SPECIFICATION Spec


PROPERTY ImplementsOptionStore
