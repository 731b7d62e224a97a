CONSTANTS
  NetProto = 34525
  TransProto = 17
  EndpointFaults = TRUE
  AsyncErrors = {"ErrConnectionRefused", "ErrTimeout"}
  RttSamples <- MCRttSamples
  GetKeys <- MCCrossGetKeys
  SetInputs <- MCCrossSetInputs
  ContractKeys <- MCCrossKeys
  ContractGroupKeys = {}

SPECIFICATION Spec


PROPERTY ImplementsOptionStore
