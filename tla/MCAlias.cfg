CONSTANTS
  NetProto = 2048
  TransProto = 6
  EndpointFaults = FALSE
  AsyncErrors = {}
  RttSamples = {}
  GetKeys <- MCAliasKeys
  SetInputs <- MCAliasSetInputs
  ContractKeys <- MCAliasKeys
  ContractGroupKeys = {}

SPECIFICATION Spec

PROPERTY ImplementsOptionStore
